--------------------------- MODULE Reports_proofs ---------------------------
(***************************************************************************)
(* Proofs about Reports: whoever pages through a listing that only grows   *)
(* reaches every row, a winning number once shown stays, and the summaries *)
(* add up to the balance, for any number of users, requests, rows, page    *)
(* sizes and days.                                                         *)
(***************************************************************************)
EXTENDS ReportsProps, Sums

-----------------------------------------------------------------------------
(* The requests *)

Writing(r) == InFlight(r) \/ (pc[r] = "done" /\ call[r].op # "list")
Paging(r)  == pc[r] \in {"page", "count", "numbers", "show"}

Step == {"idle", "bets", "credits", "rescore", "commit", "page", "count", "numbers", "show", "failed", "done"}

\* Requests that write have begun one after the other.
RequestsOK ==
  /\ pc \in [Req -> Step] /\ clock \in Nat
  /\ DOMAIN call = Req /\ DOMAIN began = Req /\ DOMAIN view = Req
  /\ \A r \in Req :
       /\ pc[r] = "idle" => call[r] = None
       /\ pc[r] # "idle" => call[r] \in CallSet
       /\ InFlight(r) => call[r].op # "list"
       /\ pc[r] = "bets" => call[r].op = "declare"
       /\ pc[r] \in {"credits", "rescore"} => call[r].op = "correct"
       /\ Paging(r) => call[r].op = "list"
       /\ Writing(r) => began[r] \in Nat /\ began[r] < clock
  /\ \A r, s \in Req : Writing(r) /\ Writing(s) /\ began[r] = began[s] => r = s

\* What a call of each kind asks for.
LEMMA CallTypes ==
  ASSUME NEW c \in CallSet
  PROVE  /\ c.op \in {"topUp", "withdraw"} => c.user \in User /\ c.amount \in Amount
         /\ c.op = "bet" => c.user \in User /\ c.game \in Game /\ c.slip \in Slip
         /\ c.op = "declare" => c.game \in Game /\ c.number \in Number
         /\ c.op = "correct" => c.ref \in Req /\ c.number \in Number
         /\ c.op = "list" =>
              /\ c.limit \in Limit
              /\ c.list \in {"transactions", "bets", "results", "withdrawals"}
         /\ c.op \in {"topUp", "withdraw", "bet", "declare", "correct", "list"}
<1>1. CASE c \in [op : {"topUp", "withdraw"}, user : User, amount : Amount]
  BY <1>1
<1>2. CASE c \in [op : {"bet"}, user : User, game : Game, slip : Slip]
  BY <1>2
<1>3. CASE c \in [op : {"declare"}, game : Game, number : Number]
  BY <1>3
<1>4. CASE c \in [op : {"correct"}, ref : Req, number : Number]
  BY <1>4
<1>5. CASE c \in TransactionsQuery
  BY <1>5 DEF TransactionsQuery
<1>6. CASE c \in BetsQuery
  BY <1>6 DEF BetsQuery
<1>7. CASE c \in ResultsQuery
  BY <1>7 DEF ResultsQuery
<1>8. CASE c \in WithdrawalsQuery
  BY <1>8 DEF WithdrawalsQuery
<1> QED BY <1>1, <1>2, <1>3, <1>4, <1>5, <1>6, <1>7, <1>8 DEF CallSet

\* What every step does to the requests.
LEMMA RequestsInit == RInit => RequestsOK
BY DEF RInit, RequestsOK, Step, Writing, InFlight, Paging

\* Every step keeps the order of the writing requests.
LEMMA RequestsNext == RequestsOK /\ [RNext]_vars => RequestsOK'
<1> SUFFICES ASSUME RequestsOK, [RNext]_vars PROVE RequestsOK'
  OBVIOUS
<1>1. CASE UNCHANGED vars
  BY <1>1 DEF vars, RequestsOK, Writing, InFlight, Paging
<1>2. ASSUME NEW r \in Req, Start(r) PROVE RequestsOK'
  <2>1. PICK c \in Calls[r] : /\ c.op # "list" /\ call' = [call EXCEPT ![r] = c]
                              /\ pc' = [pc EXCEPT ![r] = FirstStep(c)]
    BY <1>2 DEF Start, Goto
  <2>2. /\ pc[r] = "idle"
        /\ began' = [began EXCEPT ![r] = clock] /\ clock' = clock + 1 /\ view' = view
    BY <1>2 DEF Start
  <2>3. c \in CallSet
    BY ReportsAssumption
  <2> HIDE DEF CallSet
  <2>0. /\ FirstStep(c) \in {"bets", "credits", "commit"}
        /\ FirstStep(c) = "bets" => c.op = "declare"
        /\ FirstStep(c) = "credits" => c.op = "correct"
    BY DEF FirstStep
  <2>4. \A s \in Req : s # r => (Writing(s)' <=> Writing(s)) /\ began'[s] = began[s]
    BY <2>1, <2>2 DEF RequestsOK, Writing, InFlight
  <2>5. \A s \in Req : Writing(s) => began[s] \in Nat /\ began[s] < clock
    BY DEF RequestsOK
  <2>6. /\ pc' \in [Req -> Step] /\ clock' \in Nat
        /\ DOMAIN call' = Req /\ DOMAIN began' = Req /\ DOMAIN view' = Req
    BY <2>0, <2>1, <2>2 DEF RequestsOK, Step
  <2>7. \A s \in Req : Writing(s)' => began'[s] \in Nat /\ began'[s] < clock'
    BY <2>2, <2>4, <2>5 DEF RequestsOK
  <2>8. \A s, o \in Req : Writing(s)' /\ Writing(o)' /\ began'[s] = began'[o] => s = o
    BY <2>2, <2>4, <2>5 DEF RequestsOK
  <2>9. \A s \in Req :
       /\ pc'[s] = "idle" => call'[s] = None
       /\ pc'[s] # "idle" => call'[s] \in CallSet
       /\ InFlight(s)' => call'[s].op # "list"
       /\ pc'[s] = "bets" => call'[s].op = "declare"
       /\ pc'[s] \in {"credits", "rescore"} => call'[s].op = "correct"
       /\ Paging(s)' => call'[s].op = "list"
    BY <2>0, <2>1, <2>2, <2>3 DEF RequestsOK, InFlight, Paging
  <2> QED BY <2>6, <2>7, <2>8, <2>9 DEF RequestsOK
<1>3. ASSUME NEW r \in Req, Ask(r) PROVE RequestsOK'
  <2>1. PICK c \in Calls[r] : c.op = "list" /\ call' = [call EXCEPT ![r] = c]
    BY <1>3 DEF Ask
  <2>2. /\ pc[r] = "idle" /\ pc' = [pc EXCEPT ![r] = "page"]
        /\ began' = began /\ clock' = clock /\ DOMAIN view' = Req
    BY <1>3 DEF Ask, Goto, RequestsOK
  <2>3. c \in CallSet
    BY ReportsAssumption
  <2> HIDE DEF CallSet
  <2>4. \A s \in Req : Writing(s)' <=> Writing(s)
    BY <2>1, <2>2 DEF RequestsOK, Writing, InFlight
  <2>5. \A s \in Req :
       /\ pc'[s] = "idle" => call'[s] = None
       /\ pc'[s] # "idle" => call'[s] \in CallSet
       /\ InFlight(s)' => call'[s].op # "list"
       /\ pc'[s] = "bets" => call'[s].op = "declare"
       /\ pc'[s] \in {"credits", "rescore"} => call'[s].op = "correct"
       /\ Paging(s)' => call'[s].op = "list"
    BY <2>1, <2>2, <2>3 DEF RequestsOK, InFlight, Paging
  <2>6. /\ pc' \in [Req -> Step] /\ clock' \in Nat
        /\ DOMAIN call' = Req /\ DOMAIN began' = Req /\ DOMAIN view' = Req
    BY <2>1, <2>2 DEF RequestsOK, Step
  <2> QED BY <2>2, <2>4, <2>5, <2>6 DEF RequestsOK
<1>4. ASSUME NEW r \in Req, FindBets(r) \/ FindCredits(r) \/ Rescore(r) \/ Commit(r) \/ Fail(r)
      PROVE  RequestsOK'
  <2>1. PICK s \in {"rescore", "commit", "done", "failed"} :
             /\ pc' = [pc EXCEPT ![r] = s]
             /\ s = "rescore" => pc[r] = "credits"
    BY <1>4 DEF FindBets, FindCredits, Rescore, Commit, Fail, Goto
  <2>2. /\ InFlight(r) /\ call[r].op # "list"
        /\ began' = began /\ clock' = clock /\ call' = call /\ view' = view
    BY <1>4 DEF FindBets, FindCredits, Rescore, Commit, Fail, RequestsOK, InFlight
  <2>3. \A o \in Req : Writing(o)' => Writing(o)
    BY <2>1, <2>2 DEF RequestsOK, Writing, InFlight
  <2>4. \A o \in Req :
       /\ pc'[o] = "idle" => call'[o] = None
       /\ pc'[o] # "idle" => call'[o] \in CallSet
       /\ InFlight(o)' => call'[o].op # "list"
       /\ pc'[o] = "bets" => call'[o].op = "declare"
       /\ pc'[o] \in {"credits", "rescore"} => call'[o].op = "correct"
       /\ Paging(o)' => call'[o].op = "list"
    <3> HIDE DEF CallSet
    <3> QED BY <2>1, <2>2 DEF RequestsOK, InFlight, Paging
  <2>5. /\ pc' \in [Req -> Step] /\ clock' \in Nat
        /\ DOMAIN call' = Req /\ DOMAIN began' = Req /\ DOMAIN view' = Req
    BY <2>1, <2>2 DEF RequestsOK, Step
  <2> QED BY <2>2, <2>3, <2>4, <2>5 DEF RequestsOK
<1>5. ASSUME NEW r \in Req, Paging(r), Reject(r) \/ ReadPage(r) \/ Count(r) \/ ReadNumbers(r) \/ Show(r)
      PROVE  RequestsOK'
  <2>1. PICK s \in {"failed", "count", "numbers", "show", "page", "done"} :
             pc' = [pc EXCEPT ![r] = s]
    BY <1>5 DEF Reject, ReadPage, Count, ReadNumbers, Show, Goto, AfterCount
  <2>2. /\ began' = began /\ clock' = clock /\ call' = call
    BY <1>5 DEF Reject, ReadPage, Count, ReadNumbers, Show
  <2>3. DOMAIN view' = Req
    BY <1>5 DEF Reject, ReadPage, Count, ReadNumbers, Show, RequestsOK
  <2>4. call[r].op = "list"
    BY <1>5 DEF RequestsOK
  <2>5. \A o \in Req : Writing(o)' <=> Writing(o)
    BY <1>5, <2>1, <2>2, <2>4 DEF RequestsOK, Writing, InFlight, Paging
  <2>6. \A o \in Req : (Paging(o)' => Paging(o)) /\ (InFlight(o)' => InFlight(o))
    BY <1>5, <2>1 DEF RequestsOK, InFlight, Paging
  <2> QED BY <1>5, <2>1, <2>2, <2>3, <2>5, <2>6 DEF RequestsOK, Step, Paging
<1>6. \A r \in Req : Reject(r) \/ ReadPage(r) \/ Count(r) \/ ReadNumbers(r) \/ Show(r) => Paging(r)
  BY DEF Reject, ReadPage, Count, ReadNumbers, Show, Paging
<1> QED BY <1>1, <1>2, <1>3, <1>4, <1>5, <1>6 DEF RNext

-----------------------------------------------------------------------------
(* The book and the ledger *)

\* What a settlement awards: to finitely many users.
Won   == {won \in [User -> [amount : Nat, bets : SUBSET Req]] :
            IsFiniteSet({u \in User : won[u].amount > 0})}
Entry == [by : Req, user : User, type : Type, amount : Nat, ref : Req, deleted : BOOLEAN]

\* A row's amount, whatever its type.
Gross == [t \in Entry |-> t.amount]

\* The records in their types, each written by a request that is done.
BookOK ==
  /\ balance \in [User -> Int] /\ DOMAIN bets = Req /\ DOMAIN results = Req
  /\ \A b \in Req : bets[b] # None =>
       /\ pc[b] = "done" /\ call[b].op = "bet" /\ bets[b] \in Bet
       /\ bets[b].result # None => results[bets[b].result] # None
  /\ \A x \in Req : results[x] # None =>
       pc[x] = "done" /\ call[x].op = "declare" /\ results[x] \in Result

\* The rows of the ledger: a request that is no settlement writes one, and it stays.
LedgerOK ==
  /\ IsFiniteSet(ledger)
  /\ \A t \in ledger :
       /\ t \in Entry /\ pc[t.by] = "done" /\ call[t.by].op # "list"
       /\ t.type = "credit" <=> call[t.by].op \in {"declare", "correct"}
       /\ t.deleted => t.type = "credit"
  /\ \A t, s \in ledger : t.by = s.by /\ t.type # "credit" => t = s

\* What a settlement has found: bets, credits and a result that exist.
Reads == [pending : SUBSET Req, found : SUBSET Entry, won : Won, loaded : Result \cup {None}]

TxOK ==
  /\ tx \in [Req -> Reads]
  /\ \A r \in Req :
       /\ \A b \in tx[r].pending : bets[b] # None
       /\ IsFiniteSet(tx[r].found) /\ \A t \in tx[r].found : t.type = "credit" /\ ~t.deleted
       /\ InFlight(r) /\ call[r].op = "correct" => results[call[r].ref] # None

\* What users win is a natural number.
LEMMA WinnersTyped ==
  ASSUME BookOK, NEW B, B \subseteq Req, \A b \in B : bets[b] # None, NEW n \in Number
  PROVE  Winners(Stakes(B), n) \in Won
<1> DEFINE Bettors == {bets[b].user : b \in B}
<1> SUFFICES \A u \in User : /\ Prize(Stakes(B), u, n) \in Nat
                             /\ WinningBets(Stakes(B), u, n) \subseteq Req
                             /\ Prize(Stakes(B), u, n) > 0 => u \in Bettors
  <2>1. IsFiniteSet(Bettors)
    <3> DEFINE user == [b \in B |-> bets[b].user]
    <3>1. Bettors = {user[b] : b \in B} /\ IsFiniteSet(B)
      BY ReportsAssumption, FS_Subset
    <3> HIDE DEF Bettors, user
    <3>2. IsFiniteSet({user[b] : b \in B})
      BY <3>1, Image
    <3> QED BY <3>1, <3>2
  <2> HIDE DEF Bettors
  <2> DEFINE won == Winners(Stakes(B), n)
  <2>2. \A u \in User : won[u].amount = Prize(Stakes(B), u, n)
    BY DEF Winners
  <2>3. won \in [User -> [amount : Nat, bets : SUBSET Req]]
    BY DEF Winners
  <2>4. {u \in User : won[u].amount > 0} \subseteq Bettors
    BY <2>2
  <2> HIDE DEF won
  <2>5. IsFiniteSet({u \in User : won[u].amount > 0})
    BY <2>1, <2>4, FS_Subset
  <2>6. won \in Won
    BY <2>3, <2>5 DEF Won
  <2> QED BY <2>6 DEF won
<1> SUFFICES ASSUME NEW u \in User
             PROVE  /\ Prize(Stakes(B), u, n) \in Nat
                    /\ WinningBets(Stakes(B), u, n) \subseteq Req
                    /\ Prize(Stakes(B), u, n) > 0 => u \in Bettors
  OBVIOUS
<1> DEFINE stake == [b \in B |-> [id |-> b, user |-> bets[b].user, slip |-> bets[b].slip]]
           S == StakesOf(Stakes(B), u)
           f == [s \in S |-> s.slip[n]]
<1>1. Stakes(B) = {stake[b] : b \in B}
  BY DEF Stakes
<1>2. IsFiniteSet(B)
  BY ReportsAssumption, FS_Subset
<1>3. IsFiniteSet(Stakes(B))
  <2>1. IsFiniteSet({stake[b] : b \in B})
    <3> HIDE DEF stake
    <3> QED BY <1>2, Image
  <2> QED BY <1>1, <2>1
<1>4. IsFiniteSet(S)
  BY <1>3, FS_Subset DEF StakesOf
<1>5. \A s \in Stakes(B) : s.slip \in Slip /\ s.id \in Req
  BY DEF Stakes, BookOK, Bet
<1>6. Slip \subseteq [Number -> Nat] /\ Multiplier \in Nat
  BY ReportsAssumption
<1>7. \A s \in S : f[s] \in Nat
  BY <1>5, <1>6 DEF StakesOf
<1>8. SumFunctionOnSet(f, S) \in Nat
  <2> HIDE DEF f, S
  <2> QED BY <1>4, <1>7, SumNat
<1>9. MapThenSumSet(LAMBDA s : s.slip[n], S) = SumFunctionOnSet(f, S)
  <2> DEFINE P(g) == g = [t \in SUBSET S |-> IF t = {} THEN 0
                            ELSE LET s == CHOOSE s \in t : TRUE IN s.slip[n] + g[t \ {s}]]
  <2>1. MapThenSumSet(LAMBDA s : s.slip[n], S) = (CHOOSE g : P(g))[S]
    BY DEF MapThenSumSet, MapThenFoldSet
  <2>2. SumFunctionOnSet(f, S) = (CHOOSE g : Running(f, S, g))[S]
    BY DEF SumFunctionOnSet, FoldFunctionOnSet, MapThenFoldSet, Running
  <2>3. \A s \in S : f[s] = s.slip[n]
    OBVIOUS
  <2>4. ASSUME NEW g PROVE P(g) <=> Running(f, S, g)
    <3> HIDE DEF f, S
    <3> QED BY <2>3 DEF Running
  <2> HIDE DEF P
  <2> QED BY <2>1, <2>2, <2>4
<1>10. WinningBets(Stakes(B), u, n) \subseteq Req
  BY <1>5 DEF WinningBets, StakesOf
<1> HIDE DEF f, S
<1>11. Prize(Stakes(B), u, n) = Multiplier * SumFunctionOnSet(f, S)
  BY <1>9 DEF Prize, S
<1>12. Prize(Stakes(B), u, n) > 0 => u \in Bettors
  <2> SUFFICES ASSUME SumFunctionOnSet(f, S) # 0 PROVE u \in Bettors
    BY <1>6, <1>8, <1>11
  <2>1. S # {}
    BY SumEmpty
  <2> QED BY <2>1, <1>1 DEF S, StakesOf
<1> QED BY <1>6, <1>8, <1>10, <1>11, <1>12

\* Prices are natural numbers.
LEMMA CostTyped == (\A s \in Slip : Total(s) \in Nat) /\ (\A a \in Amount : a \in Nat)
BY ReportsAssumption

\* Every row of K is a row of the ledger, which may have been marked deleted.
Kept(K) ==
  /\ IsFiniteSet(K)
  /\ \A t \in K : /\ t \in Entry /\ (t.deleted => t.type = "credit")
                  /\ \E s \in ledger : /\ t.by = s.by /\ t.type = s.type
                                       /\ s.type # "credit" => t = s

\* The rows of N are those request r writes.
Added(N, r) ==
  /\ IsFiniteSet(N)
  /\ \A t \in N : /\ t \in Entry /\ t.by = r /\ ~t.deleted
                  /\ t.type = "credit" <=> call[r].op \in {"declare", "correct"}
  /\ \A t, s \in N : t.type # "credit" => t = s

\* A commit keeps the rows of the requests that were done, and adds its own.
LEMMA LedgerGrows ==
  ASSUME RequestsOK, LedgerOK, NEW r \in Req, pc[r] = "commit",
         pc' = [pc EXCEPT ![r] = "done"], call' = call,
         NEW K, NEW N, ledger' = K \cup N, Kept(K), Added(N, r)
  PROVE  LedgerOK'
<1>1. call[r].op # "list" /\ \A s \in Req : pc[s] = "done" => pc'[s] = "done" /\ s # r
  BY DEF RequestsOK, InFlight
<1>2. \A t \in K : pc[t.by] = "done" /\ call[t.by].op # "list" /\ t.by # r
  BY <1>1 DEF Kept, LedgerOK, Entry
<1>3. ASSUME NEW t \in ledger'
      PROVE  /\ t \in Entry /\ pc'[t.by] = "done" /\ call[t.by].op # "list"
             /\ t.type = "credit" <=> call[t.by].op \in {"declare", "correct"}
             /\ t.deleted => t.type = "credit"
  <2>1. CASE t \in K
    BY <1>1, <1>2, <2>1 DEF Kept, LedgerOK, Entry
  <2>2. CASE t \in N
    BY <1>1, <2>2 DEF Added, RequestsOK
  <2> QED BY <2>1, <2>2
<1>4. ASSUME NEW t \in ledger', NEW s \in ledger', t.by = s.by, t.type # "credit" PROVE t = s
  <2>1. CASE t \in N
    BY <1>2, <1>4, <2>1 DEF Added
  <2>2. CASE t \in K /\ s \in N
    BY <1>2, <1>4, <2>2 DEF Added
  <2>3. CASE t \in K /\ s \in K
    <3>1. PICK p \in ledger : t = p /\ p.type # "credit"
      BY <1>4, <2>3 DEF Kept
    <3>2. PICK q \in ledger : s.by = q.by /\ s.type = q.type /\ (q.type # "credit" => s = q)
      BY <2>3 DEF Kept
    <3>3. q = p
      BY <1>4, <3>1, <3>2 DEF LedgerOK
    <3> QED BY <3>1, <3>2, <3>3
  <2> QED BY <2>1, <2>2, <2>3
<1>5. IsFiniteSet(ledger')
  BY FS_Union DEF Kept, Added
<1> QED BY <1>3, <1>4, <1>5 DEF LedgerOK

\* The commits that write one row.
LEMMA OneRow ==
  ASSUME RequestsOK, LedgerOK, NEW r \in Req, pc[r] = "commit",
         pc' = [pc EXCEPT ![r] = "done"], call' = call,
         NEW u \in User, NEW type \in Type \ {"credit"}, NEW a \in Nat,
         call[r].op \notin {"declare", "correct"},
         ledger' = ledger \cup {Row(r, u, type, a)}
  PROVE  LedgerOK'
<1>1. Kept(ledger)
  BY DEF Kept, LedgerOK
<1>2. Added({Row(r, u, type, a)}, r)
  <2> DEFINE row == Row(r, u, type, a)
  <2>1. row \in Entry /\ row.by = r /\ ~row.deleted /\ row.type # "credit"
    BY DEF Row, Entry, Type
  <2> HIDE DEF row
  <2>2. IsFiniteSet({row})
    BY FS_Singleton
  <2>3. Added({row}, r)
    BY <2>1, <2>2 DEF Added
  <2> QED BY <2>3 DEF row
<1> QED BY <1>1, <1>2, LedgerGrows

\* The row a winner gets, and the rows of a settlement.
CreditRow(r, u, x, a) ==
  [by |-> r, user |-> u, type |-> "credit", amount |-> a, ref |-> x, deleted |-> FALSE]

\* The credit rows of a settlement: one for each user who has won.
LEMMA CreditRowsAre ==
  ASSUME NEW r \in Req, NEW x \in Req, NEW won \in Won
  PROVE  CreditRows(r, x, won) =
           {CreditRow(r, u, x, won[u].amount) : u \in {v \in User : won[v].amount > 0}}
<1> DEFINE W == {v \in User : won[v].amount > 0}
           q(u) == [by |-> r, user |-> u, ref |-> x, amount |-> won[u].amount]
           f(p) == [Row(r, p.user, "credit", p.amount) EXCEPT !.ref = x]
<1>1. CreditRows(r, x, won) = {f(p) : p \in PaidBy(r, x, won)} /\ PaidBy(r, x, won) = {q(u) : u \in W}
  BY DEF CreditRows, PaidBy
<1>2. \A u : f(q(u)) = CreditRow(r, u, x, won[u].amount)
  <2> TAKE u
  <2>1. q(u).user = u /\ q(u).amount = won[u].amount
    OBVIOUS
  <2>2. ASSUME NEW v, NEW a
        PROVE  [Row(r, v, "credit", a) EXCEPT !.ref = x] = CreditRow(r, v, x, a)
    <3> DEFINE o == Row(r, v, "credit", a)
               e == CreditRow(r, v, x, a)
               F == {"by", "user", "type", "amount", "ref", "deleted"}
    <3>1. DOMAIN o = F /\ e = [g \in F |-> e[g]]
      BY DEF Row, CreditRow
    <3>2. /\ e.by = o.by /\ e.user = o.user /\ e.type = o.type /\ e.amount = o.amount
          /\ e.deleted = o.deleted /\ e.ref = x
      BY DEF Row, CreditRow
    <3> HIDE DEF o, e
    <3>3. [o EXCEPT !.ref = x] = [g \in DOMAIN o |-> IF g = "ref" THEN x ELSE o[g]]
      OBVIOUS
    <3>4. \A g \in F : e[g] = IF g = "ref" THEN x ELSE o[g]
      BY <3>2
    <3> QED BY <3>1, <3>3, <3>4 DEF o, e
  <2> HIDE DEF q
  <2> QED BY <2>1, <2>2
<1> HIDE DEF W, q, f
<1>3. CreditRows(r, x, won) = {f(q(u)) : u \in W}
  BY <1>1
<1> QED BY <1>2, <1>3 DEF W

\* The credit rows of a settlement are rows of the request that settles.
LEMMA CreditRowsAdded ==
  ASSUME NEW r \in Req, NEW x \in Req, NEW won \in Won, call[r].op \in {"declare", "correct"}
  PROVE  Added(CreditRows(r, x, won), r)
<1>1. \A u \in User : won[u].amount \in Nat
  BY DEF Won
<1>2. ASSUME NEW u \in User
      PROVE  LET t == CreditRow(r, u, x, won[u].amount) IN
             /\ t \in Entry /\ t.by = r /\ ~t.deleted /\ t.type = "credit"
  BY <1>1 DEF CreditRow, Entry, Type
<1>3. \A t \in CreditRows(r, x, won) :
        t \in Entry /\ t.by = r /\ ~t.deleted /\ t.type = "credit"
  BY <1>2, CreditRowsAre
<1> DEFINE W == {v \in User : won[v].amount > 0}
           rows == [u \in W |-> CreditRow(r, u, x, won[u].amount)]
<1>4. CreditRows(r, x, won) = {rows[u] : u \in W}
  <2>1. CreditRows(r, x, won) = {CreditRow(r, u, x, won[u].amount) : u \in W}
    BY CreditRowsAre
  <2>2. \A u \in W : rows[u] = CreditRow(r, u, x, won[u].amount)
    OBVIOUS
  <2> HIDE DEF W, rows
  <2> QED BY <2>1, <2>2
<1>5. IsFiniteSet(W)
  BY DEF Won
<1> HIDE DEF W, rows
<1>6. IsFiniteSet({rows[u] : u \in W})
  BY <1>5, Image
<1> QED BY <1>3, <1>4, <1>6 DEF Added

-----------------------------------------------------------------------------
(* The commits *)

\* What a commit leaves of the listings' records.
CommitKeeps ==
  /\ BookOK' /\ LedgerOK'
  /\ \A b \in Req : bets[b] # None =>
       /\ bets'[b] # None /\ bets'[b].user = bets[b].user /\ bets'[b].game = bets[b].game
       /\ bets[b].result # None => bets'[b].result # None
  /\ \A x \in Req : results[x] # None => results'[x] # None /\ results'[x].game = results[x].game
  /\ \A t \in ledger : t.type # "credit" => t \in ledger'

\* The requests and records between two commits.
Typed == RequestsOK /\ BookOK /\ LedgerOK /\ TxOK

\* A top-up keeps the book and the ledger.
LEMMA TopUpKeeps ==
  ASSUME Typed, NEW r \in Req, Commit(r), CommitTopUp(r, call[r])
  PROVE  CommitKeeps
<1> DEFINE c == call[r]
<1>1. /\ pc[r] = "commit" /\ pc' = [pc EXCEPT ![r] = "done"] /\ call' = call
  BY DEF Commit, Goto
<1>2. /\ c.op = "topUp" /\ ledger' = ledger \cup {Row(r, c.user, "topup", c.amount)}
      /\ balance' = [balance EXCEPT ![c.user] = @ + c.amount] /\ bets' = bets /\ results' = results
  BY DEF CommitTopUp, TopUp
<1>3. c.user \in User /\ c.amount \in Nat
  BY <1>1, <1>2, CallTypes, CostTyped DEF Typed, RequestsOK
<1> HIDE DEF c
<1>4. LedgerOK'
  BY <1>1, <1>2, <1>3, OneRow DEF Typed, Type, c
<1>5. BookOK'
  BY <1>1, <1>2, <1>3 DEF Typed, BookOK, RequestsOK
<1> QED BY <1>2, <1>4, <1>5 DEF CommitKeeps

\* A withdrawal keeps the book and the ledger.
LEMMA WithdrawKeeps ==
  ASSUME Typed, NEW r \in Req, Commit(r), CommitWithdraw(r, call[r])
  PROVE  CommitKeeps
<1> DEFINE c == call[r]
<1>1. /\ pc[r] = "commit" /\ pc' = [pc EXCEPT ![r] = "done"] /\ call' = call
  BY DEF Commit, Goto
<1>2. /\ c.op = "withdraw" /\ ledger' = ledger \cup {Row(r, c.user, "withdraw", c.amount)}
      /\ balance' = [balance EXCEPT ![c.user] = @ - c.amount] /\ bets' = bets /\ results' = results
  BY DEF CommitWithdraw, Withdraw
<1>3. c.user \in User /\ c.amount \in Nat
  BY <1>1, <1>2, CallTypes, CostTyped DEF Typed, RequestsOK
<1> HIDE DEF c
<1>4. LedgerOK'
  BY <1>1, <1>2, <1>3, OneRow DEF Typed, Type, c
<1>5. BookOK'
  BY <1>1, <1>2, <1>3 DEF Typed, BookOK, RequestsOK
<1> QED BY <1>2, <1>4, <1>5 DEF CommitKeeps

\* A bet keeps the book and the ledger.
LEMMA BetKeeps ==
  ASSUME Typed, NEW r \in Req, Commit(r), CommitBet(r, call[r])
  PROVE  CommitKeeps
<1> DEFINE c == call[r]
<1>1. /\ pc[r] = "commit" /\ pc' = [pc EXCEPT ![r] = "done"] /\ call' = call
  BY DEF Commit, Goto
<1>2. /\ c.op = "bet" /\ ledger' = ledger \cup {Row(r, c.user, "bet_debit", Total(c.slip))}
      /\ bets[r] = None
      /\ bets' = [bets EXCEPT ![r] = [user |-> c.user, game |-> c.game, slip |-> c.slip, result |-> None]]
      /\ balance' = [balance EXCEPT ![c.user] = @ - Total(c.slip)] /\ results' = results
  BY DEF CommitBet, PlaceBet
<1>3. c.user \in User /\ c.game \in Game /\ c.slip \in Slip
  BY <1>1, <1>2, CallTypes DEF Typed, RequestsOK
<1>4. Total(c.slip) \in Nat
  BY <1>3, CostTyped
<1> HIDE DEF c
<1>5. LedgerOK'
  BY <1>1, <1>2, <1>3, <1>4, OneRow DEF Typed, Type, c
<1>6. BookOK'
  <2>1. balance' \in [User -> Int] /\ DOMAIN bets' = Req /\ DOMAIN results' = Req
    BY <1>2, <1>3, <1>4 DEF Typed, BookOK
  <2>2. \A b \in Req : b # r => bets'[b] = bets[b]
    BY <1>2 DEF Typed, BookOK
  <2>3. /\ bets'[r] = [user |-> c.user, game |-> c.game, slip |-> c.slip, result |-> None]
        /\ bets'[r] \in Bet /\ bets'[r].result = None
    BY <1>2, <1>3 DEF Typed, BookOK, Bet
  <2>4. \A b \in Req : pc[b] = "done" => pc'[b] = "done"
    BY <1>1 DEF Typed, RequestsOK
  <2>5. pc'[r] = "done" /\ call'[r].op = "bet"
    BY <1>1, <1>2 DEF Typed, RequestsOK, c
  <2>6. \A b \in Req : bets'[b] # None =>
          /\ pc'[b] = "done" /\ call'[b].op = "bet" /\ bets'[b] \in Bet
          /\ bets'[b].result # None => results'[bets'[b].result] # None
    BY <1>1, <1>2, <2>2, <2>3, <2>4, <2>5 DEF Typed, BookOK
  <2>7. \A x \in Req : results'[x] # None =>
          pc'[x] = "done" /\ call'[x].op = "declare" /\ results'[x] \in Result
    BY <1>1, <1>2, <2>4 DEF Typed, BookOK
  <2> QED BY <2>1, <2>6, <2>7 DEF BookOK
<1> QED BY <1>2, <1>5, <1>6 DEF CommitKeeps, Typed, BookOK

\* What a declaration commits.
LEMMA DeclareFacts ==
  ASSUME Typed, NEW r \in Req, Commit(r), CommitDeclare(r, call[r])
  PROVE  \E B, won, res :
           /\ B \subseteq Req /\ \A b \in B : bets[b] # None
           /\ won \in Won /\ res \in Result /\ res.winners = won /\ results[r] = None
           /\ results' = [results EXCEPT ![r] = res]
           /\ bets' = [b \in Req |-> IF b \in B THEN [bets[b] EXCEPT !.result = r] ELSE bets[b]]
           /\ balance' = [u \in User |-> balance[u] + won[u].amount]
           /\ ledger' = ledger \cup CreditRows(r, r, won)
<1> DEFINE c == call[r]
           B == tx[r].pending
           won == Winners(Stakes(B), c.number)
           res == [game |-> c.game, number |-> c.number, count |-> Cardinality(B),
                   winners |-> won, at |-> began[r]]
<1>1. pc[r] = "commit" /\ c.op = "declare"
  BY DEF Commit, CommitDeclare
<1>2. c.game \in Game /\ c.number \in Number
  BY <1>1, CallTypes DEF Typed, RequestsOK
<1>3. began[r] \in Nat /\ results[r] = None
  BY <1>1 DEF Typed, RequestsOK, BookOK, Writing, InFlight
<1>4. B \subseteq Req /\ \A b \in B : bets[b] # None
  BY DEF Typed, TxOK, Reads
<1>5. /\ results' = [results EXCEPT ![r] = res]
      /\ bets' = [b \in Req |-> IF b \in B THEN [bets[b] EXCEPT !.result = r] ELSE bets[b]]
      /\ balance' = [u \in User |-> balance[u] + won[u].amount]
      /\ ledger' = ledger \cup CreditRows(r, r, won)
  BY DEF CommitDeclare
<1> HIDE DEF c, B
<1>6. won \in Won
  BY <1>2, <1>4, WinnersTyped DEF Typed
<1>7. Cardinality(B) \in Nat
  BY <1>4, ReportsAssumption, FS_Subset, FS_CardinalityType
<1>8. res \in Result /\ res.winners = won
  <2> HIDE DEF won
  <2> QED BY <1>2, <1>3, <1>6, <1>7 DEF Result, Won
<1> HIDE DEF won, res
<1> QED BY <1>3, <1>4, <1>5, <1>6, <1>8

\* A declaration keeps the book and the ledger.
LEMMA DeclareKeeps ==
  ASSUME Typed, NEW r \in Req, Commit(r), CommitDeclare(r, call[r])
  PROVE  CommitKeeps
<1>1. /\ pc[r] = "commit" /\ pc' = [pc EXCEPT ![r] = "done"] /\ call' = call
      /\ call[r].op = "declare"
  BY DEF Commit, Goto, CommitDeclare
<1>2. PICK B, won, res :
           /\ B \subseteq Req /\ \A b \in B : bets[b] # None
           /\ won \in Won /\ res \in Result /\ res.winners = won /\ results[r] = None
           /\ results' = [results EXCEPT ![r] = res]
           /\ bets' = [b \in Req |-> IF b \in B THEN [bets[b] EXCEPT !.result = r] ELSE bets[b]]
           /\ balance' = [u \in User |-> balance[u] + won[u].amount]
           /\ ledger' = ledger \cup CreditRows(r, r, won)
  BY DeclareFacts
<1>3. LedgerOK'
  <2>1. Kept(ledger)
    BY DEF Typed, Kept, LedgerOK
  <2>2. Added(CreditRows(r, r, won), r)
    BY <1>1, <1>2, CreditRowsAdded
  <2> QED BY <1>1, <1>2, <2>1, <2>2, LedgerGrows DEF Typed
<1>4. \A b \in Req : /\ b \notin B => bets'[b] = bets[b]
                     /\ b \in B => bets'[b] = [bets[b] EXCEPT !.result = r]
  BY <1>2
<1>5. r \notin {None} /\ None \notin Req
  BY ReportsAssumption
<1>6. \A b \in B : /\ bets[b] \in Bet /\ bets'[b] \in Bet /\ bets'[b].result = r
                   /\ bets'[b].user = bets[b].user /\ bets'[b].game = bets[b].game
  BY <1>2, <1>4 DEF Typed, BookOK, Bet
<1>7. None \notin Bet /\ None \notin Result
  BY ReportsAssumption
<1>8. results'[r] = res /\ res # None /\ \A x \in Req : x # r => results'[x] = results[x]
  BY <1>2, <1>7 DEF Typed, BookOK
<1>9. \A b \in Req : pc[b] = "done" => pc'[b] = "done"
  BY <1>1 DEF Typed, RequestsOK
<1>10. pc'[r] = "done" /\ call'[r].op = "declare"
  BY <1>1 DEF Typed, RequestsOK
<1>11. \A b \in Req : bets'[b] # None =>
         /\ pc'[b] = "done" /\ call'[b].op = "bet" /\ bets'[b] \in Bet
         /\ bets'[b].result # None => results'[bets'[b].result] # None
  <2> TAKE b \in Req
  <2> HAVE bets'[b] # None
  <2>1. bets[b] # None
    BY <1>2, <1>4
  <2>2. pc'[b] = "done" /\ call'[b].op = "bet"
    BY <1>1, <1>9, <2>1 DEF Typed, BookOK
  <2>3. CASE b \in B
    BY <1>6, <1>8, <2>2, <2>3
  <2>4. CASE b \notin B
    <3>0. bets'[b] = bets[b]
      BY <1>2, <2>4
    <3>1. bets'[b] = bets[b] /\ bets[b] \in Bet
      BY <2>1, <3>0 DEF Typed, BookOK
    <3>2. bets[b].result # None => bets[b].result \in Req /\ results[bets[b].result] # None
      BY <2>1, <3>1 DEF Typed, BookOK, Bet
    <3>3. bets[b].result # None => results'[bets[b].result] # None
      BY <1>8, <3>2
    <3> QED BY <2>2, <3>1, <3>3
  <2> QED BY <2>3, <2>4
<1>12. \A x \in Req : results'[x] # None =>
         pc'[x] = "done" /\ call'[x].op = "declare" /\ results'[x] \in Result
  BY <1>1, <1>2, <1>8, <1>9, <1>10 DEF Typed, BookOK
<1>13. balance' \in [User -> Int] /\ DOMAIN bets' = Req /\ DOMAIN results' = Req
  BY <1>2 DEF Typed, BookOK, Won
<1>14. BookOK'
  BY <1>11, <1>12, <1>13 DEF BookOK
<1>15. \A b \in Req : bets[b] # None =>
       /\ bets'[b] # None /\ bets'[b].user = bets[b].user /\ bets'[b].game = bets[b].game
       /\ bets[b].result # None => bets'[b].result # None
  BY <1>2, <1>4, <1>5, <1>6, <1>7
<1> QED BY <1>2, <1>3, <1>8, <1>14, <1>15 DEF CommitKeeps

\* What reverseCredit takes back is a natural number.
LEMMA ReversedTyped ==
  ASSUME Typed, NEW r \in Req, NEW u \in User
  PROVE  LET F == {t \in tx[r].found : t.user = u} IN
         /\ IsFiniteSet(F) /\ F \subseteq Entry /\ \A t \in F : t.type = "credit"
         /\ Reversed(r, u) = SumFunctionOnSet(Gross, F) /\ Reversed(r, u) \in Nat
<1> DEFINE F == {t \in tx[r].found : t.user = u}
<1>1. F \subseteq tx[r].found /\ tx[r].found \subseteq Entry /\ IsFiniteSet(tx[r].found)
      /\ \A t \in tx[r].found : t.type = "credit"
  BY DEF Typed, TxOK, Reads
<1>2. Reversed(r, u) = MapThenSumSet(LAMBDA t : t.amount, F)
  BY DEF Reversed
<1> HIDE DEF F
<1>3. IsFiniteSet(F) /\ F \subseteq Entry /\ \A t \in F : t.type = "credit"
  BY <1>1, FS_Subset
<1>4. \A t \in F : Gross[t] = t.amount /\ Gross[t] \in Nat
  BY <1>3 DEF Gross, Entry
<1>5. MapThenSumSet(LAMBDA t : t.amount, F) = SumFunctionOnSet(Gross, F)
  BY <1>4, AmountsOver
<1>6. SumFunctionOnSet(Gross, F) \in Nat
  BY <1>3, <1>4, SumNat
<1> QED BY <1>2, <1>3, <1>5, <1>6 DEF F

\* What a correction commits: a result of the same game is saved over the
\* old one, the credits found are marked deleted, and new ones added.
LEMMA CorrectFacts ==
  ASSUME Typed, NEW r \in Req, Commit(r), CommitCorrect(r, call[r])
  PROVE  \E x \in Req, res \in Result :
           /\ x = call[r].ref /\ results[x] # None /\ res = Saved(r)
           /\ res.game = results[x].game
           /\ tx[r].loaded = results[x] => res.winners = tx[r].won
           /\ results' = [results EXCEPT ![x] = res]
           /\ bets' = bets /\ tx[r].won \in Won
           /\ balance' = [u \in User |-> balance[u] - Reversed(r, u) + tx[r].won[u].amount]
           /\ ledger' = SoftDeleted(r) \cup CreditRows(r, x, tx[r].won)
<1> DEFINE c == call[r]
           x == c.ref
           res == Saved(r)
           won == tx[r].won
           old == tx[r].loaded
<1>1. pc[r] = "commit" /\ c.op = "correct"
  BY DEF Commit, CommitCorrect
<1>2. x \in Req /\ c.number \in Number
  BY <1>1, CallTypes DEF Typed, RequestsOK
<1>3. results[x] # None
  BY <1>1 DEF Typed, TxOK, InFlight
<1>4. results[x] \in Result
  BY <1>2, <1>3 DEF Typed, BookOK
<1>5. won \in Won
  BY DEF Typed, TxOK, Reads
<1> DEFINE n == IF old.number = c.number THEN results[x].number ELSE c.number
           w == IF old.winners = won THEN results[x].winners ELSE won
<1> DEFINE W == [User -> [amount : Nat, bets : SUBSET Req]]
<1>6. n \in Number /\ w \in W /\ (old = results[x] => w = won)
  <2>1. results[x].number \in Number /\ results[x].winners \in W /\ won \in W
    BY <1>4, <1>5 DEF Result, Won
  <2> HIDE DEF W, x, won, old
  <2> QED BY <1>2, <2>1
<1>7. res = [results[x] EXCEPT !.number = n, !.winners = w]
  BY DEF Saved
<1> QED BY <1>2, <1>3, <1>4, <1>5, <1>6, <1>7 DEF CommitCorrect, Result, Won

\* Marking rows deleted changes no more of them, and leaves all but credits alone.
LEMMA MarkedKept ==
  ASSUME LedgerOK, TxOK, NEW r \in Req
  PROVE  Kept(SoftDeleted(r)) /\ \A t \in ledger : t.type # "credit" => t \in SoftDeleted(r)
<1> DEFINE found == tx[r].found
           mark(t) == [t EXCEPT !.deleted = @ \/ t \in found]
<1>0. \A t \in found : t.type = "credit"
  BY DEF TxOK
<1>1. ASSUME NEW t \in ledger
      PROVE  /\ mark(t) \in Entry /\ mark(t).by = t.by /\ mark(t).type = t.type
             /\ mark(t).deleted => mark(t).type = "credit"
             /\ t.type # "credit" => mark(t) = t
  <2> HIDE DEF found
  <2>1. t \in Entry /\ (t.deleted => t.type = "credit")
    BY DEF LedgerOK
  <2>2. /\ mark(t) \in Entry /\ mark(t).by = t.by /\ mark(t).type = t.type
        /\ mark(t).deleted = (t.deleted \/ t \in found)
    BY <2>1 DEF Entry
  <2>3. t.type # "credit" => mark(t) = t
    BY <1>0, <2>1 DEF Entry
  <2> HIDE DEF mark
  <2> QED BY <1>0, <2>1, <2>2, <2>3
<1>2. SoftDeleted(r) = {mark(t) : t \in ledger}
  BY DEF SoftDeleted
<1> DEFINE marked == [t \in ledger |-> mark(t)]
<1>3. SoftDeleted(r) = {marked[t] : t \in ledger}
  BY <1>2
<1>4. IsFiniteSet(ledger)
  BY DEF LedgerOK
<1> HIDE DEF mark, marked
<1>5. IsFiniteSet({marked[t] : t \in ledger})
  BY <1>4, Image
<1>6. \A t \in SoftDeleted(r) :
        /\ t \in Entry /\ (t.deleted => t.type = "credit")
        /\ \E s \in ledger : t.by = s.by /\ t.type = s.type /\ (s.type # "credit" => t = s)
  BY <1>1, <1>2
<1>7. \A t \in ledger : t.type # "credit" => t \in SoftDeleted(r)
  BY <1>1, <1>2
<1> QED BY <1>3, <1>5, <1>6, <1>7 DEF Kept

\* A correction keeps the book and the ledger.
LEMMA CorrectKeeps ==
  ASSUME Typed, NEW r \in Req, Commit(r), CommitCorrect(r, call[r])
  PROVE  CommitKeeps
<1>1. /\ pc[r] = "commit" /\ pc' = [pc EXCEPT ![r] = "done"] /\ call' = call
      /\ call[r].op = "correct"
  BY DEF Commit, Goto, CommitCorrect
<1> DEFINE won == tx[r].won
<1>2. PICK x \in Req, res \in Result :
           /\ results[x] # None /\ res.game = results[x].game
           /\ results' = [results EXCEPT ![x] = res]
           /\ bets' = bets /\ won \in Won
           /\ balance' = [u \in User |-> balance[u] - Reversed(r, u) + won[u].amount]
           /\ ledger' = SoftDeleted(r) \cup CreditRows(r, x, won)
  BY CorrectFacts
<1> HIDE DEF won
<1>3. LedgerOK' /\ \A t \in ledger : t.type # "credit" => t \in ledger'
  <2>1. Kept(SoftDeleted(r)) /\ \A t \in ledger : t.type # "credit" => t \in SoftDeleted(r)
    BY MarkedKept DEF Typed
  <2>2. Added(CreditRows(r, x, won), r)
    BY <1>1, <1>2, CreditRowsAdded
  <2>3. LedgerOK'
    BY <1>1, <1>2, <2>1, <2>2, LedgerGrows DEF Typed
  <2> QED BY <1>2, <2>1, <2>3
<1>5. None \notin Result
  BY ReportsAssumption
<1>6. (\A y \in Req : y # x => results'[y] = results[y]) /\ results'[x] = res
  BY <1>2 DEF Typed, BookOK
<1>8. \A y \in Req : results[y] # None => results'[y] # None /\ results'[y].game = results[y].game
  BY <1>2, <1>5, <1>6
<1>9. \A b \in Req : pc[b] = "done" => pc'[b] = "done"
  BY <1>1 DEF Typed, RequestsOK
<1>10. \A b \in Req : bets'[b] # None =>
         /\ pc'[b] = "done" /\ call'[b].op = "bet" /\ bets'[b] \in Bet
         /\ bets'[b].result # None => results'[bets'[b].result] # None
  <2> TAKE b \in Req
  <2> HAVE bets'[b] # None
  <2>1. /\ bets'[b] = bets[b] /\ pc[b] = "done" /\ call[b].op = "bet" /\ bets[b] \in Bet
        /\ bets[b].result # None => results[bets[b].result] # None
    BY <1>2 DEF Typed, BookOK
  <2>2. bets[b].result # None => bets[b].result \in Req
    BY <2>1 DEF Bet
  <2> QED BY <1>1, <1>8, <1>9, <2>1, <2>2
<1>11. \A y \in Req : results'[y] # None =>
         pc'[y] = "done" /\ call'[y].op = "declare" /\ results'[y] \in Result
  <2> TAKE y \in Req
  <2> HAVE results'[y] # None
  <2>1. results[y] # None
    BY <1>2, <1>6
  <2>2. pc[y] = "done" /\ call[y].op = "declare" /\ results[y] \in Result
    BY <2>1 DEF Typed, BookOK
  <2> QED BY <1>1, <1>6, <1>9, <2>2
<1>12. balance' \in [User -> Int] /\ DOMAIN bets' = Req /\ DOMAIN results' = Req
  <2>1. \A u \in User : Reversed(r, u) \in Nat /\ won[u].amount \in Nat
    BY <1>2, ReversedTyped DEF Won
  <2> QED BY <1>2, <2>1 DEF Typed, BookOK
<1>13. BookOK'
  BY <1>10, <1>11, <1>12 DEF BookOK
<1> QED BY <1>2, <1>3, <1>8, <1>13 DEF CommitKeeps

\* Every commit keeps the book and the ledger.
LEMMA CommitAll == ASSUME Typed, NEW r \in Req, Commit(r) PROVE CommitKeeps
<1>1. \/ CommitTopUp(r, call[r]) \/ CommitWithdraw(r, call[r]) \/ CommitBet(r, call[r])
      \/ CommitDeclare(r, call[r]) \/ CommitCorrect(r, call[r])
  BY DEF Commit
<1> QED BY <1>1, TopUpKeeps, WithdrawKeeps, BetKeeps, DeclareKeeps, CorrectKeeps

\* The records are typed in every state.
LEMMA TypedInit == RInit => Typed
<1> SUFFICES ASSUME RInit PROVE Typed
  OBVIOUS
<1>1. \A u \in User : Opening[u] = None \/ Opening[u] \in Nat
  BY ReportsAssumption
<1>2. Standing \in [Req -> {None}]
  BY ReportsAssumption
<1>3. BookOK
  BY <1>1, <1>2 DEF RInit, Init, BookOK
<1>4. LedgerOK
  BY FS_EmptySet DEF RInit, LedgerOK
<1>5. TxOK
  <2>1. NoWinners \in Won
    <3>1. {u \in User : NoWinners[u].amount > 0} = {}
      BY DEF NoWinners
    <3> QED BY <3>1, FS_EmptySet DEF Won, NoWinners
  <2>2. NoTx \in Reads /\ NoTx.pending = {} /\ NoTx.found = {}
    BY <2>1 DEF NoTx, Reads
  <2> QED BY <2>2, FS_EmptySet DEF RInit, TxOK, InFlight
<1> QED BY <1>3, <1>4, <1>5, RequestsInit DEF Typed

\* The steps that are no commits, seen from the records.
LEMMA Elsewhere ==
  ASSUME Typed, [RNext]_vars, ~\E r \in Req : Commit(r)
  PROVE  /\ UNCHANGED <<store, ledger>>
         /\ \A r \in Req : pc[r] = "done" => pc'[r] = "done" /\ call'[r] = call[r]
<1>1. CASE UNCHANGED vars
  BY <1>1 DEF vars
<1>2. ASSUME NEW r \in Req,
             \/ Start(r) \/ FindBets(r) \/ FindCredits(r) \/ Rescore(r) \/ Fail(r)
             \/ Ask(r) \/ Reject(r) \/ ReadPage(r) \/ Count(r)
             \/ ReadNumbers(r) \/ Show(r)
      PROVE  /\ UNCHANGED <<store, ledger>>
             /\ \A o \in Req : pc[o] = "done" => pc'[o] = "done" /\ call'[o] = call[o]
  <2>1. /\ UNCHANGED <<store, ledger>>
        /\ pc[r] # "done" /\ (\A o \in Req : o # r => call'[o] = call[o])
        /\ \E s : pc' = [pc EXCEPT ![r] = s]
    BY <1>2 DEF Start, FindBets, FindCredits, Rescore, Fail, InFlight,
                Ask, Reject, ReadPage, Count, ReadNumbers, Show, Goto, Typed, RequestsOK
  <2> QED BY <2>1 DEF Typed, RequestsOK
<1> QED BY <1>1, <1>2 DEF RNext

\* What a settlement has found stays there until its commit.
LEMMA TxNext ==
  ASSUME Typed, [RNext]_vars PROVE TxOK'
<1> DEFINE Found(o) ==
      /\ o \in Reads /\ \A b \in o.pending : bets'[b] # None
      /\ IsFiniteSet(o.found) /\ \A t \in o.found : t.type = "credit" /\ ~t.deleted
<1>1. (\A b \in Req : bets[b] # None => bets'[b] # None)
      /\ \A x \in Req : results[x] # None => results'[x] # None
  <2>1. CASE \E r \in Req : Commit(r)
    BY <2>1, CommitAll DEF CommitKeeps
  <2>2. CASE ~\E r \in Req : Commit(r)
    BY <2>2, Elsewhere DEF store
  <2> QED BY <2>1, <2>2
<1>2. ASSUME NEW r \in Req PROVE Found(tx[r])
  BY <1>1 DEF Typed, TxOK, Reads
<1>3. ASSUME NEW r \in Req PROVE Found(NoTx)
  <2>1. NoWinners \in Won
    <3>1. {u \in User : NoWinners[u].amount > 0} = {}
      BY DEF NoWinners
    <3> QED BY <3>1, FS_EmptySet DEF Won, NoWinners
  <2> QED BY <2>1, FS_EmptySet DEF NoTx, Reads
<1>4. ASSUME NEW r \in Req, InFlight(r), call[r].op = "correct" PROVE call[r].ref \in Req /\ results'[call[r].ref] # None
  <2>1. call[r] \in CallSet
    BY <1>4 DEF Typed, RequestsOK, InFlight
  <2>2. call[r].ref \in Req
    BY <1>4, <2>1, CallTypes
  <2> QED BY <1>1, <1>4, <2>2 DEF Typed, TxOK
<1>5. ASSUME NEW r \in Req, NEW o, Found(o), tx' = [tx EXCEPT ![r] = o]
      PROVE  tx' \in [Req -> Reads] /\ \A s \in Req : Found(tx'[s])
  <2>1. tx \in [Req -> Reads] /\ o \in Reads
    BY <1>5 DEF Typed, TxOK
  <2>2. \A s \in Req : tx'[s] = IF s = r THEN o ELSE tx[s]
    BY <1>5, <2>1
  <2> HIDE DEF Found
  <2> QED BY <1>2, <1>5, <2>1, <2>2
<1>6. ASSUME tx' = tx
      PROVE  tx' \in [Req -> Reads] /\ \A s \in Req : Found(tx'[s])
  <2>1. tx \in [Req -> Reads]
    BY DEF Typed, TxOK
  <2> HIDE DEF Found
  <2> QED BY <1>2, <1>6, <2>1
<1>7. ASSUME \A r \in Req : (InFlight(r)' /\ call'[r].op = "correct")
                               => (InFlight(r) /\ call[r].op = "correct" /\ call'[r] = call[r])
      PROVE  \A r \in Req : InFlight(r)' /\ call'[r].op = "correct" => results'[call'[r].ref] # None
  BY <1>4, <1>7
<1> HIDE DEF Found
<1>10. CASE UNCHANGED vars
  <2>1. tx' = tx /\ pc' = pc /\ call' = call
    BY <1>10 DEF vars
  <2>2. \A r \in Req : InFlight(r)' => InFlight(r) /\ call'[r] = call[r]
    BY <2>1 DEF InFlight
  <2>3. \A r \in Req : InFlight(r)' /\ call'[r].op = "correct" => results'[call'[r].ref] # None
    BY <1>7, <2>2
  <2> QED BY <1>6, <2>1, <2>3 DEF TxOK, Found
<1>11. ASSUME NEW r \in Req, Start(r) PROVE TxOK'
  <2>1. PICK c \in Calls[r] :
          /\ call' = [call EXCEPT ![r] = c] /\ pc' = [pc EXCEPT ![r] = FirstStep(c)]
          /\ c.op = "correct" => results[c.ref] # None
    BY <1>11 DEF Start, Goto, Editable
  <2>2. tx' = tx /\ results' = results
    BY <1>11 DEF Start, store
  <2>3. \A s \in Req : /\ s # r => call'[s] = call[s] /\ pc'[s] = pc[s]
                       /\ s = r => call'[s] = c
    BY <2>1 DEF Typed, RequestsOK
  <2>4. \A s \in Req : InFlight(s)' /\ call'[s].op = "correct" => results'[call'[s].ref] # None
    BY <1>4, <2>1, <2>2, <2>3 DEF InFlight
  <2> QED BY <1>6, <2>2, <2>4 DEF TxOK, Found
<1>12. ASSUME NEW r \in Req, NEW o, Found(o), tx' = [tx EXCEPT ![r] = o], call' = call,
              InFlight(r), \E s : pc' = [pc EXCEPT ![r] = s]
       PROVE  TxOK'
  <2>1. \A s \in Req : InFlight(s)' => InFlight(s)
    BY <1>12 DEF Typed, RequestsOK, InFlight
  <2> QED BY <1>5, <1>7, <1>12, <2>1 DEF TxOK, Found
<1>13. ASSUME NEW r \in Req, FindBets(r) PROVE TxOK'
  <2> DEFINE o == [tx[r] EXCEPT !.pending = Pending(call[r].game)]
  <2>1. /\ tx' = [tx EXCEPT ![r] = o] /\ call' = call /\ InFlight(r)
        /\ \E s : pc' = [pc EXCEPT ![r] = s]
    BY <1>13 DEF FindBets, Goto, InFlight
  <2>2. tx[r] \in Reads
    BY DEF Typed, TxOK
  <2>3. Pending(call[r].game) \subseteq Req /\ \A b \in Pending(call[r].game) : bets'[b] # None
    BY <1>1 DEF Pending
  <2>4. Found(o)
    BY <1>2, <2>2, <2>3 DEF Found, Reads
  <2> HIDE DEF o
  <2> QED BY <1>12, <2>1, <2>4
<1>14. ASSUME NEW r \in Req, FindCredits(r) PROVE TxOK'
  <2> DEFINE F == {t \in ledger : t.type = "credit" /\ t.ref = call[r].ref /\ ~t.deleted}
             o == [tx[r] EXCEPT !.found = F]
  <2>1. /\ tx' = [tx EXCEPT ![r] = o] /\ call' = call /\ InFlight(r)
        /\ \E s : pc' = [pc EXCEPT ![r] = s]
    BY <1>14 DEF FindCredits, Goto, InFlight
  <2>2. tx[r] \in Reads
    BY DEF Typed, TxOK
  <2>3. F \subseteq ledger /\ \A t \in F : t.type = "credit" /\ ~t.deleted
    OBVIOUS
  <2>4. IsFiniteSet(F) /\ F \subseteq Entry
    BY <2>3, FS_Subset DEF Typed, LedgerOK
  <2> HIDE DEF F
  <2>5. Found(o)
    BY <1>2, <2>2, <2>3, <2>4 DEF Found, Reads
  <2> HIDE DEF o
  <2> QED BY <1>12, <2>1, <2>5
<1>15. ASSUME NEW r \in Req, Rescore(r) PROVE TxOK'
  <2> DEFINE x == call[r].ref
             won == Winners(Stakes(Linked(x)), call[r].number)
             o == [tx[r] EXCEPT !.won = won, !.loaded = results[x]]
  <2>1. /\ tx' = [tx EXCEPT ![r].won = won, ![r].loaded = results[x]] /\ call' = call /\ InFlight(r)
        /\ call[r].op = "correct" /\ \E s : pc' = [pc EXCEPT ![r] = s]
    BY <1>15 DEF Rescore, Goto, InFlight, Typed, RequestsOK
  <2>2. tx[r] \in Reads /\ tx \in [Req -> Reads]
    BY DEF Typed, TxOK
  <2>3. x \in Req /\ call[r].number \in Number
    BY <2>1, CallTypes DEF Typed, RequestsOK, InFlight
  <2>4. Linked(x) \subseteq Req /\ \A b \in Linked(x) : bets[b] # None
    BY DEF Linked
  <2>5. won \in Won
    BY <2>3, <2>4, WinnersTyped DEF Typed
  <2>6. results[x] \in Result \cup {None}
    BY <2>3 DEF Typed, BookOK
  <2> HIDE DEF won
  <2>7. tx' = [tx EXCEPT ![r] = o]
    BY <2>1, <2>2
  <2>8. Found(o)
    BY <1>2, <2>2, <2>5, <2>6 DEF Found, Reads
  <2> HIDE DEF o
  <2> QED BY <1>12, <2>1, <2>7, <2>8
<1>16. ASSUME NEW r \in Req, Commit(r) \/ Fail(r) PROVE TxOK'
  <2>1. /\ tx' = [tx EXCEPT ![r] = NoTx] /\ call' = call /\ InFlight(r)
        /\ \E s : pc' = [pc EXCEPT ![r] = s]
    BY <1>16 DEF Commit, Fail, Goto, InFlight
  <2> QED BY <1>3, <1>12, <2>1
<1>17. ASSUME NEW r \in Req, Ask(r) \/ Reject(r) \/ ReadPage(r) \/ Count(r) \/ ReadNumbers(r) \/ Show(r)
       PROVE  TxOK'
  <2>1. tx' = tx /\ (\A s \in Req : s # r => call'[s] = call[s] /\ pc'[s] = pc[s]) /\ ~InFlight(r)'
    BY <1>17 DEF Ask, Reject, ReadPage, Count, ReadNumbers, Show, Goto, AfterCount, Typed, RequestsOK, InFlight
  <2>2. \A s \in Req : InFlight(s)' => InFlight(s) /\ call'[s] = call[s]
    BY <2>1 DEF InFlight
  <2> QED BY <1>6, <1>7, <2>1, <2>2 DEF TxOK, Found
<1> QED BY <1>10, <1>11, <1>13, <1>14, <1>15, <1>16, <1>17 DEF RNext

\* Every step keeps the requests, the book and the ledger.
LEMMA TypedNext == Typed /\ [RNext]_vars => Typed'
<1> SUFFICES ASSUME Typed, [RNext]_vars PROVE Typed'
  OBVIOUS
<1>1. CASE \E r \in Req : Commit(r)
  BY <1>1, CommitAll, RequestsNext, TxNext DEF CommitKeeps, Typed
<1>2. CASE ~\E r \in Req : Commit(r)
  <2>1. /\ balance' = balance /\ bets' = bets /\ results' = results /\ ledger' = ledger
        /\ \A r \in Req : pc[r] = "done" => pc'[r] = "done" /\ call'[r] = call[r]
    BY <1>2, Elsewhere DEF store
  <2>2. BookOK'
    BY <2>1 DEF Typed, BookOK
  <2>3. LedgerOK'
    <3>1. \A t \in ledger : t.by \in Req
      BY DEF Typed, LedgerOK, Entry
    <3> QED BY <2>1, <3>1 DEF Typed, LedgerOK
  <2> QED BY <2>2, <2>3, RequestsNext, TxNext DEF Typed
<1> QED BY <1>1, <1>2

\* The requests, the book and the ledger are always as they should be.
LEMMA TypedInvariance == RSpec => []Typed
<1> QED BY TypedInit, TypedNext, PTL DEF RSpec

-----------------------------------------------------------------------------
(* What the clients hold *)

Reading(q) == pc[q] # "idle" /\ call[q].op = "list"

RowId == [by : Req, user : User \cup {None}]
Link  == [bet : Req, result : Req \cup {None}]
View  == [page : Nat \ {0}, items : SUBSET RowId, links : SUBSET Link, total : Nat,
          seen : SUBSET RowId, first : SUBSET RowId, numbers : [Req -> Number \cup {None}]]

\* A listing is a finite set of ids.
LEMMA SelectedTyped ==
  ASSUME Typed, NEW c, c.list \in {"transactions", "bets", "results", "withdrawals"}
  PROVE  /\ IsFiniteSet(Selected(c)) /\ Selected(c) \subseteq RowId
         /\ c.list = "bets" => \A i \in Selected(c) : bets[i.by] # None
<1>1. ASSUME NEW R, R \subseteq ledger
      PROVE  LET S == {Id(t.by, t.user) : t \in R} IN IsFiniteSet(S) /\ S \subseteq RowId
  <2> DEFINE name == [t \in R |-> Id(t.by, t.user)]
             S == {Id(t.by, t.user) : t \in R}
  <2>1. IsFiniteSet(R)
    BY <1>1, FS_Subset DEF Typed, LedgerOK
  <2>2. S = {name[t] : t \in R}
    OBVIOUS
  <2>3. S \subseteq RowId
    BY <1>1 DEF Typed, LedgerOK, Entry, Id, RowId
  <2> HIDE DEF name, S
  <2>4. IsFiniteSet({name[t] : t \in R})
    BY <2>1, Image
  <2> QED BY <2>2, <2>3, <2>4 DEF S
<1>2. ASSUME NEW B, B \subseteq Req, NEW user, \A b \in B : user[b] \in User \cup {None}
      PROVE  LET S == {Id(b, user[b]) : b \in B} IN IsFiniteSet(S) /\ S \subseteq RowId
  <2> DEFINE name == [b \in B |-> Id(b, user[b])]
             S == {Id(b, user[b]) : b \in B}
  <2>1. IsFiniteSet(B)
    BY <1>2, ReportsAssumption, FS_Subset
  <2>2. S = {name[b] : b \in B}
    OBVIOUS
  <2>3. S \subseteq RowId
    BY <1>2 DEF Id, RowId
  <2> HIDE DEF name, S
  <2>4. IsFiniteSet({name[b] : b \in B})
    BY <2>1, Image
  <2> QED BY <2>2, <2>3, <2>4 DEF S
<1>3. CASE c.list = "transactions"
  <2>1. Transactions(c) \subseteq ledger
    BY DEF Transactions
  <2>2. Selected(c) = {Id(t.by, t.user) : t \in Transactions(c)}
    BY <1>3 DEF Selected
  <2> QED BY <1>1, <1>3, <2>1, <2>2
<1>4. CASE c.list = "withdrawals"
  <2>1. Withdrawals(c) \subseteq ledger
    BY DEF Withdrawals
  <2>2. Selected(c) = {Id(t.by, t.user) : t \in Withdrawals(c)}
    BY <1>4 DEF Selected
  <2> QED BY <1>1, <1>4, <2>1, <2>2
<1>5. CASE c.list = "bets"
  <2> DEFINE user == [b \in Req |-> bets[b].user]
  <2>1. Bets(c) \subseteq Req /\ \A b \in Bets(c) : bets[b] # None
    BY DEF Bets
  <2>2. Selected(c) = {Id(b, bets[b].user) : b \in Bets(c)}
    BY <1>5 DEF Selected
  <2>3. \A b \in Bets(c) : user[b] = bets[b].user /\ user[b] \in User
    BY <2>1 DEF Typed, BookOK, Bet
  <2>4. Selected(c) = {Id(b, user[b]) : b \in Bets(c)}
    BY <2>2, <2>3
  <2>5. \A i \in Selected(c) : bets[i.by] # None
    BY <2>1, <2>2 DEF Id
  <2> HIDE DEF user
  <2>6. Bets(c) \subseteq Req /\ \A b \in Bets(c) : user[b] \in User \cup {None}
    BY <2>1, <2>3
  <2>7. IsFiniteSet(Selected(c)) /\ Selected(c) \subseteq RowId
    BY <1>2, <2>4, <2>6
  <2> QED BY <2>5, <2>7
<1>6. CASE c.list = "results"
  <2> DEFINE user == [x \in Req |-> None]
  <2>1. Results(c) \subseteq Req
    BY DEF Results
  <2>2. Selected(c) = {Id(x, None) : x \in Results(c)}
    BY <1>6 DEF Selected
  <2>3. Selected(c) = {Id(x, user[x]) : x \in Results(c)} /\ \A x \in Results(c) : user[x] = None
    BY <2>1, <2>2
  <2> HIDE DEF user
  <2> QED BY <1>2, <1>6, <2>1, <2>3
<1> QED BY <1>3, <1>4, <1>5, <1>6

\* A window holds rows of its listing, finitely many.
LEMMA WindowTyped ==
  ASSUME NEW S, IsFiniteSet(S), NEW skip, NEW take, NEW I \in Windows(S, skip, take)
  PROVE  I \subseteq S /\ IsFiniteSet(I) /\ Cardinality(I) \in Nat
BY FS_Subset, FS_CardinalityType DEF Windows

\* What a client holds is in the book: a number it has been shown is that of
\* a settled bet, and the results of the bets it has read exist.
Held(q) ==
  /\ \A b \in Req : view[q].numbers[b] # None => bets[b] # None /\ bets[b].result # None
  /\ \A l \in view[q].links :
       /\ bets[l.bet] # None
       /\ l.result # None => results[l.result] # None /\ bets[l.bet].result # None
       /\ view[q].numbers[l.bet] # None => l.result # None
  /\ \A l, m \in view[q].links : l.bet = m.bet => l = m

ViewsOK == \A q \in Req : Reading(q) => view[q] \in View /\ Held(q)

\* A page and a limit, and what is skipped before the page.
LEMMA SkipTyped ==
  ASSUME NEW page \in Nat \ {0}, NEW limit \in Limit
  PROVE  /\ limit \in Nat \ {0} /\ Skip(page, limit) \in Nat
         /\ Skip(page, limit) + limit = page * limit
         /\ Skip(1, limit) = 0 /\ Skip(page + 1, limit) = page * limit
BY DEF Skip, Limit

\* What a page holds once it is read.
LEMMA ReadPageFacts ==
  ASSUME Typed, ViewsOK, NEW q \in Req, ReadPage(q)
  PROVE  \E I \in Windows(Selected(call[q]), Skip(view[q].page, call[q].limit), call[q].limit) :
           /\ view'[q] \in View /\ view'[q].items = I
           /\ view'[q].total = Skip(view[q].page, call[q].limit) + Cardinality(I)
           /\ view'[q].links = {[bet |-> i.by, result |-> bets[i.by].result] : i \in
                                  {i \in I : call[q].list = "bets"}}
           /\ view'[q].page = view[q].page /\ view'[q].seen = view[q].seen
           /\ view'[q].first = view[q].first /\ view'[q].numbers = view[q].numbers
           /\ pc' = [pc EXCEPT ![q] = IF \/ Cardinality(I) = call[q].limit
                                         \/ I = {} /\ Skip(view[q].page, call[q].limit) > 0
                                        THEN "count" ELSE AfterCount(q)]
<1> DEFINE c == call[q]  v == view[q]  skip == Skip(view[q].page, call[q].limit)
           LinksOf(I) == {[bet |-> i.by, result |-> bets[i.by].result] : i \in
                                  {i \in I : call[q].list = "bets"}}
<1>1. pc[q] = "page" /\ c.op = "list" /\ c \in CallSet
  BY DEF ReadPage, Typed, RequestsOK, Paging
<1>2. c.limit \in Limit /\ c.list \in {"transactions", "bets", "results", "withdrawals"}
  BY <1>1, CallTypes
<1>3. v \in View /\ DOMAIN view = Req
  BY <1>1 DEF ViewsOK, Reading, Typed, RequestsOK
<1>4. PICK I \in Windows(Selected(c), skip, c.limit) :
         /\ view' = [view EXCEPT ![q].items = I, ![q].total = skip + Cardinality(I),
                                 ![q].links = LinksOf(I)]
         /\ pc' = [pc EXCEPT ![q] = IF \/ Cardinality(I) = c.limit \/ (I = {} /\ skip > 0)
                                      THEN "count" ELSE AfterCount(q)]
  BY DEF ReadPage, Goto
<1>5. view'[q] = [v EXCEPT !.items = I, !.total = skip + Cardinality(I), !.links = LinksOf(I)]
  BY <1>3, <1>4
<1>6. v.page \in Nat \ {0}
  BY <1>3 DEF View
<1>7. skip \in Nat
  BY <1>2, <1>6, SkipTyped
<1>8. /\ IsFiniteSet(Selected(c)) /\ Selected(c) \subseteq RowId
      /\ c.list = "bets" => \A i \in Selected(c) : bets[i.by] # None
  BY <1>2, SelectedTyped
<1>9. I \subseteq RowId /\ I \subseteq Selected(c) /\ Cardinality(I) \in Nat
  BY <1>8, WindowTyped
<1>10. LinksOf(I) \subseteq Link
  <2> SUFFICES ASSUME NEW i \in I, c.list = "bets"
               PROVE  [bet |-> i.by, result |-> bets[i.by].result] \in Link
    OBVIOUS
  <2>1. i.by \in Req /\ bets[i.by] # None
    BY <1>8, <1>9 DEF RowId
  <2>2. bets[i.by].result \in Req \cup {None}
    BY <2>1 DEF Typed, BookOK, Bet
  <2> QED BY <2>1, <2>2 DEF Link
<1> HIDE DEF c, v, skip, LinksOf
<1>11. /\ view'[q].items = I /\ view'[q].total = skip + Cardinality(I)
       /\ view'[q].links = LinksOf(I) /\ view'[q].page = v.page /\ view'[q].seen = v.seen
       /\ view'[q].first = v.first /\ view'[q].numbers = v.numbers
  BY <1>3, <1>5 DEF View
<1>12. view'[q] \in View
  <2> DEFINE n == skip + Cardinality(I)
             links == LinksOf(I)
  <2>1. n \in Nat /\ links \subseteq Link
    BY <1>7, <1>9, <1>10
  <2>2. view'[q] = [v EXCEPT !.items = I, !.total = n, !.links = links]
    BY <1>5
  <2> HIDE DEF n, links
  <2> QED BY <1>3, <1>9, <2>1, <2>2 DEF View
<1> QED BY <1>4, <1>11, <1>12 DEF c, v, skip, LinksOf

\* What a client holds when it has asked for a listing.
LEMMA AskFacts ==
  ASSUME Typed, NEW q \in Req, Ask(q)
  PROVE  /\ call'[q].op = "list" /\ call'[q] \in CallSet
         /\ view'[q] \in View /\ view'[q].page = 1 /\ view'[q].links = {} /\ view'[q].seen = {}
         /\ view'[q].first =
              IF Parsed(call'[q]) \/ ~Sent(call'[q]) THEN Selected(call'[q]) ELSE {}
         /\ view'[q].numbers = [b \in Req |-> None]
         /\ pc' = [pc EXCEPT ![q] = "page"]
<1>1. PICK c \in Calls[q] :
       /\ c.op = "list" /\ call' = [call EXCEPT ![q] = c]
       /\ view' = [view EXCEPT ![q] =
            [page |-> 1, items |-> {}, links |-> {}, total |-> 0, seen |-> {},
             first |-> IF Parsed(c) \/ ~Sent(c) THEN Selected(c) ELSE {},
             numbers |-> [b \in Req |-> None]]]
  BY DEF Ask
<1>2. c \in CallSet
  BY ReportsAssumption
<1>3. c.list \in {"transactions", "bets", "results", "withdrawals"}
  BY <1>1, <1>2, CallTypes
<1>4. Selected(c) \subseteq RowId
  BY <1>3, SelectedTyped
<1> HIDE DEF CallSet
<1>5. call'[q] = c /\ view'[q] =
            [page |-> 1, items |-> {}, links |-> {}, total |-> 0, seen |-> {},
             first |-> IF Parsed(c) \/ ~Sent(c) THEN Selected(c) ELSE {},
             numbers |-> [b \in Req |-> None]]
  BY <1>1 DEF Typed, RequestsOK
<1>6. (IF Parsed(c) \/ ~Sent(c) THEN Selected(c) ELSE {}) \subseteq RowId
  BY <1>4
<1>7. view'[q] \in View
  BY <1>5, <1>6 DEF View
<1>8. pc' = [pc EXCEPT ![q] = "page"]
  BY DEF Ask, Goto
<1> QED BY <1>1, <1>2, <1>5, <1>7, <1>8

\* What the count of a page changes.
LEMMA CountFacts ==
  ASSUME Typed, ViewsOK, NEW q \in Req, Count(q)
  PROVE  /\ view'[q] \in View /\ view'[q].total = Cardinality(Selected(call[q]))
         /\ view'[q].items = view[q].items /\ view'[q].links = view[q].links
         /\ view'[q].page = view[q].page /\ view'[q].seen = view[q].seen
         /\ view'[q].first = view[q].first /\ view'[q].numbers = view[q].numbers
         /\ pc' = [pc EXCEPT ![q] = AfterCount(q)]
<1> DEFINE n == Cardinality(Selected(call[q]))
<1>1. pc[q] = "count" /\ call[q].op = "list" /\ call[q] \in CallSet
  BY DEF Count, Typed, RequestsOK, Paging
<1>2. call[q].list \in {"transactions", "bets", "results", "withdrawals"}
  BY <1>1, CallTypes
<1>3. n \in Nat
  BY <1>2, SelectedTyped, FS_CardinalityType
<1>4. view[q] \in View /\ DOMAIN view = Req
  BY <1>1 DEF ViewsOK, Reading, Typed, RequestsOK
<1>5. view' = [view EXCEPT ![q].total = n] /\ pc' = [pc EXCEPT ![q] = AfterCount(q)]
  BY DEF Count, Goto
<1> HIDE DEF n
<1> QED BY <1>3, <1>4, <1>5 DEF View, n

\* What a client holds when it has taken a page.
LEMMA ShowFacts ==
  ASSUME Typed, ViewsOK, NEW q \in Req, Show(q)
  PROVE  /\ view'[q] \in View /\ view'[q].links = {}
         /\ view'[q].page = view[q].page + 1 /\ view'[q].seen = view[q].seen \cup view[q].items
         /\ view'[q].first = view[q].first /\ view'[q].numbers = view[q].numbers
         /\ pc' = [pc EXCEPT ![q] =
                     IF view[q].page * call[q].limit < view[q].total THEN "page" ELSE "done"]
<1>1. pc[q] = "show" /\ call[q].op = "list"
  BY DEF Show, Typed, RequestsOK, Paging
<1>2. view[q] \in View /\ DOMAIN view = Req
  BY <1>1 DEF ViewsOK, Reading, Typed, RequestsOK
<1>3. view' = [view EXCEPT ![q].seen = @ \cup view[q].items, ![q].page = @ + 1, ![q].items = {},
                           ![q].links = {}, ![q].total = 0]
  BY DEF Show
<1>4. view'[q] = [view[q] EXCEPT !.seen = @ \cup view[q].items, !.page = @ + 1, !.items = {},
                                 !.links = {}, !.total = 0]
  BY <1>2, <1>3
<1>5. /\ view'[q].links = {} /\ view'[q].items = {} /\ view'[q].total = 0
      /\ view'[q].page = view[q].page + 1 /\ view'[q].seen = view[q].seen \cup view[q].items
      /\ view'[q].first = view[q].first /\ view'[q].numbers = view[q].numbers
  BY <1>2, <1>4 DEF View
<1>6. view'[q] \in View
  <2> DEFINE seen == view[q].seen \cup view[q].items
             page == view[q].page + 1
  <2>1. seen \subseteq RowId /\ page \in Nat \ {0}
    BY <1>2 DEF View
  <2> HIDE DEF seen, page
  <2> DEFINE v == [view[q] EXCEPT !.seen = seen, !.page = page]
  <2>2. v \in View
    BY <1>2, <2>1 DEF View
  <2>3. view'[q] = [v EXCEPT !.items = {}, !.links = {}, !.total = 0]
    BY <1>4 DEF seen, page
  <2> HIDE DEF v
  <2> DEFINE w == [v EXCEPT !.items = {}]
             z == [w EXCEPT !.links = {}]
  <2>4. w \in View
    BY <2>2 DEF View
  <2>5. z \in View
    <3> HIDE DEF w
    <3> QED BY <2>4 DEF View
  <2>6. view'[q] = [z EXCEPT !.total = 0]
    BY <2>3
  <2> HIDE DEF w, z
  <2> QED BY <2>5, <2>6 DEF View
<1>7. pc' = [pc EXCEPT ![q] =
               IF view[q].page * call[q].limit < view[q].total THEN "page" ELSE "done"]
  BY DEF Show, Goto
<1> QED BY <1>5, <1>6, <1>7

\* A number found for a bet of the page replaces what the client held of it.
LEMMA ReadNumbersFacts ==
  ASSUME Typed, ViewsOK, NEW q \in Req, ReadNumbers(q)
  PROVE  /\ view'[q] \in View
         /\ view'[q].items = view[q].items /\ view'[q].links = view[q].links
         /\ view'[q].page = view[q].page /\ view'[q].seen = view[q].seen
         /\ view'[q].first = view[q].first /\ view'[q].total = view[q].total
         /\ \A b \in Req :
              /\ (\A l \in view[q].links : l.bet # b) => view'[q].numbers[b] = view[q].numbers[b]
              /\ \A l \in view[q].links : l.bet = b =>
                   (view'[q].numbers[b] = None <=> l.result = None)
         /\ pc' = [pc EXCEPT ![q] = "show"]
<1> DEFINE v == view[q]
           L(b) == CHOOSE l \in v.links : l.bet = b
           num == [b \in Req |-> IF \E l \in v.links : l.bet = b
                    THEN LET l == CHOOSE l \in view[q].links : l.bet = b IN
                         IF l.result = None THEN None ELSE WinningNumber(l.result)
                    ELSE v.numbers[b]]
<1>1. pc[q] = "numbers" /\ call[q].op = "list" /\ pc' = [pc EXCEPT ![q] = "show"]
  BY DEF ReadNumbers, Goto, Typed, RequestsOK, Paging
<1>2. v \in View /\ Held(q) /\ DOMAIN view = Req
  BY <1>1 DEF ViewsOK, Reading, Typed, RequestsOK
<1>3. view' = [view EXCEPT ![q].numbers = num]
  BY DEF ReadNumbers
<1>4. view'[q] = [v EXCEPT !.numbers = num]
  BY <1>2, <1>3
<1>5. ASSUME NEW x \in Req, results[x] # None PROVE WinningNumber(x) \in Number
  BY <1>5 DEF WinningNumber, Typed, BookOK, Result
<1>6. None \notin Number
  BY ReportsAssumption
<1>7. ASSUME NEW b \in Req, NEW l \in v.links, l.bet = b
      PROVE  num[b] \in Number \cup {None} /\ (num[b] = None <=> l.result = None)
  <2>1. l = CHOOSE m \in view[q].links : m.bet = b
    BY <1>2, <1>7 DEF Held
  <2>2. num[b] = IF l.result = None THEN None ELSE WinningNumber(l.result)
    BY <1>7, <2>1
  <2>3. l.result # None => l.result \in Req /\ results[l.result] # None
    BY <1>2 DEF Held, View, Link
  <2> HIDE DEF num
  <2> QED BY <1>5, <1>6, <2>2, <2>3
<1>8. ASSUME NEW b \in Req, \A l \in v.links : l.bet # b PROVE num[b] = v.numbers[b]
  BY <1>8
<1>9. num \in [Req -> Number \cup {None}]
  <2>1. ASSUME NEW b \in Req PROVE num[b] \in Number \cup {None}
    <3>1. v.numbers[b] \in Number \cup {None}
      BY <1>2 DEF View
    <3> HIDE DEF num
    <3> QED BY <1>7, <1>8, <3>1
  <2>2. num = [b \in Req |-> num[b]]
    OBVIOUS
  <2> HIDE DEF num
  <2> QED BY <2>1, <2>2
<1> HIDE DEF num, v
<1>10. view'[q] \in View /\ view'[q].numbers = num
  BY <1>2, <1>4, <1>9 DEF View
<1>11. /\ view'[q].items = v.items /\ view'[q].links = v.links
       /\ view'[q].page = v.page /\ view'[q].seen = v.seen
       /\ view'[q].first = v.first /\ view'[q].total = v.total
  BY <1>2, <1>4 DEF View
<1>12. \A b \in Req :
         /\ (\A l \in v.links : l.bet # b) => view'[q].numbers[b] = v.numbers[b]
         /\ \A l \in v.links : l.bet = b => (view'[q].numbers[b] = None <=> l.result = None)
  BY <1>7, <1>8, <1>10
<1> QED BY <1>1, <1>10, <1>11, <1>12 DEF v

\* The steps of a client that reads leave the others' alone.
LEMMA ReaderStep ==
  ASSUME Typed, NEW q \in Req,
         Ask(q) \/ Reject(q) \/ ReadPage(q) \/ Count(q) \/ ReadNumbers(q) \/ Show(q)
  PROVE  /\ UNCHANGED <<store, ledger, clock, began>>
         /\ \A o \in Req : o # q =>
              pc'[o] = pc[o] /\ call'[o] = call[o] /\ view'[o] = view[o]
         /\ ~Ask(q) => Reading(q) /\ call' = call
<1>1. UNCHANGED <<store, ledger, clock, began>>
  BY DEF Ask, Reject, ReadPage, Count, ReadNumbers, Show
<1>2. \E s : pc' = [pc EXCEPT ![q] = s]
  BY DEF Ask, Reject, ReadPage, Count, ReadNumbers, Show, Goto
<1>3. \A o \in Req : o # q => pc'[o] = pc[o]
  BY <1>2 DEF Typed, RequestsOK
<1>4. \A o \in Req : o # q => call'[o] = call[o] /\ view'[o] = view[o]
  BY DEF Ask, Reject, ReadPage, Count, ReadNumbers, Show, Typed, RequestsOK
<1>5. ~Ask(q) => Reading(q) /\ call' = call
  BY DEF Reject, ReadPage, Count, ReadNumbers, Show, Reading, Paging, Typed, RequestsOK
<1> QED BY <1>1, <1>3, <1>4, <1>5

\* The steps of a settlement before its commit are no client's.
LEMMA SettlementStep ==
  ASSUME Typed, NEW r \in Req, FindBets(r) \/ FindCredits(r) \/ Rescore(r) \/ Fail(r)
  PROVE  /\ UNCHANGED <<store, ledger, clock, began, call, view>>
         /\ call[r].op # "list"
         /\ \A o \in Req : o # r => pc'[o] = pc[o]
<1>1. InFlight(r) /\ UNCHANGED <<store, ledger, clock, began, call, view>>
  BY DEF FindBets, FindCredits, Rescore, Fail, InFlight
<1>2. \E s : pc' = [pc EXCEPT ![r] = s]
  BY DEF FindBets, FindCredits, Rescore, Fail, Goto
<1> QED BY <1>1, <1>2 DEF Typed, RequestsOK

\* What is held in the book stays in it.
LEMMA HeldStays ==
  ASSUME Typed, NEW q \in Req, view[q] \in View, Held(q), view'[q] = view[q],
         CommitKeeps \/ UNCHANGED store
  PROVE  Held(q)'
<1>1. \A b \in Req : bets[b] # None =>
         bets'[b] # None /\ (bets[b].result # None => bets'[b].result # None)
  BY DEF CommitKeeps, store
<1>2. \A x \in Req : results[x] # None => results'[x] # None
  BY DEF CommitKeeps, store
<1>3. \A l \in view[q].links : l.bet \in Req /\ l.result \in Req \cup {None}
  BY DEF View, Link
<1> QED BY <1>1, <1>2, <1>3 DEF Held

\* At first no client holds a view.
LEMMA ViewsInit == RInit => ViewsOK
BY DEF RInit, ViewsOK, Reading

\* Every step keeps the views of the clients.
LEMMA ViewsNext == Typed /\ ViewsOK /\ [RNext]_vars => ViewsOK'
<1> SUFFICES ASSUME Typed, ViewsOK, [RNext]_vars, NEW q \in Req, Reading(q)'
             PROVE  view'[q] \in View /\ Held(q)'
  BY DEF ViewsOK
<1>1. ASSUME Reading(q), view'[q] = view[q], CommitKeeps \/ UNCHANGED store
      PROVE  view'[q] \in View /\ Held(q)'
  BY <1>1, HeldStays DEF ViewsOK
<1>2. CASE UNCHANGED vars
  BY <1>1, <1>2 DEF vars, Reading
<1>3. ASSUME NEW r \in Req, Start(r) PROVE view'[q] \in View /\ Held(q)'
  <2>1. /\ call'[r].op # "list" /\ UNCHANGED store /\ view' = view
        /\ q # r => pc'[q] = pc[q] /\ call'[q] = call[q]
    BY <1>3 DEF Start, Goto, Typed, RequestsOK
  <2> QED BY <1>1, <2>1 DEF Reading
<1>4. ASSUME NEW r \in Req, Commit(r) PROVE view'[q] \in View /\ Held(q)'
  <2>1. /\ pc[r] = "commit" /\ pc' = [pc EXCEPT ![r] = "done"] /\ call' = call /\ view' = view
    BY <1>4 DEF Commit, Goto
  <2>2. Reading(q)
    BY <2>1 DEF Reading, Typed, RequestsOK
  <2> QED BY <1>1, <1>4, <2>1, <2>2, CommitAll
<1>5. ASSUME NEW r \in Req, r # q,
             Ask(r) \/ Reject(r) \/ ReadPage(r) \/ Count(r) \/ ReadNumbers(r) \/ Show(r)
      PROVE  view'[q] \in View /\ Held(q)'
  <2>1. UNCHANGED store /\ pc'[q] = pc[q] /\ call'[q] = call[q] /\ view'[q] = view[q]
    BY <1>5, ReaderStep
  <2> QED BY <1>1, <2>1 DEF Reading
<1>6. CASE Ask(q)
  BY <1>6, AskFacts DEF Held
<1>7. CASE Reject(q)
  <2>1. UNCHANGED store /\ view' = view /\ Reading(q)
    BY <1>7, ReaderStep DEF Reject, Ask
  <2> QED BY <1>1, <2>1
<1>8. ASSUME ReadPage(q) \/ Count(q) \/ ReadNumbers(q) \/ Show(q)
      PROVE  view[q] \in View /\ Held(q) /\ bets' = bets /\ results' = results
  <2>1. Reading(q)
    BY <1>8 DEF ReadPage, Count, ReadNumbers, Show, Reading, Paging, Typed, RequestsOK
  <2>2. bets' = bets /\ results' = results
    BY <1>8, ReaderStep DEF store
  <2> QED BY <2>1, <2>2 DEF ViewsOK
<1>9. CASE ReadPage(q)
  <2>1. PICK I \in Windows(Selected(call[q]), Skip(view[q].page, call[q].limit), call[q].limit) :
           /\ view'[q] \in View
           /\ view'[q].links = {[bet |-> i.by, result |-> bets[i.by].result] : i \in
                                  {i \in I : call[q].list = "bets"}}
           /\ view'[q].numbers = view[q].numbers
    BY <1>9, ReadPageFacts
  <2>2. call[q].list \in {"transactions", "bets", "results", "withdrawals"}
    BY <1>9, CallTypes DEF ReadPage, Typed, RequestsOK, Paging
  <2>3. \A i \in I : call[q].list = "bets" => i.by \in Req /\ bets[i.by] # None
    BY <2>2, SelectedTyped, WindowTyped DEF RowId
  <2>4. \A b \in Req : bets[b] # None =>
          /\ bets[b].result \in Req \cup {None}
          /\ bets[b].result # None => results[bets[b].result] # None
    BY DEF Typed, BookOK, Bet
  <2>5. \A l \in view'[q].links :
          l.bet \in Req /\ bets[l.bet] # None /\ l.result = bets[l.bet].result
    BY <2>1, <2>3
  <2>6. \A l, m \in view'[q].links : l.bet = m.bet => l = m
    BY <2>1
  <2>7. \A b \in Req : view[q].numbers[b] # None => bets[b] # None /\ bets[b].result # None
    BY <1>8, <1>9 DEF Held
  <2> QED BY <1>8, <1>9, <2>1, <2>4, <2>5, <2>6, <2>7 DEF Held
<1>10. CASE Count(q)
  BY <1>8, <1>10, CountFacts DEF Held
<1>11. CASE Show(q)
  BY <1>8, <1>11, ShowFacts DEF Held
<1>12. CASE ReadNumbers(q)
  <2>1. /\ view'[q] \in View /\ view'[q].links = view[q].links
        /\ \A b \in Req :
              /\ (\A l \in view[q].links : l.bet # b) => view'[q].numbers[b] = view[q].numbers[b]
              /\ \A l \in view[q].links : l.bet = b =>
                   (view'[q].numbers[b] = None <=> l.result = None)
    BY <1>12, ReadNumbersFacts
  <2>2. \A l \in view[q].links : l.bet \in Req
    BY <1>8, <1>12 DEF View, Link
  <2>3. \A b \in Req : view'[q].numbers[b] # None => bets[b] # None /\ bets[b].result # None
    <3> TAKE b \in Req
    <3> HAVE view'[q].numbers[b] # None
    <3>1. CASE \A l \in view[q].links : l.bet # b
      BY <1>8, <1>12, <2>1, <3>1 DEF Held
    <3>2. ASSUME NEW l \in view[q].links, l.bet = b PROVE bets[b] # None /\ bets[b].result # None
      BY <1>8, <1>12, <2>1, <3>2 DEF Held
    <3> QED BY <3>1, <3>2
  <2>4. \A l \in view[q].links : view'[q].numbers[l.bet] # None => l.result # None
    BY <2>1, <2>2
  <2> QED BY <1>8, <1>12, <2>1, <2>3, <2>4 DEF Held
<1>13. ASSUME NEW r \in Req, FindBets(r) \/ FindCredits(r) \/ Rescore(r) \/ Fail(r)
       PROVE  view'[q] \in View /\ Held(q)'
  <2>1. UNCHANGED store /\ call' = call /\ view' = view /\ (q # r => pc'[q] = pc[q])
        /\ call[r].op # "list"
    BY <1>13, SettlementStep
  <2> QED BY <1>1, <2>1 DEF Reading
<1> QED BY <1>2, <1>3, <1>4, <1>13, <1>5, <1>6, <1>7, <1>9, <1>10, <1>11, <1>12 DEF RNext

\* The views of the clients are always as they should be.
LEMMA ViewsInvariance == RSpec => []ViewsOK
<1> QED BY TypedInvariance, ViewsInit, ViewsNext, PTL DEF RSpec

\* A winning number shown for a bet is not taken back by a later page: the
\* bet stays settled whatever is committed, and getWinningNumberByResult finds
\* the result of every bet the page has read.
THEOREM NumberStaysAlways == RSpec => NumberStays
<1> DEFINE Stays == \A q, b \in Req : Listing(q) /\ view[q].numbers[b] # None
                                        => view'[q].numbers[b] # None
<1>1. ASSUME Typed, ViewsOK, [RNext]_vars PROVE [Stays]_vars
  <2> SUFFICES ASSUME NEW q \in Req, NEW b \in Req, Listing(q), view[q].numbers[b] # None
               PROVE  view'[q].numbers[b] # None
    OBVIOUS
  <2>1. Reading(q) /\ view[q] \in View /\ Held(q)
    BY <1>1 DEF Listing, Typed, RequestsOK, ViewsOK, Reading
  <2>2. CASE view'[q] = view[q]
    BY <2>2
  <2>3. CASE ReadPage(q)
    BY <1>1, <2>3, ReadPageFacts
  <2>4. CASE Count(q)
    BY <1>1, <2>4, CountFacts
  <2>5. CASE Show(q)
    BY <1>1, <2>5, ShowFacts
  <2>6. CASE ReadNumbers(q)
    <3>1. /\ (\A l \in view[q].links : l.bet # b) => view'[q].numbers[b] = view[q].numbers[b]
          /\ \A l \in view[q].links : l.bet = b =>
                   (view'[q].numbers[b] = None <=> l.result = None)
      BY <1>1, <2>6, ReadNumbersFacts
    <3> QED BY <2>1, <3>1 DEF Held
  <2>7. ~Ask(q)
    BY <1>1, <2>1 DEF Ask, Reading
  <2>8. ASSUME NEW r \in Req,
               Ask(r) \/ Reject(r) \/ ReadPage(r) \/ Count(r) \/ ReadNumbers(r) \/ Show(r)
        PROVE  \/ view'[q] = view[q] \/ ReadPage(q) \/ Count(q) \/ Show(q) \/ ReadNumbers(q)
    BY <1>1, <2>7, <2>8, ReaderStep DEF Reject
  <2>9. ASSUME NEW r \in Req, Start(r) \/ Commit(r) PROVE view'[q] = view[q]
    BY <2>9 DEF Start, Commit
  <2>10. ASSUME NEW r \in Req, FindBets(r) \/ FindCredits(r) \/ Rescore(r) \/ Fail(r)
         PROVE  view'[q] = view[q]
    BY <1>1, <2>10, SettlementStep
  <2> QED BY <1>1, <2>2, <2>3, <2>4, <2>5, <2>6, <2>8, <2>9, <2>10 DEF RNext, vars
<1> QED BY <1>1, TypedInvariance, ViewsInvariance, PTL DEF RSpec, NumberStays

-----------------------------------------------------------------------------
(* Paging through a listing that only grows *)

\* How many of the rows of S are listed before u for sure.
Ahead(u, S, age) == Cardinality({s \in S : age[s.by] > age[u.by]})

\* No two rows of S have begun together.
Strict(S, age) ==
  /\ \A s \in S : age[s.by] \in Nat
  /\ \A s, t \in S : age[s.by] = age[t.by] => s = t

\* The rows ahead of a row are fewer than the rows.
LEMMA AheadTyped ==
  ASSUME NEW S, IsFiniteSet(S), NEW age, Strict(S, age), NEW u \in S
  PROVE  Ahead(u, S, age) \in Nat /\ Cardinality(S) \in Nat /\ Ahead(u, S, age) < Cardinality(S)
<1> DEFINE A == {s \in S : age[s.by] > age[u.by]}
<1>1. IsFiniteSet(S \ {u}) /\ Cardinality(S \ {u}) = Cardinality(S) - 1 /\ Cardinality(S) \in Nat
  BY FS_RemoveElement, FS_CardinalityType
<1>2. A \subseteq S \ {u}
  BY DEF Strict
<1> HIDE DEF A
<1>3. Cardinality(A) \in Nat /\ Cardinality(A) <= Cardinality(S \ {u})
  BY <1>1, <1>2, FS_Subset, FS_CardinalityType
<1>4. Ahead(u, S, age) = Cardinality(A)
  BY DEF Ahead, A
<1> QED BY <1>1, <1>3, <1>4

\* Rows that are added may come before u, or after.
LEMMA AheadMore ==
  ASSUME NEW T, IsFiniteSet(T), NEW S, S \subseteq T, NEW u \in S, NEW old, NEW new,
         \A s \in S : new[s.by] = old[s.by]
  PROVE  /\ Ahead(u, S, old) \in Nat /\ Ahead(u, T, new) \in Nat
         /\ Ahead(u, S, old) <= Ahead(u, T, new)
<1> DEFINE A == {s \in S : old[s.by] > old[u.by]}
           B == {s \in T : new[s.by] > new[u.by]}
<1>1. A \subseteq B
  OBVIOUS
<1>2. IsFiniteSet(B)
  BY FS_Subset
<1>3. Ahead(u, S, old) = Cardinality(A) /\ Ahead(u, T, new) = Cardinality(B)
  BY DEF Ahead
<1> HIDE DEF A, B
<1>4. IsFiniteSet(A) /\ Cardinality(A) <= Cardinality(B)
  BY <1>1, <1>2, FS_Subset
<1>5. Cardinality(A) \in Nat /\ Cardinality(B) \in Nat
  BY <1>2, <1>4, FS_CardinalityType
<1> QED BY <1>3, <1>4, <1>5

\* A row that comes after all that has been skipped is in the window, or
\* after all of it, and then the window is full.
LEMMA WindowReach ==
  ASSUME NEW S, IsFiniteSet(S), Strict(S, began), NEW skip \in Nat, NEW take \in Nat,
         NEW I \in Windows(S, skip, take), NEW u \in S \ I, Ahead(u, S, began) >= skip
  PROVE  Cardinality(I) = take /\ Ahead(u, S, began) >= skip + take
<1> DEFINE A == {s \in S : began[s.by] > began[u.by]}
<1>1. PICK P \in SUBSET (S \ I) :
        /\ Cardinality(P) = AtMost(skip, S) /\ Cardinality(I) = AtMost(take, S \ P)
        /\ Before(P, S \ P) /\ Before(I, S \ (P \cup I))
  BY DEF Windows
<1>2. Ahead(u, S, began) = Cardinality(A) /\ A \subseteq S
  BY DEF Ahead
<1>3. I \subseteq S /\ P \subseteq S /\ P \cap I = {}
  BY WindowTyped
<1>4. IsFiniteSet(A) /\ IsFiniteSet(I) /\ IsFiniteSet(P) /\ IsFiniteSet(S \ P)
  BY <1>2, <1>3, FS_Subset
<1>5. /\ Cardinality(A) \in Nat /\ Cardinality(I) \in Nat /\ Cardinality(P) \in Nat
      /\ Cardinality(S) \in Nat /\ Cardinality(S \ P) \in Nat
  BY <1>4, FS_CardinalityType
<1>6. Cardinality(P) = skip
  <2>1. Cardinality(A) < Cardinality(S)
    BY <1>2, AheadTyped
  <2> QED BY <1>1, <1>2, <1>5, <2>1 DEF AtMost
<1>7. u \notin P
  <2> SUFFICES ASSUME u \in P PROVE FALSE
    OBVIOUS
  <2>1. A \subseteq P \ {u}
    <3> SUFFICES ASSUME NEW a \in A PROVE a \in P /\ a # u
      OBVIOUS
    <3>1. began[a.by] \in Nat /\ began[u.by] \in Nat /\ began[a.by] > began[u.by]
      BY DEF Strict
    <3>2. a \notin S \ P
      BY <1>1, <3>1 DEF Before
    <3> QED BY <3>1, <3>2
  <2>2. IsFiniteSet(P \ {u}) /\ Cardinality(P \ {u}) = Cardinality(P) - 1
    BY <1>4, FS_RemoveElement
  <2> HIDE DEF A
  <2>3. Cardinality(A) <= Cardinality(P \ {u})
    BY <2>1, <2>2, FS_Subset
  <2> QED BY <1>2, <1>5, <1>6, <2>2, <2>3
<1>8. P \cup I \subseteq A
  <2> SUFFICES ASSUME NEW a \in P \cup I PROVE a \in A
    OBVIOUS
  <2>1. a # u /\ a \in S /\ began[a.by] \in Nat /\ began[u.by] \in Nat
    BY <1>3, <1>7 DEF Strict
  <2>2. began[a.by] >= began[u.by]
    BY <1>1, <1>7 DEF Before
  <2>3. began[a.by] # began[u.by]
    BY <2>1 DEF Strict
  <2> QED BY <2>1, <2>2, <2>3
<1> HIDE DEF A
<1>9. Cardinality(I) = take
  <2> DEFINE R == (S \ P) \ {u}
  <2>1. IsFiniteSet(R) /\ Cardinality(R) = Cardinality(S \ P) - 1
    BY <1>4, <1>7, FS_RemoveElement
  <2>2. I \subseteq R
    BY <1>3
  <2> HIDE DEF R
  <2>3. Cardinality(I) <= Cardinality(R)
    BY <2>1, <2>2, FS_Subset
  <2> QED BY <1>1, <1>5, <2>1, <2>3 DEF AtMost
<1>10. Cardinality(P \cup I) = Cardinality(P) + Cardinality(I)
  <2>1. Cardinality(P \cup I) = Cardinality(P) + Cardinality(I) - Cardinality(P \cap I)
    BY <1>4, FS_Union
  <2>2. Cardinality(P \cap I) = 0
    BY <1>3, FS_EmptySet
  <2> QED BY <1>5, <2>1, <2>2
<1>11. Cardinality(P \cup I) <= Cardinality(A)
  BY <1>4, <1>8, FS_Subset
<1> QED BY <1>2, <1>5, <1>6, <1>9, <1>10, <1>11

\* The rows of a listing that only grows began one after the other, each by a
\* request that is done.
LEMMA SelectedStrict ==
  ASSUME Typed, NEW c, AppendOnly(c)
  PROVE  Strict(Selected(c), began) /\ \A s \in Selected(c) : pc[s.by] = "done"
<1>1. \A r, s \in Req : /\ Writing(r) => began[r] \in Nat
                        /\ Writing(r) /\ Writing(s) /\ began[r] = began[s] => r = s
  BY DEF Typed, RequestsOK
<1>2. ASSUME NEW R, R \subseteq ledger, \A t \in R : t.type # "credit",
             Selected(c) = {Id(t.by, t.user) : t \in R}
      PROVE  Strict(Selected(c), began) /\ \A s \in Selected(c) : pc[s.by] = "done"
  <2>1. \A t \in R : t.by \in Req /\ pc[t.by] = "done" /\ Writing(t.by)
    BY <1>2 DEF Typed, LedgerOK, Entry, Writing
  <2>2. \A t, s \in R : t.by = s.by => t = s
    BY <1>2 DEF Typed, LedgerOK
  <2> QED BY <1>1, <1>2, <2>1, <2>2 DEF Strict, Id
<1>3. ASSUME NEW B, B \subseteq Req, \A b \in B : pc[b] = "done" /\ Writing(b),
             \A s \in Selected(c) : s.by \in B,
             \A s, t \in Selected(c) : s.by = t.by => s = t
      PROVE  Strict(Selected(c), began) /\ \A s \in Selected(c) : pc[s.by] = "done"
  BY <1>1, <1>3 DEF Strict
<1>4. CASE c.list = "bets"
  <2>1. Bets(c) \subseteq Req /\ \A b \in Bets(c) : bets[b] # None
    BY DEF Bets
  <2>2. \A b \in Bets(c) : pc[b] = "done" /\ Writing(b)
    BY <2>1 DEF Typed, BookOK, Writing
  <2>3. Selected(c) = {Id(b, bets[b].user) : b \in Bets(c)}
    BY <1>4 DEF Selected
  <2>4. /\ \A s \in Selected(c) : s.by \in Bets(c)
        /\ \A s, t \in Selected(c) : s.by = t.by => s = t
    BY <2>3 DEF Id
  <2> QED BY <1>3, <2>1, <2>2, <2>4
<1>5. CASE c.list = "results"
  <2>1. Results(c) \subseteq Req /\ \A x \in Results(c) : results[x] # None
    BY DEF Results
  <2>2. \A x \in Results(c) : pc[x] = "done" /\ Writing(x)
    BY <2>1 DEF Typed, BookOK, Writing
  <2>3. Selected(c) = {Id(x, None) : x \in Results(c)}
    BY <1>5 DEF Selected
  <2>4. /\ \A s \in Selected(c) : s.by \in Results(c)
        /\ \A s, t \in Selected(c) : s.by = t.by => s = t
    BY <2>3 DEF Id
  <2> QED BY <1>3, <2>1, <2>2, <2>4
<1>6. CASE c.list = "withdrawals"
  <2>1. Withdrawals(c) \subseteq ledger /\ \A t \in Withdrawals(c) : t.type # "credit"
    BY DEF Withdrawals
  <2>2. Selected(c) = {Id(t.by, t.user) : t \in Withdrawals(c)}
    BY <1>6 DEF Selected
  <2> QED BY <1>2, <2>1, <2>2
<1>7. CASE c.list = "transactions" /\ c.type \notin {None, "credit"}
  <2>1. Transactions(c) \subseteq ledger /\ \A t \in Transactions(c) : t.type # "credit"
    BY <1>7 DEF Transactions
  <2>2. Selected(c) = {Id(t.by, t.user) : t \in Transactions(c)}
    BY <1>7 DEF Selected
  <2> QED BY <1>2, <2>1, <2>2
<1> QED BY <1>4, <1>5, <1>6, <1>7 DEF AppendOnly

\* When a request that is done began does not change.
LEMMA BeganStays ==
  ASSUME Typed, [RNext]_vars
  PROVE  \A r \in Req : pc[r] = "done" => began'[r] = began[r]
<1>1. ASSUME NEW r \in Req, Start(r) PROVE \A s \in Req : pc[s] = "done" => began'[s] = began[s]
  BY <1>1 DEF Start, Typed, RequestsOK
<1>2. ASSUME ~\E r \in Req : Start(r) PROVE began' = began
  <2>1. ASSUME NEW r \in Req, Commit(r) PROVE began' = began
    BY <2>1 DEF Commit
  <2>2. ASSUME NEW r \in Req,
               Ask(r) \/ Reject(r) \/ ReadPage(r) \/ Count(r) \/ ReadNumbers(r) \/ Show(r)
        PROVE  began' = began
    BY <2>2, ReaderStep
  <2>3. ASSUME NEW r \in Req, FindBets(r) \/ FindCredits(r) \/ Rescore(r) \/ Fail(r)
        PROVE  began' = began
    BY <2>3, SettlementStep
  <2> QED BY <1>2, <2>1, <2>2, <2>3 DEF RNext, vars
<1> QED BY <1>1, <1>2

\* No step takes a row from a listing that only grows.
LEMMA SelectedGrows ==
  ASSUME Typed, [RNext]_vars, NEW c, AppendOnly(c)
  PROVE  Selected(c) \subseteq Selected(c)'
<1>1. \A r \in Req : pc[r] = "done" => began'[r] = began[r]
  BY BeganStays
<1>2. /\ \A b \in Req : bets[b] # None =>
           bets'[b] # None /\ bets'[b].user = bets[b].user /\ bets'[b].game = bets[b].game
      /\ \A x \in Req : results[x] # None => results'[x] # None /\ results'[x].game = results[x].game
      /\ \A t \in ledger : t.type # "credit" => t \in ledger'
  <2>1. CASE \E r \in Req : Commit(r)
    BY <2>1, CommitAll DEF CommitKeeps
  <2>2. CASE ~\E r \in Req : Commit(r)
    BY <2>2, Elsewhere DEF store
  <2> QED BY <2>1, <2>2
<1>3. \A r \in Req : pc[r] = "done" /\ InPeriod(c, r) => InPeriod(c, r)'
  BY <1>1 DEF InPeriod
<1>4. CASE c.list = "bets"
  <2>1. \A b \in Bets(c) : b \in Req /\ bets[b] # None /\ pc[b] = "done"
    BY DEF Bets, Typed, BookOK
  <2>2. \A b \in Bets(c) : b \in Bets(c)' /\ bets'[b].user = bets[b].user
    BY <1>2, <1>3, <2>1 DEF Bets
  <2>3. Selected(c) = {Id(b, bets[b].user) : b \in Bets(c)}
    BY <1>4 DEF Selected
  <2>4. Selected(c)' = {Id(b, bets'[b].user) : b \in Bets(c)'}
    BY <1>4 DEF Selected
  <2> QED BY <2>2, <2>3, <2>4
<1>5. CASE c.list = "results" /\ c.search = None
  <2>1. \A x \in Results(c) : x \in Req /\ results[x] # None /\ pc[x] = "done"
    BY DEF Results, Typed, BookOK
  <2>2. \A x \in Results(c) : x \in Results(c)'
    BY <1>2, <1>3, <1>5, <2>1 DEF Results
  <2>3. Selected(c) = {Id(x, None) : x \in Results(c)}
    BY <1>5 DEF Selected
  <2>4. Selected(c)' = {Id(x, None) : x \in Results(c)'}
    BY <1>5 DEF Selected
  <2> QED BY <2>2, <2>3, <2>4
<1>6. \A t \in ledger : t.by \in Req /\ pc[t.by] = "done"
  BY DEF Typed, LedgerOK, Entry
<1>7. CASE c.list = "withdrawals"
  <2>1. \A t \in Withdrawals(c) : t \in Withdrawals(c)'
    BY <1>2, <1>3, <1>6 DEF Withdrawals
  <2>2. Selected(c) = {Id(t.by, t.user) : t \in Withdrawals(c)}
    BY <1>7 DEF Selected
  <2>3. Selected(c)' = {Id(t.by, t.user) : t \in Withdrawals(c)'}
    BY <1>7 DEF Selected
  <2> QED BY <2>1, <2>2, <2>3
<1>8. CASE c.list = "transactions" /\ c.type \notin {None, "credit"}
  <2>1. \A t \in Transactions(c) : t \in Transactions(c)'
    BY <1>2, <1>3, <1>6, <1>8 DEF Transactions
  <2>2. Selected(c) = {Id(t.by, t.user) : t \in Transactions(c)}
    BY <1>8 DEF Selected
  <2>3. Selected(c)' = {Id(t.by, t.user) : t \in Transactions(c)'}
    BY <1>8 DEF Selected
  <2> QED BY <2>1, <2>2, <2>3
<1> QED BY <1>4, <1>5, <1>7, <1>8 DEF AppendOnly

\* How far a client has come that has got to `step` of a page of its listing:
\* every row that was there when it began and that it has not been shown comes
\* after all pages so far, and while there is one, the count says so.
Reached(step, v, limit, S, age) ==
  /\ v.first \subseteq S
  /\ step = "page" => \A u \in v.first \ v.seen : Ahead(u, S, age) >= Skip(v.page, limit)
  /\ step \in {"count", "numbers", "show"} =>
       \A u \in v.first \ (v.seen \cup v.items) :
         /\ Ahead(u, S, age) >= v.page * limit
         /\ step # "count" => v.total > v.page * limit
  /\ step = "done" => v.first \subseteq v.seen

PagesOK ==
  \A q \in Req : \A c \in CallSet :
    Reading(q) /\ call[q] = c /\ AppendOnly(c) =>
      Reached(pc[q], view[q], c.limit, Selected(c), began)

\* The client is no further back when rows have been added.
LEMMA ReachedStays ==
  ASSUME NEW step, NEW v \in View, NEW limit \in Limit, NEW T, IsFiniteSet(T),
         NEW S, S \subseteq T, NEW old, NEW new, \A s \in S : new[s.by] = old[s.by],
         Reached(step, v, limit, S, old)
  PROVE  Reached(step, v, limit, T, new)
<1>1. v.first \subseteq S /\ v.first \subseteq T
  BY DEF Reached
<1>2. \A u \in v.first : /\ Ahead(u, S, old) \in Nat /\ Ahead(u, T, new) \in Nat
                         /\ Ahead(u, S, old) <= Ahead(u, T, new)
  BY <1>1, AheadMore
<1>3. v.page \in Nat \ {0}
  BY DEF View
<1>4. Skip(v.page, limit) \in Nat /\ v.page * limit \in Nat
  <2>1. limit \in Nat /\ Skip(v.page, limit) \in Nat
    BY <1>3, SkipTyped
  <2> QED BY <1>3, <2>1
<1> DEFINE skip == Skip(v.page, limit)  ends == v.page * limit
<1> HIDE DEF skip, ends
<1>5. step = "page" => \A u \in v.first \ v.seen : Ahead(u, T, new) >= skip
  BY <1>2, <1>4 DEF Reached, skip
<1>6. step \in {"count", "numbers", "show"} =>
       \A u \in v.first \ (v.seen \cup v.items) :
         /\ Ahead(u, T, new) >= ends
         /\ step # "count" => v.total > ends
  <2>1. step \in {"count", "numbers", "show"} =>
         \A u \in v.first \ (v.seen \cup v.items) :
           /\ Ahead(u, S, old) >= ends
           /\ step # "count" => v.total > ends
    BY DEF Reached, ends
  <2> QED BY <1>2, <1>4, <2>1 DEF ends
<1> QED BY <1>1, <1>5, <1>6 DEF Reached, skip, ends

\* At first no client pages.
LEMMA PagesInit == RInit => PagesOK
BY DEF RInit, PagesOK, Reading

\* The steps of a client and a listing that only grows.
LEMMA PageReached ==
  ASSUME Typed, ViewsOK, NEW q \in Req, ReadPage(q), AppendOnly(call[q]),
         Reached(pc[q], view[q], call[q].limit, Selected(call[q]), began)
  PROVE  Reached(pc'[q], view'[q], call[q].limit, Selected(call[q]), began)
<1> DEFINE c == call[q]  S == Selected(c)  limit == c.limit  v == view[q]  w == view'[q]
           skip == Skip(v.page, limit)
<1>1. pc[q] = "page" /\ c.op = "list" /\ c \in CallSet /\ pc \in [Req -> Step]
  BY DEF ReadPage, Typed, RequestsOK, Paging
<1>2. limit \in Limit /\ c.list \in {"transactions", "bets", "results", "withdrawals"}
  BY <1>1, CallTypes
<1>3. v \in View
  BY <1>1 DEF ViewsOK, Reading
<1>4. v.page \in Nat \ {0}
  BY <1>3 DEF View
<1>5. limit \in Nat \ {0} /\ skip \in Nat /\ skip + limit = v.page * limit
  <2> HIDE DEF v, c
  <2> QED BY <1>2, <1>4, SkipTyped DEF v, c
<1>6. PICK I \in Windows(S, skip, limit) :
        /\ w.items = I /\ w.page = v.page /\ w.seen = v.seen /\ w.first = v.first
        /\ pc' = [pc EXCEPT ![q] = IF Cardinality(I) = limit \/ (I = {} /\ skip > 0)
                                     THEN "count" ELSE AfterCount(q)]
  BY ReadPageFacts
<1>7. IsFiniteSet(S)
  BY <1>2, SelectedTyped
<1>8. Strict(S, began)
  BY SelectedStrict
<1>9. v.first \subseteq S /\ \A u \in v.first \ v.seen : Ahead(u, S, began) >= skip
  BY <1>1 DEF Reached
<1> HIDE DEF S, limit, v, w, skip, c
<1>10. ASSUME NEW u \in v.first \ (v.seen \cup I)
       PROVE  Cardinality(I) = limit /\ Ahead(u, S, began) >= v.page * limit
  <2>1. u \in S \ I /\ Ahead(u, S, began) >= skip /\ limit \in Nat
    BY <1>5, <1>9
  <2>2. Cardinality(I) = limit /\ Ahead(u, S, began) >= skip + limit
    BY <1>5, <1>6, <1>7, <1>8, <2>1, WindowReach
  <2> QED BY <1>5, <2>2
<1>11. pc'[q] \in {"count", "numbers", "show"}
       /\ (Cardinality(I) = limit => pc'[q] = "count")
  BY <1>1, <1>6 DEF AfterCount
<1>12. Reached(pc'[q], w, limit, S, began)
  BY <1>6, <1>9, <1>10, <1>11 DEF Reached
<1> QED BY <1>12 DEF S, limit, v, w, c

\* The count keeps what a client has reached.
LEMMA CountReached ==
  ASSUME Typed, ViewsOK, NEW q \in Req, Count(q), AppendOnly(call[q]),
         Reached(pc[q], view[q], call[q].limit, Selected(call[q]), began)
  PROVE  Reached(pc'[q], view'[q], call[q].limit, Selected(call[q]), began)
<1> DEFINE c == call[q]  S == Selected(c)  limit == c.limit  v == view[q]  w == view'[q]
<1>1. pc[q] = "count" /\ c.op = "list" /\ c \in CallSet /\ pc \in [Req -> Step]
  BY DEF Count, Typed, RequestsOK, Paging
<1>2. limit \in Limit /\ c.list \in {"transactions", "bets", "results", "withdrawals"}
  BY <1>1, CallTypes
<1>3. v \in View
  BY <1>1 DEF ViewsOK, Reading
<1>4. v.page * limit \in Nat
  <2>1. v.page \in Nat /\ limit \in Nat
    BY <1>2, <1>3 DEF View, Limit
  <2> QED BY <2>1
<1>5. /\ w.total = Cardinality(S) /\ w.items = v.items /\ w.page = v.page
      /\ w.seen = v.seen /\ w.first = v.first /\ pc'[q] \in {"numbers", "show"}
  BY <1>1, CountFacts DEF AfterCount
<1>6. IsFiniteSet(S)
  BY <1>2, SelectedTyped
<1>7. Strict(S, began)
  BY SelectedStrict
<1>8. v.first \subseteq S /\ \A u \in v.first \ (v.seen \cup v.items) :
                               Ahead(u, S, began) >= v.page * limit
  BY <1>1 DEF Reached
<1> HIDE DEF S, limit, v, w, c
<1>9. ASSUME NEW u \in v.first \ (v.seen \cup v.items) PROVE w.total > v.page * limit
  <2>1. u \in S /\ Ahead(u, S, began) >= v.page * limit
    BY <1>8
  <2>2. Ahead(u, S, began) \in Nat /\ Cardinality(S) \in Nat /\ Ahead(u, S, began) < Cardinality(S)
    BY <1>6, <1>7, <2>1, AheadTyped
  <2> DEFINE ends == v.page * limit
  <2> HIDE DEF ends
  <2>3. w.total > ends
    BY <1>4, <1>5, <2>1, <2>2 DEF ends
  <2> QED BY <2>3 DEF ends
<1>10. Reached(pc'[q], w, limit, S, began)
  BY <1>5, <1>8, <1>9 DEF Reached
<1> QED BY <1>10 DEF S, limit, v, w, c

\* A client that takes a page has reached the rows of it.
LEMMA ShowReached ==
  ASSUME Typed, ViewsOK, NEW q \in Req, Show(q), AppendOnly(call[q]),
         Reached(pc[q], view[q], call[q].limit, Selected(call[q]), began)
  PROVE  Reached(pc'[q], view'[q], call[q].limit, Selected(call[q]), began)
<1> DEFINE c == call[q]  S == Selected(c)  limit == c.limit  v == view[q]  w == view'[q]
<1>1. pc[q] = "show" /\ c.op = "list" /\ c \in CallSet /\ pc \in [Req -> Step]
  BY DEF Show, Typed, RequestsOK, Paging
<1>2. limit \in Limit
  BY <1>1, CallTypes
<1>3. v \in View
  BY <1>1 DEF ViewsOK, Reading
<1>4. v.page \in Nat \ {0} /\ v.total \in Nat /\ v.page * limit \in Nat
  <2>1. v.page \in Nat \ {0} /\ v.total \in Nat /\ limit \in Nat
    BY <1>2, <1>3 DEF View, Limit
  <2> QED BY <2>1
<1>5. Skip(v.page + 1, limit) = v.page * limit
  <2> HIDE DEF v, c
  <2> QED BY <1>2, <1>4, SkipTyped DEF v, c
<1>6. /\ w.page = v.page + 1 /\ w.seen = v.seen \cup v.items /\ w.first = v.first
      /\ pc'[q] = IF v.page * limit < v.total THEN "page" ELSE "done"
  BY <1>1, ShowFacts
<1>7. v.first \subseteq S /\ \A u \in v.first \ (v.seen \cup v.items) :
        Ahead(u, S, began) >= v.page * limit /\ v.total > v.page * limit
  BY <1>1 DEF Reached
<1> HIDE DEF S, limit, v, w, c
<1> DEFINE ends == v.page * limit
<1>8. /\ Skip(w.page, limit) = ends /\ ends \in Nat
      /\ pc'[q] = IF ends < v.total THEN "page" ELSE "done"
      /\ \A u \in v.first \ (v.seen \cup v.items) : Ahead(u, S, began) >= ends /\ v.total > ends
  BY <1>4, <1>5, <1>6, <1>7
<1> HIDE DEF ends
<1>9. Reached(pc'[q], w, limit, S, began)
  <2>1. CASE ends < v.total
    BY <1>6, <1>7, <1>8, <2>1 DEF Reached
  <2>2. CASE ~(ends < v.total)
    BY <1>4, <1>6, <1>7, <1>8, <2>2 DEF Reached
  <2> QED BY <2>1, <2>2
<1> QED BY <1>9 DEF S, limit, v, w, c

\* A client that begins has nothing behind it.
LEMMA AskReached ==
  ASSUME Typed, NEW q \in Req, Ask(q), NEW c \in CallSet, c = call'[q], AppendOnly(c)
  PROVE  Reached(pc'[q], view'[q], c.limit, Selected(c), began)
<1> DEFINE w == view'[q]  S == Selected(c)
<1>1. c.op = "list" /\ w \in View /\ w.page = 1 /\ w.first \subseteq S
  BY AskFacts
<1>2. pc'[q] = "page"
  BY AskFacts DEF Typed, RequestsOK
<1>3. c.limit \in Limit /\ c.list \in {"transactions", "bets", "results", "withdrawals"}
  BY <1>1, CallTypes
<1>4. IsFiniteSet(S)
  BY <1>3, SelectedTyped
<1>5. Strict(S, began)
  BY SelectedStrict
<1>6. Skip(1, c.limit) = 0
  BY <1>3 DEF Skip, Limit
<1> HIDE DEF w, S
<1>7. \A u \in S : Ahead(u, S, began) \in Nat
  BY <1>4, <1>5, AheadTyped
<1>8. Reached("page", w, c.limit, S, began)
  BY <1>1, <1>6, <1>7 DEF Reached
<1> QED BY <1>2, <1>8 DEF w, S

\* The query for the winning numbers keeps what a client has reached.
LEMMA NumbersReached ==
  ASSUME Typed, ViewsOK, NEW q \in Req, ReadNumbers(q), NEW limit, NEW S,
         Reached(pc[q], view[q], limit, S, began)
  PROVE  Reached(pc'[q], view'[q], limit, S, began)
<1>1. pc[q] = "numbers" /\ pc'[q] = "show"
  BY ReadNumbersFacts DEF ReadNumbers, Typed, RequestsOK
<1>2. /\ view'[q].items = view[q].items /\ view'[q].page = view[q].page
      /\ view'[q].seen = view[q].seen /\ view'[q].first = view[q].first
      /\ view'[q].total = view[q].total
  BY ReadNumbersFacts
<1> QED BY <1>1, <1>2 DEF Reached

\* The rows of every listing are finitely many.
ListingsFinite == \A c \in CallSet : c.op = "list" => IsFiniteSet(Selected(c))

\* Every listing has finitely many rows.
LEMMA ListingsAreFinite == Typed => ListingsFinite
BY CallTypes, SelectedTyped DEF ListingsFinite

\* Every step keeps what the clients have reached.
LEMMA PagesNext ==
  ASSUME Typed, ViewsOK, ViewsOK', ListingsFinite', PagesOK, [RNext]_vars
  PROVE  PagesOK'
<1> SUFFICES ASSUME NEW q \in Req, NEW c \in CallSet, Reading(q)', call'[q] = c, AppendOnly(c)
             PROVE  Reached(pc'[q], view'[q], c.limit, Selected(c)', began')
  BY DEF PagesOK
<1>1. c.op = "list"
  BY DEF Reading
<1>2. c.limit \in Limit
  BY <1>1, CallTypes
<1>3. ASSUME Reading(q), call[q] = c PROVE Reached(pc[q], view[q], c.limit, Selected(c), began)
  BY <1>3 DEF PagesOK
<1>4. Reached(pc'[q], view'[q], c.limit, Selected(c), began)
  <2>1. CASE pc'[q] = pc[q] /\ call'[q] = call[q] /\ view'[q] = view[q]
    BY <1>3, <2>1 DEF Reading
  <2>2. CASE Ask(q)
    BY <2>2, AskReached
  <2>3. CASE Reject(q) \/ ReadPage(q) \/ Count(q) \/ ReadNumbers(q) \/ Show(q)
    <3>1. ~Ask(q)
      BY <2>3 DEF Reject, ReadPage, Count, ReadNumbers, Show, Ask
    <3>2. Reading(q) /\ call[q] = c
      BY <2>3, <3>1, ReaderStep
    <3>3. Reached(pc[q], view[q], c.limit, Selected(c), began)
      BY <1>3, <3>2
    <3>4. CASE Reject(q)
      <4>1. pc'[q] = "failed" /\ view' = view
        BY <3>4 DEF Reject, Goto, Typed, RequestsOK
      <4> QED BY <3>3, <4>1 DEF Reached
    <3>5. CASE ReadPage(q)
      BY <3>2, <3>3, <3>5, PageReached
    <3>6. CASE Count(q)
      BY <3>2, <3>3, <3>6, CountReached
    <3>7. CASE ReadNumbers(q)
      BY <3>3, <3>7, NumbersReached
    <3>8. CASE Show(q)
      BY <3>2, <3>3, <3>8, ShowReached
    <3> QED BY <2>3, <3>4, <3>5, <3>6, <3>7, <3>8
  <2>4. ASSUME NEW r \in Req, Start(r)
        PROVE  pc'[q] = pc[q] /\ call'[q] = call[q] /\ view'[q] = view[q]
    <3>1. r # q
      BY <1>1, <2>4 DEF Start, Typed, RequestsOK
    <3> QED BY <2>4, <3>1 DEF Start, Goto, Typed, RequestsOK
  <2>5. ASSUME NEW r \in Req, Commit(r)
        PROVE  pc'[q] = pc[q] /\ call'[q] = call[q] /\ view'[q] = view[q]
    <3>1. r # q
      BY <1>1, <2>5 DEF Commit, InFlight, Typed, RequestsOK
    <3> QED BY <2>5, <3>1 DEF Commit, Goto, Typed, RequestsOK
  <2>7. ASSUME NEW r \in Req, FindBets(r) \/ FindCredits(r) \/ Rescore(r) \/ Fail(r)
        PROVE  pc'[q] = pc[q] /\ call'[q] = call[q] /\ view'[q] = view[q]
    BY <1>1, <2>7, SettlementStep
  <2>6. ASSUME NEW r \in Req, r # q,
               Ask(r) \/ Reject(r) \/ ReadPage(r) \/ Count(r) \/ ReadNumbers(r) \/ Show(r)
        PROVE  pc'[q] = pc[q] /\ call'[q] = call[q] /\ view'[q] = view[q]
    BY <2>6, ReaderStep
  <2> QED BY <2>1, <2>2, <2>3, <2>4, <2>5, <2>6, <2>7 DEF RNext, vars
<1>5. view'[q] \in View
  BY DEF ViewsOK
<1>6. IsFiniteSet(Selected(c)') /\ Selected(c) \subseteq Selected(c)'
  BY <1>1, SelectedGrows DEF ListingsFinite
<1>7. \A s \in Selected(c) : began'[s.by] = began[s.by]
  <2>1. c.list \in {"transactions", "bets", "results", "withdrawals"}
    BY <1>1, CallTypes
  <2> QED BY <2>1, BeganStays, SelectedStrict, SelectedTyped DEF RowId
<1> DEFINE step == pc'[q]  v == view'[q]  S == Selected(c)  T == Selected(c)'
           old == began  new == began'
<1> HIDE DEF step, v, S, T, old, new
<1>8. /\ v \in View /\ IsFiniteSet(T) /\ S \subseteq T
      /\ \A s \in S : new[s.by] = old[s.by]
  BY <1>5, <1>6, <1>7 DEF v, S, T, old, new
<1>9. Reached(step, v, c.limit, S, old)
  BY <1>4 DEF step, v, S, old
<1>10. Reached(step, v, c.limit, T, new)
  BY <1>2, <1>8, <1>9, ReachedStays
<1> QED BY <1>10 DEF step, v, T, new

\* What the clients have reached is always as it should be.
LEMMA PagesInvariance == RSpec => []PagesOK
<1>1. Typed => ListingsFinite
  BY ListingsAreFinite
<1>2. Typed /\ ViewsOK /\ ViewsOK' /\ ListingsFinite' /\ PagesOK /\ [RNext]_vars => PagesOK'
  BY PagesNext
<1> QED BY <1>1, <1>2, TypedInvariance, ViewsInvariance, PagesInit, PTL DEF RSpec

\* Whoever pages to the end of a listing that only grows has been shown every
\* row that was there when he began, whatever is committed meanwhile, for any
\* number of rows and any page size: rows that are added shift the pages only
\* towards him, and the count that ends the paging is never too low.
THEOREM PagesReachAlways == RSpec => []PagesReach
<1>1. Typed /\ PagesOK => PagesReach
  <2> SUFFICES ASSUME Typed, PagesOK, NEW q \in Req, pc[q] = "done", Listing(q), AppendOnly(call[q])
               PROVE  view[q].first \subseteq view[q].seen
    BY DEF PagesReach
  <2>1. call[q] \in CallSet /\ Reading(q)
    BY DEF Typed, RequestsOK, Listing, Reading
  <2>2. Reached(pc[q], view[q], call[q].limit, Selected(call[q]), began)
    BY <2>1 DEF PagesOK
  <2> QED BY <2>2 DEF Reached
<1> QED BY <1>1, TypedInvariance, PagesInvariance, PTL

-----------------------------------------------------------------------------
(* One settlement per game at a time *)

\* The live credits of a result.
Credits(x) == {t \in ledger : t.type = "credit" /\ t.ref = x /\ ~t.deleted}

\* No two settlements are about one game, and what a correction has found
\* is still there.
Undisturbed ==
  /\ OneSettlementPerGame
  /\ \A r, s \in Req, g \in Game : Settling(r, g) /\ Settling(s, g) => r = s
  /\ \A r \in Req : pc[r] \in {"rescore", "commit"} /\ call[r].op = "correct" =>
       tx[r].found = Credits(call[r].ref)
  /\ \A r \in Req : pc[r] = "commit" /\ call[r].op = "correct" =>
       tx[r].loaded = results[call[r].ref]

\* Every settlement in flight is about a game.
LEMMA SettlingSome ==
  ASSUME Typed, NEW r \in Req, InFlight(r), call[r].op = "correct"
  PROVE  call[r].ref \in Req /\ results[call[r].ref] \in Result
         /\ results[call[r].ref].game \in Game /\ Settling(r, results[call[r].ref].game)
<1>1. call[r] \in CallSet /\ results[call[r].ref] # None
  BY DEF Typed, RequestsOK, TxOK, InFlight
<1>2. call[r].ref \in Req
  BY <1>1, CallTypes
<1>3. results[call[r].ref] \in Result
  BY <1>1, <1>2 DEF Typed, BookOK
<1> QED BY <1>2, <1>3 DEF Result, Settling

\* A settlement in flight stays about the game it is about.
LEMMA SettlingKept ==
  ASSUME Typed, [RNext]_vars, NEW r \in Req, InFlight(r), call'[r] = call[r], NEW g,
         Settling(r, g)'
  PROVE  Settling(r, g)
<1>1. \A x \in Req : results[x] # None => results'[x] # None /\ results'[x].game = results[x].game
  <2>1. CASE \E s \in Req : Commit(s)
    BY <2>1, CommitAll DEF CommitKeeps
  <2>2. CASE ~\E s \in Req : Commit(s)
    BY <2>2, Elsewhere DEF store
  <2> QED BY <2>1, <2>2
<1>2. CASE call[r].op = "correct"
  BY <1>1, <1>2, SettlingSome DEF Settling, Typed, TxOK
<1>3. CASE call[r].op # "correct"
  BY <1>3 DEF Settling
<1> QED BY <1>2, <1>3

\* The live credits of a result of another game are left alone by a commit.
LEMMA CreditsKept ==
  ASSUME Typed, Undisturbed, NEW s \in Req, Commit(s), NEW r \in Req, r # s,
         InFlight(r), call[r].op = "correct", NEW x, x = call[r].ref
  PROVE  Credits(x)' = Credits(x) /\ results'[x] = results[x]
<1> DEFINE c == call[s]
<1>1. x \in Req /\ results[x] \in Result /\ results[x] # None
  BY SettlingSome DEF Typed, TxOK
<1>2. pc[s] = "commit" /\ c \in CallSet
  BY DEF Commit, Typed, RequestsOK
<1>3. ASSUME NEW type \in Type \ {"credit"}, NEW u, NEW a,
             ledger' = ledger \cup {Row(s, u, type, a)}, results' = results
      PROVE  Credits(x)' = Credits(x) /\ results'[x] = results[x]
  <2>1. Row(s, u, type, a).type # "credit"
    BY DEF Row
  <2>2. Credits(x)' = {t \in ledger' : t.type = "credit" /\ t.ref = x /\ ~t.deleted}
    BY DEF Credits
  <2> QED BY <1>3, <2>1, <2>2 DEF Credits
<1>4. ASSUME NEW y \in Req \ {x}, NEW won \in Won, NEW K,
             ledger' = K \cup CreditRows(s, y, won), results'[x] = results[x],
             {t \in K : t.type = "credit" /\ t.ref = x /\ ~t.deleted} = Credits(x)
      PROVE  Credits(x)' = Credits(x) /\ results'[x] = results[x]
  <2>1. \A t \in CreditRows(s, y, won) : t.ref = y
    BY CreditRowsAre DEF CreditRow
  <2>2. Credits(x)' = {t \in ledger' : t.type = "credit" /\ t.ref = x /\ ~t.deleted}
    BY DEF Credits
  <2>3. \A t \in CreditRows(s, y, won) : t.ref # x
    BY <2>1
  <2> QED BY <1>4, <2>2, <2>3
<1>5. CASE CommitTopUp(s, c)
  BY <1>3, <1>5 DEF CommitTopUp, TopUp, Type
<1>6. CASE CommitWithdraw(s, c)
  BY <1>3, <1>6 DEF CommitWithdraw, Withdraw, Type
<1>7. CASE CommitBet(s, c)
  BY <1>3, <1>7 DEF CommitBet, PlaceBet, Type
<1>8. CASE CommitDeclare(s, c)
  <2>1. PICK won, res :
           /\ won \in Won /\ results[s] = None
           /\ results' = [results EXCEPT ![s] = res]
           /\ ledger' = ledger \cup CreditRows(s, s, won)
    BY <1>8, DeclareFacts
  <2>2. s # x
    BY <1>1, <2>1
  <2>3. results'[x] = results[x]
    BY <1>1, <2>1, <2>2 DEF Typed, BookOK
  <2>4. {t \in ledger : t.type = "credit" /\ t.ref = x /\ ~t.deleted} = Credits(x)
    BY DEF Credits
  <2> QED BY <1>4, <2>1, <2>2, <2>3, <2>4
<1>9. CASE CommitCorrect(s, c)
  <2> DEFINE found == tx[s].found
             K == SoftDeleted(s)
  <2>1. PICK y \in Req, res \in Result :
           /\ y = c.ref /\ tx[s].won \in Won
           /\ results' = [results EXCEPT ![y] = res]
           /\ ledger' = SoftDeleted(s) \cup CreditRows(s, y, tx[s].won)
    BY <1>9, CorrectFacts
  <2>2. InFlight(s) /\ c.op = "correct"
    BY <1>2, <1>9 DEF CommitCorrect, InFlight
  <2>3. y # x
    <3>1. Settling(s, results[y].game) /\ results[y].game \in Game
      BY <2>1, <2>2, SettlingSome
    <3>2. Settling(r, results[x].game)
      BY SettlingSome
    <3> QED BY <3>1, <3>2 DEF Undisturbed
  <2>4. results'[x] = results[x]
    BY <1>1, <2>1, <2>3 DEF Typed, BookOK
  <2>5. \A t \in found : t.ref = y
    BY <1>2, <2>1, <2>2 DEF Undisturbed, Credits
  <2>6. K = {[t EXCEPT !.deleted = @ \/ t \in found] : t \in ledger}
    BY DEF SoftDeleted
  <2> HIDE DEF found, K
  <2>7. ASSUME NEW t \in ledger
        PROVE  LET m == [t EXCEPT !.deleted = @ \/ t \in found] IN
               /\ m.type = t.type /\ m.ref = t.ref
               /\ t.ref = x => m = t
    <3>1. t \in Entry
      BY DEF Typed, LedgerOK
    <3> QED BY <2>3, <2>5, <3>1 DEF Entry
  <2>8. {t \in K : t.type = "credit" /\ t.ref = x /\ ~t.deleted} = Credits(x)
    <3>1. ASSUME NEW m \in K, m.type = "credit", m.ref = x, ~m.deleted PROVE m \in Credits(x)
      <4>1. PICK t \in ledger : m = [t EXCEPT !.deleted = @ \/ t \in found]
        BY <2>6
      <4>2. t.type = "credit" /\ t.ref = x /\ m = t
        BY <2>7, <3>1, <4>1
      <4> QED BY <3>1, <4>2 DEF Credits
    <3>2. \A t \in Credits(x) : t \in K /\ t.type = "credit" /\ t.ref = x /\ ~t.deleted
      <4> SUFFICES ASSUME NEW t \in Credits(x) PROVE t \in K
        BY DEF Credits
      <4>1. t \in ledger /\ t.ref = x
        BY DEF Credits
      <4> QED BY <2>6, <2>7, <4>1
    <3> QED BY <3>1, <3>2
  <2> QED BY <1>4, <2>1, <2>3, <2>4, <2>8 DEF K
<1> QED BY <1>5, <1>6, <1>7, <1>8, <1>9 DEF Commit

\* At first no settlement is in flight.
LEMMA UndisturbedInit == OneSettlementPerGame /\ RInit => Undisturbed
BY DEF RInit, Undisturbed, Settling, InFlight

\* Every step leaves what a settlement has found alone.
LEMMA UndisturbedNext ==
  ASSUME Typed, Undisturbed, [RNext]_vars PROVE Undisturbed'
<1>0. OneSettlementPerGame
  BY DEF Undisturbed
<1> DEFINE Same(r) == /\ tx'[r] = tx[r] /\ Credits(call[r].ref)' = Credits(call[r].ref)
                      /\ results'[call[r].ref] = results[call[r].ref]
           Holds(r) == /\ pc[r] \in {"rescore", "commit"} /\ call[r].op = "correct" =>
                            tx[r].found = Credits(call[r].ref)
                       /\ pc[r] = "commit" /\ call[r].op = "correct" =>
                            tx[r].loaded = results[call[r].ref]
<1>1. \A r \in Req : Holds(r)
  BY DEF Undisturbed
<1>2. ASSUME \A r \in Req : InFlight(r)' => InFlight(r) /\ call'[r] = call[r]
      PROVE  \A r, s \in Req, g \in Game : Settling(r, g)' /\ Settling(s, g)' => r = s
  <2>1. \A r \in Req, g \in Game : Settling(r, g)' => Settling(r, g)
    BY <1>2, SettlingKept DEF Settling
  <2> QED BY <2>1 DEF Undisturbed
<1>3. ASSUME ledger' = ledger, results' = results,
             NEW r \in Req, pc'[r] = pc[r], call'[r] = call[r], tx'[r] = tx[r]
      PROVE  Holds(r)'
  BY <1>1, <1>3 DEF Credits
<1>4. ASSUME NEW r \in Req, ~InFlight(r)' \/ pc'[r] \in {"bets", "credits"} \/ call'[r].op # "correct"
      PROVE  Holds(r)'
  BY <1>4 DEF InFlight
<1>10. CASE UNCHANGED vars
  <2>1. /\ ledger' = ledger /\ results' = results /\ pc' = pc /\ call' = call /\ tx' = tx
    BY <1>10 DEF vars, store
  <2>2. \A r \in Req : Holds(r)'
    <3> HIDE DEF Holds
    <3> QED BY <2>1, <1>3
  <2>3. \A r, s \in Req, g \in Game : Settling(r, g)' /\ Settling(s, g)' => r = s
    BY <2>1, <1>2 DEF InFlight
  <2> QED BY <1>0, <2>2, <2>3 DEF Undisturbed
<1>11. CASE \E r \in Req : Commit(r)
  <2>1. PICK r \in Req : Commit(r)
    BY <1>11
  <2>2. /\ pc' = [pc EXCEPT ![r] = "done"] /\ call' = call /\ tx' = [tx EXCEPT ![r] = NoTx]
    BY <2>1 DEF Commit, Goto
  <2>3. ~InFlight(r)' /\ \A s \in Req : s # r => pc'[s] = pc[s] /\ tx'[s] = tx[s]
    BY <2>2 DEF InFlight, Typed, RequestsOK, TxOK
  <2>4. \A s \in Req : InFlight(s)' => InFlight(s) /\ call'[s] = call[s]
    BY <2>2, <2>3 DEF InFlight
  <2>5. ASSUME NEW s \in Req PROVE Holds(s)'
    <3>1. CASE InFlight(s)' /\ call[s].op = "correct"
      <4>1. s # r /\ InFlight(s)
        BY <2>3, <2>4, <3>1
      <4> DEFINE x == call[s].ref
      <4>2. \A y : y = x => Credits(y)' = Credits(y) /\ results'[y] = results[y]
        BY <2>1, <3>1, <4>1, CreditsKept
      <4>3. Credits(x)' = Credits(x) /\ results'[x] = results[x] /\ x' = x
        BY <2>2, <4>2 DEF Credits
      <4> QED BY <1>1, <2>2, <2>3, <4>1, <4>3
    <3>2. CASE ~(InFlight(s)' /\ call[s].op = "correct")
      <4> HIDE DEF Holds
      <4> QED BY <1>4, <2>2, <3>2
    <3> QED BY <3>1, <3>2
  <2>6. \A s, o \in Req, g \in Game : Settling(s, g)' /\ Settling(o, g)' => s = o
    BY <1>2, <2>4
  <2> QED BY <1>0, <2>5, <2>6 DEF Undisturbed
<1>12. CASE \E r \in Req : Start(r)
  <2>1. PICK r \in Req : Start(r)
    BY <1>12
  <2>2. PICK c \in Calls[r] :
          /\ call' = [call EXCEPT ![r] = c] /\ pc' = [pc EXCEPT ![r] = FirstStep(c)]
          /\ c.op = "declare" => MaySettle(c.game)
          /\ c.op = "correct" => MaySettle(results[c.ref].game)
    BY <2>1 DEF Start, Goto
  <2>3. tx' = tx /\ ledger' = ledger /\ results' = results
    BY <2>1 DEF Start, store
  <2>4. /\ call'[r] = c /\ pc'[r] = FirstStep(c)
        /\ \A s \in Req : s # r => call'[s] = call[s] /\ pc'[s] = pc[s]
    BY <2>2 DEF Typed, RequestsOK
  <2>5. ASSUME NEW s \in Req PROVE Holds(s)'
    <3>1. CASE s # r
      <4> HIDE DEF Holds
      <4> QED BY <1>3, <2>3, <2>4, <3>1
    <3>2. CASE s = r
      <4>1. pc'[s] = "credits" \/ call'[s].op # "correct"
        BY <2>4, <3>2 DEF FirstStep
      <4> HIDE DEF Holds
      <4> QED BY <1>4, <4>1
    <3> QED BY <3>1, <3>2
  <2>6. \A s \in Req, g \in Game : s # r => (Settling(s, g)' <=> Settling(s, g))
    BY <2>3, <2>4 DEF Settling, InFlight
  <2>7. \A g \in Game : Settling(r, g)' => \A s \in Req : ~Settling(s, g)
    BY <1>0, <2>2, <2>3, <2>4 DEF Settling, MaySettle
  <2>8. \A s, o \in Req, g \in Game : Settling(s, g)' /\ Settling(o, g)' => s = o
    BY <2>6, <2>7 DEF Undisturbed
  <2> QED BY <1>0, <2>5, <2>8 DEF Undisturbed
<1>13. ASSUME NEW r \in Req, FindBets(r) \/ FindCredits(r) \/ Rescore(r) \/ Fail(r)
       PROVE  Undisturbed'
  <2>1. /\ ledger' = ledger /\ results' = results /\ call' = call /\ InFlight(r)
        /\ \A s \in Req : s # r => pc'[s] = pc[s] /\ tx'[s] = tx[s]
    BY <1>13 DEF FindBets, FindCredits, Rescore, Fail, Goto, store, InFlight, Typed, RequestsOK, TxOK
  <2>2. \A s \in Req : InFlight(s)' => InFlight(s) /\ call'[s] = call[s]
    BY <2>1 DEF InFlight
  <2>3. Holds(r)'
    <3>0. tx \in [Req -> Reads] /\ pc \in [Req -> Step]
      BY DEF Typed, TxOK, RequestsOK
    <3>1. CASE FindBets(r)
      <4>1. call'[r].op # "correct"
        BY <2>1, <3>1 DEF FindBets, Typed, RequestsOK
      <4> HIDE DEF Holds
      <4> QED BY <1>4, <4>1
    <3>2. CASE FindCredits(r)
      <4>1. tx'[r].found = Credits(call[r].ref) /\ pc'[r] = "rescore"
        BY <3>0, <3>2 DEF FindCredits, Goto, Credits, Reads
      <4> QED BY <2>1, <4>1 DEF Credits
    <3>3. CASE Rescore(r)
      <4>1. /\ pc[r] = "rescore" /\ call[r].op = "correct"
            /\ tx'[r].found = tx[r].found /\ tx'[r].loaded = results[call[r].ref]
        BY <3>0, <3>3 DEF Rescore, Reads, Typed, RequestsOK
      <4> QED BY <1>1, <2>1, <4>1 DEF Credits
    <3>4. CASE Fail(r)
      <4>1. ~InFlight(r)'
        BY <3>0, <3>4 DEF Fail, Goto, InFlight
      <4> HIDE DEF Holds
      <4> QED BY <1>4, <4>1
    <3> QED BY <1>13, <3>1, <3>2, <3>3, <3>4
  <2>4. ASSUME NEW s \in Req, s # r PROVE Holds(s)'
    <3> HIDE DEF Holds
    <3> QED BY <1>3, <2>1, <2>4
  <2>5. \A s, o \in Req, g \in Game : Settling(s, g)' /\ Settling(o, g)' => s = o
    BY <1>2, <2>2
  <2>6. \A s \in Req : Holds(s)'
    <3> HIDE DEF Holds
    <3> QED BY <2>3, <2>4
  <2> QED BY <1>0, <2>5, <2>6 DEF Undisturbed
<1>14. ASSUME NEW r \in Req, Ask(r) \/ Reject(r) \/ ReadPage(r) \/ Count(r) \/ ReadNumbers(r) \/ Show(r)
       PROVE  Undisturbed'
  <2>1. /\ ledger' = ledger /\ results' = results /\ tx' = tx /\ ~InFlight(r)'
        /\ \A s \in Req : s # r => pc'[s] = pc[s] /\ call'[s] = call[s]
    BY <1>14 DEF Ask, Reject, ReadPage, Count, ReadNumbers, Show, Goto, AfterCount, store,
                 InFlight, Typed, RequestsOK
  <2>2. \A s \in Req : InFlight(s)' => InFlight(s) /\ call'[s] = call[s]
    BY <2>1 DEF InFlight
  <2>3. ASSUME NEW s \in Req PROVE Holds(s)'
    <3> HIDE DEF Holds
    <3> QED BY <1>3, <1>4, <2>1
  <2>4. \A s, o \in Req, g \in Game : Settling(s, g)' /\ Settling(o, g)' => s = o
    BY <1>2, <2>2
  <2> QED BY <1>0, <2>3, <2>4 DEF Undisturbed
<1> QED BY <1>10, <1>11, <1>12, <1>13, <1>14 DEF RNext

\* With one settlement per game at a time, settlements never disturb each other.
LEMMA UndisturbedInvariance == OneSettlementPerGame /\ RSpec => []Undisturbed
<1>1. Typed /\ Undisturbed /\ [RNext]_vars => Undisturbed'
  BY UndisturbedNext
<1> QED BY <1>1, UndisturbedInit, TypedInvariance, PTL DEF RSpec

-----------------------------------------------------------------------------
(* What the ledger is worth *)

\* What a row adds to the balance of its user.
Amt == [t \in Entry |-> Sign(t)]

Worth(S) == SumFunctionOnSet(Amt, S)

\* The rows of a user, and the credits of a result to a user, among all rows.
Of(u)         == {t \in Entry : t.user = u}
Awarded(x, u) == {t \in Entry : t.user = u /\ t.type = "credit" /\ t.ref = x}

LiveRows == {t \in ledger : ~t.deleted}

\* What a row counts for: its amount, or less its amount.
LEMMA AmtTyped ==
  ASSUME NEW t \in Entry
  PROVE  /\ Amt[t] = Sign(t) /\ Amt[t] \in Int
         /\ t.type \in {"topup", "credit"} => Amt[t] = t.amount
         /\ t.type \notin {"topup", "credit"} => Amt[t] = -t.amount
BY DEF Amt, Sign, Entry

\* Finitely many rows are worth an integer.
LEMMA WorthInt ==
  ASSUME NEW S, IsFiniteSet(S), S \subseteq Entry
  PROVE  Worth(S) \in Int
<1>1. \A t \in S : Amt[t] \in Int
  BY AmtTyped
<1> QED BY <1>1, SumInt DEF Worth

\* Rows taken together are worth what they are worth apart.
LEMMA WorthJoined ==
  ASSUME NEW S, IsFiniteSet(S), S \subseteq Entry, NEW T, IsFiniteSet(T), T \subseteq Entry,
         S \cap T = {}
  PROVE  Worth(S \cup T) = Worth(S) + Worth(T) /\ Worth(S) \in Int /\ Worth(T) \in Int
<1>1. \A t \in S \cup T : Amt[t] \in Int
  BY AmtTyped
<1>2. Worth(S \cup T) = Worth(S) + Worth(T)
  BY <1>1, SumUnion DEF Worth
<1> QED BY <1>2, WorthInt

\* Rows of a set Z when the rows D are taken away, and the rows N added.
LEMMA WorthStep ==
  ASSUME NEW A, IsFiniteSet(A), A \subseteq Entry, NEW D, D \subseteq A,
         NEW N, IsFiniteSet(N), N \subseteq Entry, N \cap A = {}, NEW Z
  PROVE  /\ Worth(Z \cap ((A \ D) \cup N)) = Worth(Z \cap A) - Worth(Z \cap D) + Worth(Z \cap N)
         /\ Worth(Z \cap A) \in Int /\ Worth(Z \cap D) \in Int /\ Worth(Z \cap N) \in Int
<1> DEFINE d == Z \cap D  k == Z \cap (A \ D)  n == Z \cap N
<1>1. IsFiniteSet(d) /\ IsFiniteSet(k) /\ IsFiniteSet(n)
  <2>1. IsFiniteSet(D) /\ IsFiniteSet(A \ D)
    BY FS_Subset
  <2> QED BY <2>1, FS_Subset
<1>2. d \subseteq Entry /\ k \subseteq Entry /\ n \subseteq Entry /\ d \cap k = {} /\ k \cap n = {}
  OBVIOUS
<1>3. Z \cap A = d \cup k /\ Z \cap ((A \ D) \cup N) = k \cup n
  OBVIOUS
<1> HIDE DEF d, k, n
<1>4. Worth(d \cup k) = Worth(d) + Worth(k) /\ Worth(d) \in Int /\ Worth(k) \in Int
  BY <1>1, <1>2, WorthJoined
<1>5. Worth(k \cup n) = Worth(k) + Worth(n) /\ Worth(n) \in Int
  BY <1>1, <1>2, WorthJoined
<1> DEFINE before == Worth(Z \cap A)  after == Worth(Z \cap ((A \ D) \cup N))
           wd == Worth(d)  wk == Worth(k)  wn == Worth(n)
<1>6. /\ before = wd + wk /\ after = wk + wn
      /\ wd \in Int /\ wk \in Int /\ wn \in Int
  BY <1>3, <1>4, <1>5
<1> HIDE DEF before, after, wd, wk, wn
<1>7. after = before - wd + wn /\ before \in Int
  BY <1>6
<1> QED BY <1>6, <1>7 DEF before, after, wd, wn, d, n

\* No row is worth nothing.
LEMMA WorthNone == Worth({}) = 0
BY SumEmpty DEF Worth

\* A row is worth what it counts for.
LEMMA WorthRow ==
  ASSUME NEW t \in Entry
  PROVE  Worth({t}) = Amt[t]
<1>1. IsFiniteSet({}) /\ {} \cup {t} = {t}
  BY FS_EmptySet
<1>2. \A x \in {} \cup {t} : Amt[x] \in Int
  BY AmtTyped
<1>3. SumFunctionOnSet(Amt, {} \cup {t}) = Amt[t] + SumFunctionOnSet(Amt, {})
  BY <1>1, <1>2, SumAdd
<1> QED BY <1>1, <1>3, SumEmpty, AmtTyped DEF Worth

\* What is among the rows of a settlement, for one user.
LEMMA WorthAwarded ==
  ASSUME NEW r \in Req, NEW x \in Req, NEW won \in Won, NEW u \in User
  PROVE  /\ Worth(Of(u) \cap CreditRows(r, x, won)) = won[u].amount
         /\ Worth(Awarded(x, u) \cap CreditRows(r, x, won)) = won[u].amount
         /\ \A y \in Req \ {x} : Awarded(y, u) \cap CreditRows(r, x, won) = {}
<1> DEFINE row == CreditRow(r, u, x, won[u].amount)
           C == CreditRows(r, x, won)
<1>1. \A v \in User : won[v].amount \in Nat
  BY DEF Won
<1>2. C = {CreditRow(r, v, x, won[v].amount) : v \in {v \in User : won[v].amount > 0}}
  BY CreditRowsAre
<1>3. \A v \in User : LET t == CreditRow(r, v, x, won[v].amount) IN
        t \in Entry /\ t.user = v /\ t.type = "credit" /\ t.ref = x /\ t.amount = won[v].amount
  BY <1>1 DEF CreditRow, Entry, Type
<1>4. \A y \in Req \ {x} : Awarded(y, u) \cap C = {}
  BY <1>2, <1>3 DEF Awarded
<1>5. Of(u) \cap C = Awarded(x, u) \cap C
  BY <1>2, <1>3 DEF Awarded, Of
<1>6. CASE won[u].amount = 0
  <2>1. Of(u) \cap C = {}
    BY <1>2, <1>3, <1>6 DEF Of
  <2> HIDE DEF C
  <2> QED BY <1>4, <1>5, <1>6, <2>1, WorthNone DEF C
<1>7. CASE won[u].amount > 0
  <2>1. row \in C /\ row \in Of(u)
    BY <1>2, <1>3, <1>7 DEF Of
  <2>2. \A t \in Of(u) \cap C : t = row
    BY <1>2, <1>3 DEF Of
  <2>3. Of(u) \cap C = {row}
    BY <2>1, <2>2
  <2>4. row \in Entry /\ row.type = "credit" /\ row.amount = won[u].amount
    BY <1>3
  <2> HIDE DEF C, row
  <2>5. Worth({row}) = won[u].amount
    BY <2>4, WorthRow, AmtTyped
  <2> QED BY <1>4, <1>5, <2>3, <2>5 DEF C
<1> QED BY <1>1, <1>6, <1>7

\* The balances, and the winners of each result, agree with the live rows.
MoneyOK ==
  \A u \in User :
    /\ balance[u] = (IF Opening[u] = None THEN 0 ELSE Opening[u]) + Worth(Of(u) \cap LiveRows)
    /\ \A x \in Req : Worth(Awarded(x, u) \cap LiveRows)
                        = IF results[x] = None THEN 0 ELSE results[x].winners[u].amount

\* What a step does to the live rows, and to what they are worth.
LiveStep(D, N) ==
  /\ D \subseteq LiveRows /\ IsFiniteSet(N) /\ N \subseteq Entry /\ N \cap LiveRows = {}
  /\ LiveRows' = (LiveRows \ D) \cup N

\* The live rows are finitely many rows of the ledger.
LEMMA LiveTyped ==
  ASSUME Typed
  PROVE  IsFiniteSet(LiveRows) /\ LiveRows \subseteq Entry
BY FS_Subset DEF Typed, LedgerOK, LiveRows

\* The worth of live rows, when a commit takes some away and adds others.
LEMMA LiveWorth ==
  ASSUME Typed, NEW D, NEW N, LiveStep(D, N), NEW Z
  PROVE  /\ Worth(Z \cap LiveRows') = Worth(Z \cap LiveRows) - Worth(Z \cap D) + Worth(Z \cap N)
         /\ Worth(Z \cap LiveRows) \in Int /\ Worth(Z \cap D) \in Int /\ Worth(Z \cap N) \in Int
<1> DEFINE A == LiveRows
<1>1. /\ IsFiniteSet(A) /\ A \subseteq Entry /\ D \subseteq A
      /\ IsFiniteSet(N) /\ N \subseteq Entry /\ N \cap A = {}
      /\ LiveRows' = (A \ D) \cup N
  BY LiveTyped DEF LiveStep
<1> HIDE DEF A
<1>2. /\ Worth(Z \cap ((A \ D) \cup N)) = Worth(Z \cap A) - Worth(Z \cap D) + Worth(Z \cap N)
      /\ Worth(Z \cap A) \in Int /\ Worth(Z \cap D) \in Int /\ Worth(Z \cap N) \in Int
  BY <1>1, WorthStep
<1> QED BY <1>1, <1>2 DEF A

\* The rows a committing request adds are new.
LEMMA AddedNew ==
  ASSUME Typed, NEW r \in Req, pc[r] = "commit", NEW N, Added(N, r)
  PROVE  IsFiniteSet(N) /\ N \subseteq Entry /\ N \cap LiveRows = {}
BY DEF Added, Typed, LedgerOK, LiveRows

\* Rows that are only added.
LEMMA LiveAdded ==
  ASSUME Typed, NEW r \in Req, pc[r] = "commit", NEW N, Added(N, r), ledger' = ledger \cup N
  PROVE  LiveStep({}, N)
<1>1. \A t \in N : ~t.deleted
  BY DEF Added
<1>2. LiveRows' = LiveRows \cup N
  BY <1>1 DEF LiveRows
<1> QED BY <1>2, AddedNew DEF LiveStep

\* A correction takes the rows it has found away, those still live.
LEMMA LiveCorrected ==
  ASSUME Typed, NEW r \in Req, pc[r] = "commit", NEW N, Added(N, r),
         ledger' = SoftDeleted(r) \cup N
  PROVE  LiveStep({t \in LiveRows : t \in tx[r].found}, N)
<1> DEFINE found == tx[r].found
           mark(t) == [t EXCEPT !.deleted = @ \/ t \in found]
           D == {t \in LiveRows : t \in found}
<1>2. SoftDeleted(r) = {mark(t) : t \in ledger}
  BY DEF SoftDeleted
<1> HIDE DEF found
<1>1. ASSUME NEW t \in ledger
      PROVE  /\ mark(t).deleted <=> t.deleted \/ t \in found
             /\ ~t.deleted /\ t \notin found => mark(t) = t
  <2>1. t \in Entry
    BY DEF Typed, LedgerOK
  <2> QED BY <2>1 DEF Entry
<1>3. \A t \in N : ~t.deleted
  BY DEF Added
<1> HIDE DEF mark
<1>4. {m \in SoftDeleted(r) : ~m.deleted} = LiveRows \ D
  BY <1>1, <1>2 DEF LiveRows
<1>5. LiveRows' = (LiveRows \ D) \cup N
  BY <1>3, <1>4 DEF LiveRows
<1> QED BY <1>5, AddedNew DEF LiveStep, found

\* The commits that write one row, for one user.
LEMMA RowMoney ==
  ASSUME Typed, MoneyOK, NEW r \in Req, pc[r] = "commit",
         NEW v \in User, NEW type \in Type \ {"credit"}, NEW a \in Nat,
         call[r].op \notin {"declare", "correct"},
         ledger' = ledger \cup {Row(r, v, type, a)}, results' = results,
         balance' = [balance EXCEPT ![v] = @ + (IF type = "topup" THEN a ELSE -a)]
  PROVE  MoneyOK'
<1> DEFINE row == Row(r, v, type, a)
           N == {row}
<1>1. row \in Entry /\ row.by = r /\ ~row.deleted /\ row.type = type /\ row.amount = a /\ row.user = v
  BY DEF Row, Entry, Type
<1>2. Added(N, r)
  <2> HIDE DEF row
  <2> QED BY <1>1, FS_Singleton DEF Added
<1>3. LiveStep({}, N)
  BY <1>2, LiveAdded
<1> HIDE DEF row, N
<1>4. Worth(N) = IF type = "topup" THEN a ELSE -a
  BY <1>1, WorthRow, AmtTyped DEF N
<1>5. ASSUME NEW u \in User
      PROVE  /\ balance'[u] = (IF Opening[u] = None THEN 0 ELSE Opening[u]) + Worth(Of(u) \cap LiveRows')
             /\ \A x \in Req : Worth(Awarded(x, u) \cap LiveRows')
                                 = IF results'[x] = None THEN 0 ELSE results'[x].winners[u].amount
  <2> DEFINE z == Of(u)
             open == IF Opening[u] = None THEN 0 ELSE Opening[u]
  <2>0. open \in Int
    BY ReportsAssumption
  <2> HIDE DEF z, open
  <2>1. /\ Worth(z \cap LiveRows') = Worth(z \cap LiveRows) - Worth(z \cap {}) + Worth(z \cap N)
        /\ Worth(z \cap LiveRows) \in Int /\ Worth(z \cap N) \in Int
    BY <1>3, LiveWorth
  <2>2. Worth(z \cap {}) = 0
    <3>1. z \cap {} = {}
      OBVIOUS
    <3> QED BY <3>1, WorthNone
  <2>3. Worth(z \cap N) = IF u = v THEN Worth(N) ELSE 0
    <3>1. z \cap N = IF u = v THEN N ELSE {}
      BY <1>1 DEF z, Of, N
    <3> QED BY <3>1, WorthNone
  <2>4. balance[u] = open + Worth(z \cap LiveRows) /\ balance \in [User -> Int]
    BY DEF MoneyOK, z, open, Typed, BookOK
  <2>5. balance'[u] = open + Worth(z \cap LiveRows')
    <3> DEFINE w == Worth(z \cap LiveRows)  w1 == Worth(z \cap LiveRows')  wn == Worth(z \cap N)
    <3>1. /\ w1 = w + wn /\ w \in Int
          /\ wn = IF u = v THEN (IF type = "topup" THEN a ELSE -a) ELSE 0
      BY <1>4, <2>1, <2>2, <2>3
    <3>2. balance[u] = open + w /\ balance \in [User -> Int]
      BY <2>4
    <3> HIDE DEF w, w1, wn
    <3>3. balance'[u] = open + w1
      BY <2>0, <3>1, <3>2
    <3> QED BY <3>3 DEF w1
  <2>6. ASSUME NEW x \in Req
        PROVE  Worth(Awarded(x, u) \cap LiveRows') = Worth(Awarded(x, u) \cap LiveRows)
    <3>1. Awarded(x, u) \cap N = {} /\ Awarded(x, u) \cap {} = {}
      BY <1>1 DEF Awarded, N
    <3> DEFINE y == Awarded(x, u)
    <3> HIDE DEF y
    <3>2. /\ Worth(y \cap LiveRows') = Worth(y \cap LiveRows) - Worth(y \cap {}) + Worth(y \cap N)
          /\ Worth(y \cap LiveRows) \in Int
      BY <1>3, LiveWorth
    <3>3. Worth(y \cap {}) = 0 /\ Worth(y \cap N) = 0
      BY <3>1, WorthNone DEF y
    <3> QED BY <3>2, <3>3 DEF y
  <2> QED BY <2>5, <2>6 DEF MoneyOK, z, open
<1> QED BY <1>5 DEF MoneyOK

\* The commits of a result: what was awarded before is taken back, and what
\* its winners get is added, both to the balances and to the live rows.
Settled(r, x, won, D, old) ==
  /\ LiveStep(D, CreditRows(r, x, won))
  /\ \A u \in User : /\ Worth(Of(u) \cap D) = old[u]
                     /\ Worth(Awarded(x, u) \cap D) = old[u]
                     /\ Worth(Awarded(x, u) \cap LiveRows) = old[u]
  /\ \A u \in User : \A y \in Req \ {x} : Awarded(y, u) \cap D = {}
  /\ \A u \in User : balance'[u] = balance[u] - old[u] + won[u].amount
  /\ results'[x] # None /\ results'[x].winners = won
  /\ \A y \in Req \ {x} : results'[y] = results[y]

\* A settlement moves each balance by the worth of the rows it takes and adds.
LEMMA SettleMoney ==
  ASSUME Typed, MoneyOK, NEW r \in Req, NEW x \in Req, NEW won \in Won, NEW D, NEW old,
         Settled(r, x, won, D, old)
  PROVE  MoneyOK'
<1> DEFINE N == CreditRows(r, x, won)
<1>1. \A u \in User : won[u].amount \in Nat
  BY DEF Won
<1>2. ASSUME NEW u \in User
      PROVE  /\ Worth(Of(u) \cap N) = won[u].amount
             /\ Worth(Awarded(x, u) \cap N) = won[u].amount
             /\ \A y \in Req \ {x} : Awarded(y, u) \cap N = {}
  BY WorthAwarded, Zenon
<1>3. LiveStep(D, N)
  BY DEF Settled
<1> HIDE DEF N
<1>4. ASSUME NEW Z
      PROVE  /\ Worth(Z \cap LiveRows') = Worth(Z \cap LiveRows) - Worth(Z \cap D) + Worth(Z \cap N)
             /\ Worth(Z \cap LiveRows) \in Int /\ Worth(Z \cap D) \in Int /\ Worth(Z \cap N) \in Int
  BY <1>3, LiveWorth
<1>5. ASSUME NEW u \in User
      PROVE  balance'[u] = (IF Opening[u] = None THEN 0 ELSE Opening[u]) + Worth(Of(u) \cap LiveRows')
  <2> DEFINE z == Of(u)  a == won[u].amount
             open == IF Opening[u] = None THEN 0 ELSE Opening[u]
             w == Worth(z \cap LiveRows)  w1 == Worth(z \cap LiveRows')
             wd == Worth(z \cap D)  wn == Worth(z \cap N)
  <2>1. open \in Int
    BY ReportsAssumption
  <2>2. w1 = w - wd + wn /\ w \in Int /\ wd \in Int /\ wn \in Int
    <3> HIDE DEF z
    <3> QED BY <1>4
  <2>3. wn = a /\ wd = old[u]
    BY <1>2 DEF Settled
  <2>4. balance[u] = open + w
    BY DEF MoneyOK
  <2> HIDE DEF z, a, open, w, w1, wd, wn
  <2>5. balance'[u] = balance[u] - old[u] + a
    BY DEF a, Settled
  <2>6. balance'[u] = open + w1
    BY <2>1, <2>2, <2>3, <2>4, <2>5
  <2> QED BY <2>6 DEF open, w1, z
<1>6. ASSUME NEW u \in User, NEW y \in Req
      PROVE  Worth(Awarded(y, u) \cap LiveRows')
               = IF results'[y] = None THEN 0 ELSE results'[y].winners[u].amount
  <2> DEFINE z == Awarded(y, u)
             w == Worth(z \cap LiveRows)  w1 == Worth(z \cap LiveRows')
             wd == Worth(z \cap D)  wn == Worth(z \cap N)
  <2>1. w1 = w - wd + wn /\ w \in Int /\ wd \in Int /\ wn \in Int
    <3> HIDE DEF z
    <3> QED BY <1>4
  <2>2. CASE y = x
    <3>0. results'[y] # None /\ results'[y].winners = won
      BY <2>2 DEF Settled
    <3>1. wn = won[u].amount /\ wd = old[u] /\ w = old[u]
      BY <1>2, <2>2 DEF Settled
    <3> HIDE DEF z, w, w1, wd, wn
    <3>2. w1 = won[u].amount
      BY <1>1, <2>1, <3>1
    <3> QED BY <3>0, <3>2 DEF w1, z
  <2>3. CASE y # x
    <3>0. results'[y] = results[y]
      BY <2>3 DEF Settled
    <3>1. z \cap N = {} /\ z \cap D = {}
      BY <1>2, <2>3 DEF Settled
    <3>2. w = IF results[y] = None THEN 0 ELSE results[y].winners[u].amount
      BY DEF MoneyOK
    <3>3. wn = 0 /\ wd = 0
      BY <3>1, WorthNone
    <3> HIDE DEF z, w, w1, wd, wn
    <3>4. w1 = w
      BY <2>1, <3>3
    <3> QED BY <3>0, <3>2, <3>4 DEF w1, z
  <2> QED BY <2>2, <2>3
<1> QED BY <1>5, <1>6 DEF MoneyOK

\* A declaration keeps the balances explained.
LEMMA DeclareMoney ==
  ASSUME Typed, MoneyOK, NEW r \in Req, Commit(r), CommitDeclare(r, call[r])
  PROVE  MoneyOK'
<1>1. pc[r] = "commit" /\ call[r].op = "declare"
  BY DEF Commit, CommitDeclare
<1>2. PICK won, res :
           /\ won \in Won /\ res \in Result /\ res.winners = won /\ results[r] = None
           /\ results' = [results EXCEPT ![r] = res]
           /\ balance' = [u \in User |-> balance[u] + won[u].amount]
           /\ ledger' = ledger \cup CreditRows(r, r, won)
  BY DeclareFacts
<1> DEFINE N == CreditRows(r, r, won)
           none == {}
           old == [u \in User |-> 0]
<1>3. Added(N, r)
  BY <1>1, <1>2, CreditRowsAdded
<1>4. LiveStep(none, N)
  <2> HIDE DEF N
  <2> QED BY <1>1, <1>2, <1>3, LiveAdded DEF N
<1>5. \A u \in User : /\ Worth(Of(u) \cap none) = old[u]
                      /\ Worth(Awarded(r, u) \cap none) = old[u]
                      /\ Worth(Awarded(r, u) \cap LiveRows) = old[u]
  <2>1. \A u \in User : Of(u) \cap none = {} /\ Awarded(r, u) \cap none = {}
    OBVIOUS
  <2>2. \A u \in User : Worth(Awarded(r, u) \cap LiveRows) = 0
    BY <1>2 DEF MoneyOK
  <2> QED BY <2>1, <2>2, WorthNone
<1>6. \A u \in User : balance'[u] = balance[u] - old[u] + won[u].amount
  BY <1>2 DEF Won, Typed, BookOK
<1>7. None \notin Result
  BY ReportsAssumption
<1>8. /\ results'[r] # None /\ results'[r].winners = won
      /\ \A y \in Req \ {r} : results'[y] = results[y]
  BY <1>2, <1>7 DEF Typed, BookOK
<1>9. \A u \in User : \A y \in Req \ {r} : Awarded(y, u) \cap none = {}
  OBVIOUS
<1> HIDE DEF none, old
<1>10. LiveStep(none, CreditRows(r, r, won)) /\ won \in Won
  BY <1>2, <1>4
<1>11. /\ results'[r] # None /\ results'[r].winners = won
  BY <1>8
<1>12. Settled(r, r, won, none, old)
  BY <1>5, <1>6, <1>8, <1>9, <1>10, <1>11 DEF Settled
<1> QED BY <1>10, <1>12, SettleMoney

\* A correction that nobody has disturbed keeps the balances explained.
LEMMA CorrectMoney ==
  ASSUME Typed, Undisturbed, MoneyOK, NEW r \in Req, Commit(r), CommitCorrect(r, call[r])
  PROVE  MoneyOK'
<1>1. pc[r] = "commit" /\ call[r].op = "correct"
  BY DEF Commit, CommitCorrect
<1> DEFINE won == tx[r].won
<1>2. PICK x \in Req, res \in Result :
           /\ x = call[r].ref /\ results[x] # None
           /\ tx[r].loaded = results[x] => res.winners = won
           /\ results' = [results EXCEPT ![x] = res] /\ won \in Won
           /\ balance' = [u \in User |-> balance[u] - Reversed(r, u) + won[u].amount]
           /\ ledger' = SoftDeleted(r) \cup CreditRows(r, x, won)
  BY CorrectFacts
<1>0. tx[r].found = Credits(x) /\ tx[r].loaded = results[x]
  BY <1>1, <1>2 DEF Undisturbed
<1> HIDE DEF won
<1> DEFINE N == CreditRows(r, x, won)
           D == {t \in LiveRows : t \in tx[r].found}
           old == [u \in User |-> results[x].winners[u].amount]
<1>3. Added(N, r)
  BY <1>1, <1>2, CreditRowsAdded
<1>4. LiveStep(D, N)
  <2> HIDE DEF N
  <2> QED BY <1>1, <1>2, <1>3, LiveCorrected DEF N
<1>5. D = {t \in LiveRows : t.type = "credit" /\ t.ref = x} /\ D = tx[r].found
  BY <1>0 DEF Credits, LiveRows
<1>6. \A u \in User : /\ Of(u) \cap D = Awarded(x, u) \cap LiveRows
                      /\ Awarded(x, u) \cap D = Awarded(x, u) \cap LiveRows
                      /\ Of(u) \cap D = {t \in tx[r].found : t.user = u}
                      /\ \A y \in Req \ {x} : Awarded(y, u) \cap D = {}
  BY <1>5, LiveTyped DEF Of, Awarded
<1>7. \A u \in User : Worth(Awarded(x, u) \cap LiveRows) = old[u]
  BY <1>2 DEF MoneyOK
<1> HIDE DEF old, D, N
<1>8. \A u \in User : Reversed(r, u) = old[u]
  <2> TAKE u \in User
  <2> DEFINE F == {t \in tx[r].found : t.user = u}
  <2>1. /\ IsFiniteSet(F) /\ F \subseteq Entry /\ \A t \in F : t.type = "credit"
        /\ Reversed(r, u) = SumFunctionOnSet(Gross, F)
    BY ReversedTyped
  <2>2. Worth(F) = old[u]
    BY <1>6, <1>7
  <2> HIDE DEF F
  <2>3. \A t \in F : Amt[t] = Gross[t]
    BY <2>1, AmtTyped DEF Gross
  <2>4. SumFunctionOnSet(Amt, F) = SumFunctionOnSet(Gross, F)
    BY <2>1, <2>3, SumSame
  <2> QED BY <2>1, <2>2, <2>4 DEF Worth
<1>9. \A u \in User : balance'[u] = balance[u] - old[u] + won[u].amount
  BY <1>2, <1>8
<1>10. None \notin Result
  BY ReportsAssumption
<1>11. (\A y \in Req \ {x} : results'[y] = results[y]) /\ results'[x] = res
  BY <1>2 DEF Typed, BookOK
<1>12. results'[x] # None /\ results'[x].winners = won
  BY <1>0, <1>2, <1>10, <1>11
<1>13. /\ \A u \in User : /\ Worth(Of(u) \cap D) = old[u]
                          /\ Worth(Awarded(x, u) \cap D) = old[u]
                          /\ Worth(Awarded(x, u) \cap LiveRows) = old[u]
       /\ \A u \in User : \A y \in Req \ {x} : Awarded(y, u) \cap D = {}
  BY <1>6, <1>7
<1>14. LiveStep(D, CreditRows(r, x, won))
  BY <1>4 DEF N
<1>15. Settled(r, x, won, D, old)
  BY <1>9, <1>11, <1>12, <1>13, <1>14 DEF Settled
<1> QED BY <1>2, <1>15, SettleMoney

\* At first the balances are those the wallets have opened with.
LEMMA MoneyInit == RInit => MoneyOK
<1> SUFFICES ASSUME RInit, NEW u \in User
             PROVE  /\ balance[u] = (IF Opening[u] = None THEN 0 ELSE Opening[u]) + Worth(Of(u) \cap LiveRows)
                    /\ \A x \in Req : Worth(Awarded(x, u) \cap LiveRows)
                          = IF results[x] = None THEN 0 ELSE results[x].winners[u].amount
  BY DEF MoneyOK
<1> DEFINE open == IF Opening[u] = None THEN 0 ELSE Opening[u]
<1>1. open \in Int
  BY ReportsAssumption
<1>2. /\ balance[u] = open /\ \A x \in Req : results[x] = None
  BY DEF RInit, Init
<1>3. LiveRows = {}
  BY DEF RInit, LiveRows
<1>4. Of(u) \cap LiveRows = {} /\ \A x \in Req : Awarded(x, u) \cap LiveRows = {}
  BY <1>3
<1> HIDE DEF open
<1>5. Worth(Of(u) \cap LiveRows) = 0 /\ \A x \in Req : Worth(Awarded(x, u) \cap LiveRows) = 0
  BY <1>4, WorthNone
<1>6. balance[u] = open + Worth(Of(u) \cap LiveRows)
  BY <1>1, <1>2, <1>5
<1> QED BY <1>2, <1>5, <1>6 DEF open

\* Every step keeps the balances explained.
LEMMA MoneyNext == Typed /\ Undisturbed /\ MoneyOK /\ [RNext]_vars => MoneyOK'
<1> SUFFICES ASSUME Typed, Undisturbed, MoneyOK, [RNext]_vars PROVE MoneyOK'
  OBVIOUS
<1>1. CASE ~\E r \in Req : Commit(r)
  <2>1. balance' = balance /\ results' = results /\ ledger' = ledger
    BY <1>1, Elsewhere DEF store
  <2>2. LiveRows' = LiveRows
    BY <2>1 DEF LiveRows
  <2> QED BY <2>1, <2>2 DEF MoneyOK
<1>2. ASSUME NEW r \in Req, Commit(r) PROVE MoneyOK'
  <2> DEFINE c == call[r]
  <2>1. pc[r] = "commit" /\ c \in CallSet
    BY <1>2 DEF Commit, Typed, RequestsOK
  <2>2. CASE CommitTopUp(r, c)
    <3>1. c.op = "topUp" /\ c.user \in User /\ c.amount \in Nat
      BY <2>1, <2>2, CallTypes, CostTyped DEF CommitTopUp
    <3>2. /\ ledger' = ledger \cup {Row(r, c.user, "topup", c.amount)} /\ results' = results
          /\ balance' = [balance EXCEPT ![c.user] = @ + c.amount]
      BY <2>2 DEF CommitTopUp, TopUp
    <3> HIDE DEF c
    <3>3. balance' = [balance EXCEPT ![c.user] = @ + (IF "topup" = "topup" THEN c.amount ELSE -c.amount)]
      BY <3>2
    <3> QED BY <2>1, <3>1, <3>2, <3>3, RowMoney DEF Type, c
  <2>3. CASE CommitWithdraw(r, c)
    <3>1. c.op = "withdraw" /\ c.user \in User /\ c.amount \in Nat
      BY <2>1, <2>3, CallTypes, CostTyped DEF CommitWithdraw
    <3>2. /\ ledger' = ledger \cup {Row(r, c.user, "withdraw", c.amount)} /\ results' = results
          /\ balance' = [balance EXCEPT ![c.user] = @ - c.amount]
      BY <2>3 DEF CommitWithdraw, Withdraw
    <3> HIDE DEF c
    <3>3. balance' = [balance EXCEPT ![c.user] = @ + (IF "withdraw" = "topup" THEN c.amount ELSE -c.amount)]
      BY <3>1, <3>2 DEF Typed, BookOK
    <3> QED BY <2>1, <3>1, <3>2, <3>3, RowMoney DEF Type, c
  <2>4. CASE CommitBet(r, c)
    <3> DEFINE cost == Total(c.slip)
    <3>1. c.op = "bet" /\ c.user \in User /\ c.slip \in Slip
      BY <2>1, <2>4, CallTypes DEF CommitBet
    <3>2. cost \in Nat
      BY <3>1, CostTyped
    <3>3. /\ ledger' = ledger \cup {Row(r, c.user, "bet_debit", cost)} /\ results' = results
          /\ balance' = [balance EXCEPT ![c.user] = @ - cost]
      BY <2>4 DEF CommitBet, PlaceBet
    <3> HIDE DEF c, cost
    <3>4. balance' = [balance EXCEPT ![c.user] = @ + (IF "bet_debit" = "topup" THEN cost ELSE -cost)]
      BY <3>1, <3>2, <3>3 DEF Typed, BookOK
    <3> QED BY <2>1, <3>1, <3>2, <3>3, <3>4, RowMoney DEF Type, c
  <2>5. CASE CommitDeclare(r, c)
    BY <1>2, <2>5, DeclareMoney
  <2>6. CASE CommitCorrect(r, c)
    BY <1>2, <2>6, CorrectMoney
  <2> QED BY <1>2, <2>2, <2>3, <2>4, <2>5, <2>6 DEF Commit
<1> QED BY <1>1, <1>2

\* With one settlement per game at a time, the live rows of a user always
\* explain his balance.
LEMMA MoneyInvariance == OneSettlementPerGame /\ RSpec => []MoneyOK
<1>1. OneSettlementPerGame /\ RSpec => []Undisturbed
  BY UndisturbedInvariance
<1> QED BY <1>1, TypedInvariance, MoneyInit, MoneyNext, PTL DEF RSpec

-----------------------------------------------------------------------------
(* Days *)

\* Quotient and remainder.
LEMMA Divided ==
  ASSUME NEW n \in Nat, NEW L \in Nat \ {0}
  PROVE  /\ n \div L \in Nat /\ n % L \in Nat /\ n % L < L
         /\ n = L * (n \div L) + (n % L)
OBVIOUS

\* A product does not decrease with its factors.
LEMMA Times ==
  ASSUME NEW a \in Int, NEW b \in Int, a <= b, NEW L \in Nat
  PROVE  a * L <= b * L /\ a * L \in Int /\ b * L \in Int
<1>1. b - a \in Nat
  OBVIOUS
<1>2. (b - a) * L \in Nat
  BY <1>1
<1>3. (b - a) * L = b * L - a * L
  OBVIOUS
<1>4. a * L \in Int /\ b * L \in Int
  OBVIOUS
<1> QED BY <1>2, <1>3, <1>4

\* The ticks of a day.
LEMMA DayOf ==
  ASSUME NEW n \in Nat, NEW d \in Nat, NEW L \in Nat \ {0}
  PROVE  n \div L = d <=> d * L <= n /\ n < (d + 1) * L
<1> DEFINE q == n \div L
           r == n % L
<1>1. q \in Nat /\ r \in Nat /\ r < L /\ n = q * L + r
  BY Divided
<1> HIDE DEF q, r
<1>2. (q + 1) * L = q * L + L /\ (d + 1) * L = d * L + L
  BY <1>1
<1>3. q * L \in Nat /\ d * L \in Nat
  BY <1>1
<1>4. CASE q = d
  BY <1>1, <1>2, <1>3, <1>4 DEF q
<1>5. CASE q < d
  <2>1. (q + 1) * L <= d * L
    BY <1>1, <1>5, Times
  <2> DEFINE a == (q + 1) * L  b == d * L  c == q * L  e == (d + 1) * L
  <2>2. a <= b /\ a = c + L /\ n = c + r /\ b \in Nat /\ c \in Nat
    BY <1>1, <1>2, <1>3, <2>1
  <2> HIDE DEF a, b, c, e
  <2>3. ~(b <= n)
    BY <1>1, <2>2
  <2> QED BY <1>5, <1>1, <2>3 DEF q, b
<1>6. CASE q > d
  <2>1. (d + 1) * L <= q * L
    BY <1>1, <1>6, Times
  <2> DEFINE c == q * L  e == (d + 1) * L
  <2>2. e <= c /\ n = c + r /\ c \in Nat /\ e \in Nat
    BY <1>1, <1>2, <1>3, <2>1
  <2> HIDE DEF c, e
  <2>3. ~(n < e)
    BY <1>1, <2>2
  <2> QED BY <1>6, <1>1, <2>3 DEF q, e
<1> QED BY <1>1, <1>4, <1>5, <1>6

\* The period of a day has all its ticks but the last one.
LEMMA LastTick ==
  ASSUME NEW n \in Nat, NEW L \in Nat \ {0, 1}, NEW d \in Nat
  PROVE  d * L <= n /\ n <= (d + 1) * L - 2 <=> n \div L = d /\ n % L # L - 1
<1> DEFINE q == n \div L
           r == n % L
           e == (d + 1) * L
           c == d * L
<1>1. q \in Nat /\ r \in Nat /\ r < L /\ n = q * L + r
  BY Divided
<1>2. q = d <=> c <= n /\ n < e
  BY DayOf
<1>3. e = c + L /\ c \in Nat /\ e \in Nat
  OBVIOUS
<1>4. q = d => n = c + r
  BY <1>1
<1> HIDE DEF q, r, e, c
<1>5. c <= n /\ n <= e - 2 <=> q = d /\ r # L - 1
  BY <1>1, <1>2, <1>3, <1>4
<1> QED BY <1>5 DEF q, r, e, c

\* An earlier tick is on no later day.
LEMMA DaysPass ==
  ASSUME NEW m \in Nat, NEW n \in Nat, m <= n, NEW L \in Nat \ {0}
  PROVE  m \div L \in 0..(n \div L)
<1> DEFINE p == m \div L
           q == n \div L
<1>1. p \in Nat /\ q \in Nat
  BY Divided
<1>2. SUFFICES ASSUME p > q PROVE FALSE
  BY <1>1
<1>3. n < (q + 1) * L /\ p * L <= m
  BY <1>1, DayOf
<1>4. (q + 1) * L <= p * L
  <2> HIDE DEF p, q
  <2> QED BY <1>1, <1>2, Times
<1> DEFINE a == (q + 1) * L
           b == p * L
<1>5. a \in Nat /\ b \in Nat
  BY <1>1
<1>6. n < a /\ b <= m /\ a <= b
  BY <1>3, <1>4
<1> HIDE DEF a, b
<1> QED BY <1>5, <1>6

-----------------------------------------------------------------------------
(* The summaries *)

\* A summary, netted, is what the rows it is about are worth.
LEMMA NetIsWorth ==
  ASSUME Typed, NEW c
  PROVE  Net(Summary(c)) = Worth(Transactions(c))
<1> DEFINE T == Transactions(c)
           Ty(y) == {t \in T : t.type = y}
           a == Ty("topup")  b == Ty("credit")  d == Ty("bet_debit")  e == Ty("withdraw")
           G(S) == SumFunctionOnSet(Gross, S)
<1>1. T \subseteq Entry /\ IsFiniteSet(T)
  <2>1. T \subseteq ledger
    BY DEF Transactions
  <2> HIDE DEF T
  <2> QED BY <2>1, FS_Subset DEF Typed, LedgerOK
<1> HIDE DEF T
<1>2. /\ a \subseteq Entry /\ b \subseteq Entry /\ d \subseteq Entry /\ e \subseteq Entry
      /\ IsFiniteSet(a) /\ IsFiniteSet(b) /\ IsFiniteSet(d) /\ IsFiniteSet(e)
  <2>1. a \subseteq T /\ b \subseteq T /\ d \subseteq T /\ e \subseteq T
    OBVIOUS
  <2> HIDE DEF a, b, d, e
  <2> QED BY <1>1, <2>1, FS_Subset
<1>3. T = ((a \cup b) \cup d) \cup e
  BY <1>1 DEF Entry, Type
<1>4. a \cap b = {} /\ (a \cup b) \cap d = {} /\ ((a \cup b) \cup d) \cap e = {}
  OBVIOUS
<1>5. ASSUME NEW y \in Type PROVE Summary(c)[y] = G(Ty(y))
  <2> DEFINE S == Ty(y)
  <2>1. Summary(c)[y] = MapThenSumSet(LAMBDA t : t.amount, S)
    BY DEF Summary, T
  <2>2. \A t \in S : Gross[t] = t.amount
    BY <1>1 DEF Gross
  <2> HIDE DEF S
  <2>3. MapThenSumSet(LAMBDA t : t.amount, S) = SumFunctionOnSet(Gross, S)
    BY <2>2, AmountsOver
  <2> QED BY <2>1, <2>3 DEF S
<1>6. /\ \A t \in a \cup b : Amt[t] = Gross[t] /\ Gross[t] \in Int
      /\ \A t \in d \cup e : Amt[t] = -Gross[t] /\ Gross[t] \in Int
  BY <1>1, AmtTyped DEF Gross, Entry
<1> HIDE DEF Ty
<1>7. /\ Summary(c)["topup"] = G(a) /\ Summary(c)["credit"] = G(b)
      /\ Summary(c)["bet_debit"] = G(d) /\ Summary(c)["withdraw"] = G(e)
  <2>1. "topup" \in Type /\ "credit" \in Type /\ "bet_debit" \in Type /\ "withdraw" \in Type
    BY DEF Type
  <2> QED BY <1>5, <2>1
<1> HIDE DEF a, b, d, e
<1>8. ASSUME NEW S, IsFiniteSet(S), \A t \in S : Amt[t] = Gross[t] PROVE Worth(S) = G(S)
  BY <1>8, SumSame DEF Worth
<1>9. ASSUME NEW S, IsFiniteSet(S), \A t \in S : Amt[t] = -Gross[t] /\ Gross[t] \in Int
      PROVE  Worth(S) = -G(S)
  <2> DEFINE m == -1
             n == 0
  <2>0. IsFiniteSet(S) /\ m \in Int /\ n \in Int
    BY <1>9
  <2>1. \A t \in S : /\ Gross[t] \in Int /\ Gross[t] \in Int
                    /\ Amt[t] = m * Gross[t] + n * Gross[t]
    BY <1>9
  <2>2. G(S) \in Int
    BY <1>9, SumInt
  <2> HIDE DEF m, n
  <2> DEFINE f == Gross
             h == Amt
  <2> HIDE DEF f, h
  <2>3. SumFunctionOnSet(h, S) = m * SumFunctionOnSet(f, S) + n * SumFunctionOnSet(f, S)
    <3>1. \A t \in S : f[t] \in Int /\ f[t] \in Int /\ h[t] = m * f[t] + n * f[t]
      BY <2>1 DEF f, h
    <3> QED BY <2>0, <3>1, SumCombined
  <2> HIDE DEF G
  <2>4. m * G(S) + n * G(S) = -G(S)
    BY <2>2 DEF m, n
  <2> QED BY <2>3, <2>4 DEF Worth, G, f, h
<1>10. Worth(a) = G(a) /\ Worth(b) = G(b) /\ Worth(d) = -G(d) /\ Worth(e) = -G(e)
  BY <1>2, <1>6, <1>8, <1>9
<1> HIDE DEF G
<1>11. Worth(a \cup b) = Worth(a) + Worth(b) /\ Worth(a) \in Int /\ Worth(b) \in Int
  BY <1>2, <1>4, WorthJoined
<1> DEFINE ab == a \cup b
           abd == ab \cup d
<1>12. /\ IsFiniteSet(ab) /\ ab \subseteq Entry /\ IsFiniteSet(abd) /\ abd \subseteq Entry
       /\ ab \cap d = {} /\ abd \cap e = {} /\ T = abd \cup e
  BY <1>2, <1>3, <1>4, FS_Union
<1>13. Worth(ab) = Worth(a) + Worth(b)
  BY <1>11
<1> HIDE DEF ab
<1>14. Worth(abd) = Worth(ab) + Worth(d) /\ Worth(d) \in Int
  BY <1>2, <1>12, WorthJoined
<1> HIDE DEF abd
<1>15. Worth(T) = Worth(abd) + Worth(e) /\ Worth(e) \in Int
  BY <1>2, <1>12, WorthJoined
<1>16. Net(Summary(c)) = G(a) + G(b) - G(d) - G(e)
  BY <1>7 DEF Net
<1> DEFINE ga == G(a)  gb == G(b)  gd == G(d)  ge == G(e)
           wd == Worth(d)  we == Worth(e)  wab == Worth(ab)  wabd == Worth(abd)
<1>17. /\ wd = -gd /\ we = -ge /\ wd \in Int /\ we \in Int /\ ga \in Int /\ gb \in Int
       /\ wab = ga + gb /\ wabd = wab + wd /\ Worth(T) = wabd + we
       /\ Net(Summary(c)) = ga + gb - gd - ge
  BY <1>10, <1>11, <1>13, <1>14, <1>15, <1>16
<1>18. gd \in Int /\ ge \in Int
  <2>1. \A t \in d \cup e : Gross[t] \in Int
    BY <1>6
  <2> QED BY <1>2, <2>1, SumInt DEF G
<1> HIDE DEF ga, gb, gd, ge, wd, we, wab, wabd
<1>19. wd = -gd /\ we = -ge
  BY <1>17
<1>20. Worth(T) = Net(Summary(c))
  BY <1>17, <1>18, <1>19
<1> QED BY <1>20 DEF T

\* The rows of a user, on one day and on all of them.
LEMMA DayRows ==
  ASSUME Typed, NEW u \in User
  PROVE  LET M == Of(u) \cap LiveRows IN
         /\ Transactions(SummaryQuery(u, Always)) = M
         /\ \A d \in Nat : Transactions(SummaryQuery(u, On(d))) =
              {t \in M \ Edge(u) : began[t.by] \div DayLength = d}
         /\ \A t \in M : began[t.by] \in Nat /\ began[t.by] <= clock
<1> DEFINE M == Of(u) \cap LiveRows
<1>1. \A t \in ledger : t \in Entry /\ began[t.by] \in Nat /\ began[t.by] < clock
  BY DEF Typed, LedgerOK, RequestsOK, Writing, Entry
<1>2. M = {t \in ledger : ~t.deleted /\ t.user = u}
  BY <1>1 DEF Of, LiveRows
<1>3. ASSUME NEW p
      PROVE  LET c == SummaryQuery(u, p) IN
             /\ Searched(c) = {u} /\ c.type = None /\ c.period = p
             /\ Transactions(c) = {t \in M : InPeriod(c, t.by)}
  <2> DEFINE c == SummaryQuery(u, p)
  <2>1. Searched(c) = {u} /\ c.type = None /\ c.period = p
    BY DEF SummaryQuery, Searched
  <2> HIDE DEF c
  <2>2. Transactions(c) = {t \in M : InPeriod(c, t.by)}
    BY <1>2, <2>1 DEF Transactions, Live
  <2> QED BY <2>1, <2>2 DEF c
<1>4. Transactions(SummaryQuery(u, Always)) = M
  <2>1. Always.from = None /\ Always.to = None
    BY DEF Always
  <2> QED BY <1>3, <2>1 DEF InPeriod
<1>5. Edge(u) = {t \in M : began[t.by] % DayLength = DayLength - 1}
  BY <1>4 DEF Edge
<1> HIDE DEF M
<1>6. ASSUME NEW d \in Nat
      PROVE  Transactions(SummaryQuery(u, On(d))) =
               {t \in M \ Edge(u) : began[t.by] \div DayLength = d}
  <2> DEFINE c == SummaryQuery(u, On(d))
             day == [day |-> d, iso |-> FALSE]
  <2>1. day # None /\ day.day = d
    <3>1. day \in Date
      BY DEF Date
    <3>2. None \notin Date
      BY ReportsAssumption
    <3> QED BY <3>1, <3>2
  <2>2. On(d).from = day /\ On(d).to = day
    BY DEF On
  <2>3. /\ c.period.from = day /\ c.period.to = day
        /\ Transactions(c) = {t \in M : InPeriod(c, t.by)}
    BY <1>3, <2>2
  <2>4. DayLength \in Nat \ {0, 1}
    BY ReportsAssumption
  <2> HIDE DEF c, day
  <2>5. ASSUME NEW t \in M
        PROVE  InPeriod(c, t.by) <=> /\ began[t.by] \div DayLength = d
                                     /\ began[t.by] % DayLength # DayLength - 1
    <3> DEFINE n == began[t.by]
    <3>1. n \in Nat
      BY <1>1, <1>2
    <3>2. InPeriod(c, t.by) <=> n >= d * DayLength /\ n <= (d + 1) * DayLength - 2
      BY <2>1, <2>3 DEF InPeriod, StartOfDay, EndOfDay
    <3> HIDE DEF n
    <3>3. d * DayLength \in Nat
      BY <2>4
    <3>4. n >= d * DayLength <=> d * DayLength <= n
      BY <3>1, <3>3
    <3>5. InPeriod(c, t.by) <=> n \div DayLength = d /\ n % DayLength # DayLength - 1
      BY <2>4, <3>1, <3>2, <3>4, LastTick
    <3> QED BY <3>5 DEF n
  <2>6. Transactions(c) = {t \in M \ Edge(u) : began[t.by] \div DayLength = d}
    BY <1>5, <2>3, <2>5
  <2> QED BY <2>6 DEF c
<1>7. \A t \in M : began[t.by] \in Nat /\ began[t.by] <= clock
  <2>1. clock \in Nat
    BY DEF Typed, RequestsOK
  <2> QED BY <1>1, <1>2, <2>1
<1> QED BY <1>4, <1>6, <1>7 DEF M

\* The netted summaries of the days of a user add up to what his rows are worth.
LEMMA DaysAddUp ==
  ASSUME Typed, NEW u \in User
  PROVE  Worth(Of(u) \cap LiveRows)
           = MapThenSumSet(LAMBDA d : Net(Summary(SummaryQuery(u, On(d)))), 0..(clock \div DayLength))
             + MapThenSumSet(Sign, Edge(u))
<1> DEFINE M == Of(u) \cap LiveRows
           E == Edge(u)
           R == M \ E
           K == 0..(clock \div DayLength)
           key == [t \in R |-> began[t.by] \div DayLength]
           net == [d \in K |-> Net(Summary(SummaryQuery(u, On(d))))]
           part == [d \in K |-> SumFunctionOnSet(Amt, {t \in R : key[t] = d})]
<1>1. /\ Transactions(SummaryQuery(u, Always)) = M
      /\ \A d \in Nat : Transactions(SummaryQuery(u, On(d))) =
              {t \in R : began[t.by] \div DayLength = d}
      /\ \A t \in M : began[t.by] \in Nat /\ began[t.by] <= clock
  BY DayRows
<1>2. E \subseteq M
  BY <1>1 DEF Edge
<1>3. IsFiniteSet(M) /\ M \subseteq Entry
  BY LiveTyped, FS_Subset
<1>4. clock \in Nat /\ DayLength \in Nat \ {0}
  BY ReportsAssumption DEF Typed, RequestsOK
<1>5. clock \div DayLength \in Nat
  BY <1>4, Divided
<1>6. IsFiniteSet(K)
  <2> DEFINE lo == 0
             hi == clock \div DayLength
  <2>1. lo \in Int /\ hi \in Int
    BY <1>5
  <2> HIDE DEF lo, hi
  <2>2. IsFiniteSet(lo..hi)
    BY <2>1, FS_Interval
  <2> QED BY <2>2 DEF lo, hi
<1>7. \A t \in R : Amt[t] \in Int /\ key[t] \in K
  <2> SUFFICES ASSUME NEW t \in R PROVE Amt[t] \in Int /\ key[t] \in K
    OBVIOUS
  <2>1. Amt[t] \in Int
    BY <1>3, AmtTyped
  <2> DEFINE n == began[t.by]
  <2>2. n \in Nat /\ n <= clock
    BY <1>1
  <2> HIDE DEF n
  <2>3. n \div DayLength \in K
    BY <1>4, <2>2, DaysPass
  <2> QED BY <2>1, <2>3 DEF n
<1>8. IsFiniteSet(R) /\ IsFiniteSet(E) /\ R \subseteq Entry /\ E \subseteq Entry
      /\ R \cap E = {} /\ M = R \cup E
  BY <1>2, <1>3, FS_Subset
<1>9. MapThenSumSet(LAMBDA d : Net(Summary(SummaryQuery(u, On(d)))), K) = SumFunctionOnSet(net, K)
  <2> DEFINE F(d) == Net(Summary(SummaryQuery(u, On(d))))
             P(g) == g = [s \in SUBSET K |-> IF s = {} THEN 0
                            ELSE LET d == CHOOSE d \in s : TRUE IN F(d) + g[s \ {d}]]
  <2>1. MapThenSumSet(LAMBDA d : Net(Summary(SummaryQuery(u, On(d)))), K) = (CHOOSE g : P(g))[K]
    BY DEF MapThenSumSet, MapThenFoldSet
  <2>2. SumFunctionOnSet(net, K) = (CHOOSE g : Running(net, K, g))[K]
    BY DEF SumFunctionOnSet, FoldFunctionOnSet, MapThenFoldSet, Running
  <2>3. \A d \in K : net[d] = F(d)
    OBVIOUS
  <2>4. ASSUME NEW g PROVE P(g) <=> Running(net, K, g)
    <3> HIDE DEF net, F, K
    <3> QED BY <2>3 DEF Running
  <2> HIDE DEF P
  <2> QED BY <2>1, <2>2, <2>4
<1>10. MapThenSumSet(Sign, E) = Worth(E)
  <2> DEFINE P(g) == g = [s \in SUBSET E |-> IF s = {} THEN 0
                            ELSE LET t == CHOOSE t \in s : TRUE IN Sign(t) + g[s \ {t}]]
  <2>1. MapThenSumSet(Sign, E) = (CHOOSE g : P(g))[E]
    BY DEF MapThenSumSet, MapThenFoldSet
  <2>2. SumFunctionOnSet(Amt, E) = (CHOOSE g : Running(Amt, E, g))[E]
    BY DEF SumFunctionOnSet, FoldFunctionOnSet, MapThenFoldSet, Running
  <2>3. \A t \in E : Amt[t] = Sign(t)
    BY <1>8, AmtTyped
  <2>4. ASSUME NEW g PROVE P(g) <=> Running(Amt, E, g)
    <3> HIDE DEF E
    <3> QED BY <2>3 DEF Running
  <2> HIDE DEF P
  <2> QED BY <2>1, <2>2, <2>4 DEF Worth
<1> HIDE DEF M, E, K
<1>11. \A d \in K : net[d] = part[d]
  <2> SUFFICES ASSUME NEW d \in K PROVE net[d] = part[d]
    OBVIOUS
  <2>1. d \in Nat
    BY <1>5 DEF K
  <2> DEFINE c == SummaryQuery(u, On(d))
  <2>2. Transactions(c) = {t \in R : key[t] = d}
    BY <1>1, <2>1
  <2>3. Net(Summary(c)) = Worth(Transactions(c))
    BY NetIsWorth
  <2> HIDE DEF key, R
  <2>4. net[d] = Net(Summary(c)) /\ part[d] = Worth({t \in R : key[t] = d})
    BY DEF Worth
  <2> HIDE DEF c, net, part
  <2> QED BY <2>2, <2>3, <2>4
<1> HIDE DEF R, key, net
<1>12. SumFunctionOnSet(Amt, R) = SumFunctionOnSet(part, K)
  BY <1>6, <1>7, <1>8, SumParts
<1> HIDE DEF part
<1>13. SumFunctionOnSet(net, K) = SumFunctionOnSet(part, K)
  BY <1>6, <1>11, SumSame
<1>14. Worth(R \cup E) = Worth(R) + Worth(E)
  BY <1>8, WorthJoined
<1> QED BY <1>8, <1>9, <1>10, <1>12, <1>13, <1>14 DEF Worth, M, E, K

\* The summaries of getTransactionsSummary lose no money and count none twice:
\* if a game has one settlement at a time, then for any users, commits,
\* failures and corrections, what the days of a user add up to is what his
\* balance has gained, but for the last tick of each day.  Two corrections of
\* one result at a time do break it: both take back the credits they have found.
THEOREM SummariesAddUpAlways == OneSettlementPerGame /\ RSpec => []SummariesAddUp
<1>1. Typed /\ MoneyOK => SummariesAddUp
  <2> SUFFICES ASSUME Typed, MoneyOK, NEW u \in User
               PROVE  balance[u] - (IF Opening[u] = None THEN 0 ELSE Opening[u])
                        = MapThenSumSet(LAMBDA d : Net(Summary(SummaryQuery(u, On(d)))),
                                        0..(clock \div DayLength))
                          + MapThenSumSet(Sign, Edge(u))
    BY DEF SummariesAddUp
  <2> DEFINE open == IF Opening[u] = None THEN 0 ELSE Opening[u]
             w == Worth(Of(u) \cap LiveRows)
  <2>1. open \in Int
    BY ReportsAssumption
  <2>2. w \in Int
    <3>1. IsFiniteSet(Of(u) \cap LiveRows) /\ Of(u) \cap LiveRows \subseteq Entry
      BY LiveTyped, FS_Subset
    <3> QED BY <3>1, WorthInt
  <2>3. balance[u] = open + w
    BY DEF MoneyOK
  <2> HIDE DEF open, w
  <2>4. balance[u] - open = w
    BY <2>1, <2>2, <2>3
  <2> QED BY <2>4, DaysAddUp DEF open, w
<1>2. OneSettlementPerGame /\ RSpec => []MoneyOK
  BY MoneyInvariance
<1> QED BY <1>1, <1>2, TypedInvariance, PTL
=============================================================================
