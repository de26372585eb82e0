------------------------------ MODULE HouseBook ------------------------------
(***************************************************************************)
(* What the betting pool promises, without requests, locks or partial      *)
(* work: each operation on the book takes effect all at once.              *)
(***************************************************************************)
EXTENDS Integers

CONSTANTS User, Number, Req, Game, Amount, Slip, Opening, Standing, None,
          Total(_),       \* what a slip costs
          Winners(_, _),  \* what each user wins on some stakes with a number
          Size(_)         \* how many bets there are in a set

VARIABLES wallets, balance, bets, results, payouts

book == <<wallets, balance, bets, results, payouts>>

Pending(g) == {b \in Req : bets[b] # None /\ bets[b].game = g /\ bets[b].result = None}
Linked(x)  == {b \in Req : bets[b] # None /\ bets[b].result = x}
Stakes(B)  == {[id |-> b, user |-> bets[b].user, slip |-> bets[b].slip] : b \in B}

\* The payout rows, inserted by request r, of a result with these winners.
PaidBy(r, x, won) ==
  {[by |-> r, user |-> u, ref |-> x, amount |-> won[u].amount] :
     u \in {v \in User : won[v].amount > 0}}

TopUp(u, a) ==
  /\ wallets' = wallets \cup {u}
  /\ balance' = [balance EXCEPT ![u] = @ + a]
  /\ UNCHANGED <<bets, results, payouts>>

Withdraw(u, a) ==
  /\ u \in wallets /\ balance[u] >= a
  /\ balance' = [balance EXCEPT ![u] = @ - a]
  /\ UNCHANGED <<wallets, bets, results, payouts>>

\* A bet is on the book exactly if it has been paid for.
PlaceBet(b, u, g, s) ==
  /\ bets[b] = None /\ u \in wallets /\ balance[u] >= Total(s)
  /\ bets' = [bets EXCEPT ![b] = [user |-> u, game |-> g, slip |-> s, result |-> None]]
  /\ balance' = [balance EXCEPT ![u] = @ - Total(s)]
  /\ UNCHANGED <<wallets, results, payouts>>

\* A result settles pending bets of its game and pays each winner once.
Declare(x, g, n, B) ==
  LET won == Winners(Stakes(B), n) IN
    /\ results[x] = None /\ B \subseteq Pending(g)
    /\ results'[x] \in [game : {g}, number : {n}, count : {Size(B)},
                         winners : {won}, at : Nat]
    /\ results' = [results EXCEPT ![x] = results'[x]]
    /\ bets' = [b \in Req |-> IF b \in B THEN [bets[b] EXCEPT !.result = x] ELSE bets[b]]
    /\ payouts' = payouts \cup PaidBy(x, x, won)
    /\ balance' = [u \in User |-> balance[u] + won[u].amount]
    /\ UNCHANGED wallets

\* A correction replaces the winners of the same settled bets: what the old
\* winners got is taken back and the new ones are paid.
Correct(r, x, n) ==
  LET won == Winners(Stakes(Linked(x)), n)  old == results[x].winners IN
    /\ results[x] # None /\ results[x].number # n
    /\ results' = [results EXCEPT ![x].number = n, ![x].winners = won]
    /\ payouts' = {p \in payouts : p.ref # x} \cup PaidBy(r, x, won)
    /\ balance' = [u \in User |-> balance[u] - old[u].amount + won[u].amount]
    /\ UNCHANGED <<wallets, bets>>

Init ==
  /\ wallets = {u \in User : Opening[u] # None}
  /\ balance = [u \in User |-> IF Opening[u] = None THEN 0 ELSE Opening[u]]
  /\ bets = Standing
  /\ results = [r \in Req |-> None]
  /\ payouts = {}

Next ==
  \/ \E u \in User, a \in Amount : TopUp(u, a) \/ Withdraw(u, a)
  \/ \E b \in Req, u \in User, g \in Game, s \in Slip : PlaceBet(b, u, g, s)
  \/ \E x \in Req, g \in Game, n \in Number : \E B \in SUBSET Pending(g) : Declare(x, g, n, B)
  \/ \E r \in Req, x \in Req, n \in Number : Correct(r, x, n)

Spec == Init /\ [][Next]_book
=============================================================================
