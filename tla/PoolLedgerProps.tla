--------------------------- MODULE PoolLedgerProps ---------------------------
(***************************************************************************)
(* What must be true of the pool's money, and the abstract book it keeps.  *)
(***************************************************************************)
EXTENDS PoolLedger

(* Every variable has its type; in particular every balance a commit       *)
(* publishes fits the integer column, also after reverseCredit, which      *)
(* does not look at the balance it leaves.                                 *)
TypeOK ==
  /\ wallets \subseteq User
  /\ balance \in [User -> Int32] /\ net \in [User -> Int]
  /\ bets \in [Req -> Bet \cup {None}]
  /\ results \in [Req -> Result \cup {None}]
  /\ payouts \subseteq Payout
  /\ active \subseteq User /\ subTypes \in [Game -> SubType] /\ clock \in Nat
  /\ pc \in [Req -> Stages \cup {"idle", "done", "failed"}]
  /\ call \in [Req -> CallSet \cup {None}]
  /\ tx \in [Req -> Tx]
  /\ lock \in [User -> Req \cup {None}]
  /\ delta \in [User -> Int] /\ dnet \in [User -> Int]

(* A user's balance is what the live rows of the credit ledger add up to,  *)
(* as getTransactionsSummary reports them: no top-up, bet, payout or       *)
(* correction, interleaved with others or failing halfway, leaves them     *)
(* apart.                                                                  *)
BalanceMatchesLedger == balance = net

TransfersOf(u, o) == {r \in Req : pc[r] = "done" /\ Op(r) = o /\ call[r].user = u}

(* The ledger is explained by the business records: what a user was given, *)
(* less the withdrawals and the stakes of exactly the bets placed, plus   *)
(* the live payouts.  A bet without its debit (or a debit without its bet),*)
(* or a payout lost or kept by half a settlement, would show here.         *)
LedgerExplained ==
  \A u \in User :
    net[u] = (IF Opening[u] = None THEN 0 ELSE Opening[u])
           + MapThenSumSet(LAMBDA r : call[r].amount, TransfersOf(u, "topUp"))
           - MapThenSumSet(LAMBDA r : call[r].amount, TransfersOf(u, "withdraw"))
           - MapThenSumSet(LAMBDA b : Total(bets[b].slip),
                           {b \in Req : Standing[b] = None /\ bets[b] # None /\ bets[b].user = u})
           + MapThenSumSet(LAMBDA p : p.amount, {p \in payouts : p.user = u})

(* A result's stored winners are those its settled bets have on its        *)
(* number, and each of them has been paid that amount by exactly one live  *)
(* CREDIT row; nobody else has one.  Holds across declarations and         *)
(* corrections of declareResult and updateResult.                          *)
PaidAsScored ==
  \A x \in Req : results[x] # None =>
    LET won  == Winners(Stakes(Linked(x)), results[x].number)
        paid == {p \in payouts : p.ref = x} IN
      /\ results[x].winners = won
      /\ \A p \in paid : won[p.user].amount > 0 /\ p.amount = won[p.user].amount
      /\ \A u \in User : won[u].amount > 0 => \E p \in paid : p.user = u
      /\ \A p, o \in paid : p.user = o.user => p = o

(* The settledBetCount a result shows is the number of bets linked to it.  *)
CountMatchesLinks ==
  \A x \in Req : results[x] # None => results[x].count = Cardinality(Linked(x))

(* A bet is settled once: a bet linked to a result is never linked to      *)
(* another one, and its stake never changes ("Bet-to-result linkage is     *)
(* untouched", game-result.service.ts).                                    *)
KeepsSettled == \A b \in Req : bets[b] # None /\ bets[b].result # None => bets'[b] = bets[b]

SettledOnce == [][KeepsSettled]_vars

(* No spend overdraws a wallet: a committed balance falls below zero only  *)
(* in the commit of a correction (reverseCredit's documented exception),   *)
(* whatever races with the balance check of debit.                         *)
OverdrawsInCorrection ==
  \A u \in User : balance'[u] < balance[u] /\ balance'[u] < 0 =>
    \E r \in Req : pc[r] = "commit" /\ pc'[r] = "done" /\ Op(r) = "correct"

OnlyCorrectionsOverdraw == [][OverdrawsInCorrection]_vars

(* "Allowed within 24 hours of the original declaration": once the window  *)
(* is over and the corrections let in before have ended, the result, the   *)
(* bets settled by it and what they were paid stay as they are for ever.   *)
Frozen(x) ==
  /\ results[x] # None /\ clock - results[x].at > EditWindow
  /\ ~\E r \in Req : InFlight(r) /\ Op(r) = "correct" /\ call[r].ref = x

StaysFrozen ==
  \A x \in Req : Frozen(x) =>
    /\ Frozen(x)' /\ results'[x] = results[x] /\ Linked(x)' = Linked(x)
    /\ {p \in payouts' : p.ref = x} = {p \in payouts : p.ref = x}

FrozenAfterWindow == [][StaysFrozen]_vars

(* Only settlements deadlock: every request of a cycle of lock waits is a  *)
(* declaration or a correction.  A bet, a withdrawal or a top-up can be    *)
(* made to wait, never be chosen as a deadlock victim.                     *)
OnlySettlementsDeadlock ==
  \A S \in SUBSET Waiting :
    (Deadlocked(S) /\ \A T \in SUBSET S : Deadlocked(T) => T = S)
      => \A r \in S : Op(r) \in {"declare", "correct"}

Book == INSTANCE HouseBook
          WITH wallets <- wallets, balance <- balance, bets <- bets,
               results <- results, payouts <- payouts, Size <- Cardinality

(* The concurrent requests implement the book: every commit is one         *)
(* operation of HouseBook and no other step shows.                         *)
ImplementsBook == Book!Spec
=============================================================================
