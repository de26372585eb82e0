----------------------------- MODULE PrizeRules -----------------------------
(***************************************************************************)
(* What a bet slip costs and what it wins.  A slip is the set of           *)
(* GameBetNumberTbl rows of one bet, seen as the amount staked on each     *)
(* number (0 where there is no row).  A stake is a bet's id with the user  *)
(* and the slip: the part of a bet row a settlement reads.                 *)
(***************************************************************************)
EXTENDS Integers, FiniteSets, FiniteSetsExt, Functions

CONSTANTS User,        \* bettors
          Number,      \* the numbers a result can have
          Multiplier   \* JODI_PAYOUT_MULTIPLIER

\* The amount one slip debits: placeBet's totalAmount.
Total(slip) == SumFunction(slip)

StakesOf(stakes, u) == {s \in stakes : s.user = u}

\* What user u wins on `stakes` when n is drawn: getWinners' SUM(Amount * 95).
Prize(stakes, u, n) ==
  Multiplier * MapThenSumSet(LAMBDA s : s.slip[n], StakesOf(stakes, u))

\* The bets that make u a winner: getWinners' ARRAY_AGG(DISTINCT b."Id").
WinningBets(stakes, u, n) == {s.id : s \in {t \in StakesOf(stakes, u) : t.slip[n] > 0}}

\* getWinners for every user; a user who is no winner has an empty entry.
Winners(stakes, n) ==
  [u \in User |-> [amount |-> Prize(stakes, u, n), bets |-> WinningBets(stakes, u, n)]]

NoWinners == [u \in User |-> [amount |-> 0, bets |-> {}]]
=============================================================================
