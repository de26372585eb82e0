--------------------------- MODULE MCBetSelections ---------------------------
(***************************************************************************)
(* Small bodies of POST /bets: up to two direct picks and up to two group  *)
(* picks, at the edges of the ranges.                                      *)
(***************************************************************************)
EXTENDS BetSelections

CONSTANT u1

UpTo(n, S) == UNION {[1..k -> S] : k \in 0..n}

\* "00", the pair both groups of digit 2 cover, 100, and 101 out of range.
MCSelections == UpTo(2, [number : {0, 22, 100, 101}, amount : {1, 25}])
MCAnderBahars == UpTo(2, [digit : {0, 2}, position : {"ander", "bahar"}, amount : {10, 15, 20}])
MCNumber == 0..100
=============================================================================
