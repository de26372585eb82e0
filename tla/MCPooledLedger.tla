--------------------------- MODULE MCPooledLedger ---------------------------
(***************************************************************************)
(* Small instances of PooledLedger for TLC: two games, each with the same  *)
(* two winners.                                                            *)
(***************************************************************************)
EXTENDS PooledLedger, MCPoolLedger

CrossBets == Bets((r1 :> BetOn(u1, g1, On1)) @@ (r2 :> BetOn(u2, g1, Both))
               @@ (r3 :> BetOn(u1, g2, On1)) @@ (r4 :> BetOn(u2, g2, On1)))
CrossOpening == (u1 :> 0) @@ (u2 :> 1)

\* Both declarations and a correction credit the same wallets while a bet,
\* a top-up or a withdrawal uses them.
CrossCalls == (r5 :> DeclareOf(g1, {1})) @@ (r6 :> DeclareOf(g2, {1}))
           @@ (r7 :> CorrectOf(r5, {2}) \cup WithdrawOf(u2, {1}))
           @@ (r8 :> TopUpOf(u1, {1}) \cup BetOf(u2, g1, {On1}) \cup WithdrawOf(u1, {2}))
           @@ NoCalls

\* A declaration and withdrawals from the wallet of one of its winners.
StuckCalls == (r5 :> DeclareOf(g1, {1}))
           @@ (r6 :> WithdrawOf(u2, {1})) @@ (r7 :> WithdrawOf(u2, {1})) @@ NoCalls
=============================================================================
