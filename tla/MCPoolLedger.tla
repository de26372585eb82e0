---------------------------- MODULE MCPoolLedger ----------------------------
(***************************************************************************)
(* Small instances of PoolLedger for TLC.                                  *)
(***************************************************************************)
EXTENDS PoolLedgerProps, TLC

CONSTANTS u1, u2, g1, g2, r1, r2, r3, r4, r5, r6, r7, r8

\* Slips that stake 1 on number 1, 1 on number 2, or 1 on both.
On1 == [n \in Number |-> IF n = 1 THEN 1 ELSE 0]
On2 == [n \in Number |-> IF n = 2 THEN 1 ELSE 0]
Both == [n \in Number |-> 1]
MCSlip == {On1, On2, Both}

TopUpOf(u, A)     == [op : {"topUp"}, user : {u}, amount : A]
WithdrawOf(u, A)  == [op : {"withdraw"}, user : {u}, amount : A]
BetOf(u, g, S)    == [op : {"bet"}, user : {u}, game : {g}, slip : S]
DeclareOf(g, N)   == [op : {"declare"}, game : {g}, number : N]
CorrectOf(x, N)   == [op : {"correct"}, ref : {x}, number : N]
LockOf(u)         == [op : {"lockUser"}, user : {u}, on : {TRUE}]
EditOf(g)         == [op : {"editSubType"}, game : {g}, closeTime : {0}, isActive : {None}]

AlwaysOpen == [g \in Game |-> 1]

\* Bets on record before the run starts.
Bets(f) == [r \in Req |-> IF r \in DOMAIN f THEN f[r] ELSE None]
BetOn(u, g, s) == [user |-> u, game |-> g, slip |-> s, result |-> None]
NoBets == Bets(<<>>)

\* Two bets on one game, its declaration, a correction, a withdrawal,
\* and a second correction or declaration, before and after the tick that
\* ends both the betting and the edit window.
RoundCalls == (r1 :> BetOf(u1, g1, {On1, Both})) @@ (r2 :> BetOf(u2, g1, {On2}))
           @@ (r3 :> DeclareOf(g1, {1, 2})) @@ (r4 :> CorrectOf(r3, {1, 2}))
           @@ (r5 :> CorrectOf(r3, {1}) \cup DeclareOf(g1, {2})) @@ (r6 :> WithdrawOf(u1, {2}))
RoundOpening == (u1 :> 2) @@ (u2 :> 1)

\* A user without a wallet, topped up twice while others spend, the
\* operators lock the account, move its closing time, settle it, at once if
\* they like, and correct it.
FundingCalls == (r1 :> TopUpOf(u1, {1, 2})) @@ (r2 :> TopUpOf(u1, {2}))
             @@ (r3 :> BetOf(u1, g1, {On1, Both}) \cup BetOf(u2, g1, {On1}))
             @@ (r4 :> WithdrawOf(u1, {1, 2}) \cup DeclareOf(g1, {1}))
             @@ (r5 :> LockOf(u1) \cup EditOf(g1) \cup CorrectOf(r6, {2}))
             @@ (r6 :> DeclareOf(g1, {1}))
FundingOpening == (u1 :> None) @@ (u2 :> 1)

\* Two settlements of the same game at once.
RaceBets == Bets((r1 :> BetOn(u1, g1, On1)) @@ (r2 :> BetOn(u1, g1, On2)))
RaceOpening == u1 :> 0

NoCalls == [r \in Req |-> {}]

\* Two operators declare the same game.
TwoDeclares == (r3 :> DeclareOf(g1, {1})) @@ (r4 :> DeclareOf(g1, {1, 2})) @@ NoCalls

\* Two operators correct the same result.
TwoCorrections == (r3 :> DeclareOf(g1, {1})) @@ (r4 :> CorrectOf(r3, {2}))
               @@ (r5 :> CorrectOf(r3, {2})) @@ NoCalls
=============================================================================
