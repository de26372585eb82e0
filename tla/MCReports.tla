----------------------------- MODULE MCReports -----------------------------
(***************************************************************************)
(* Small instances of Reports for TLC.  A reader changes nothing others    *)
(* see, so one is enough; days of three ticks, over two of them.           *)
(***************************************************************************)
EXTENDS ReportsProps, TLC

CONSTANTS u1, u2, g1, r1, r2, r3, r4, r5, q

On1  == [n \in Number |-> IF n = 1 THEN 1 ELSE 0]
Both == [n \in Number |-> 1]
MCSlip == {On1, Both}

BetOf(u, S)      == [op : {"bet"}, user : {u}, game : {g1}, slip : S]
DeclareOf(N)     == [op : {"declare"}, game : {g1}, number : N]
CorrectOf(x, N)  == [op : {"correct"}, ref : {x}, number : N]
TransferOf(o, u) == [op : {o}, user : {u}, amount : {1}]

Query(l, n, per) == [op |-> "list", list |-> l, period |-> per, limit |-> n]
From0 == [Always EXCEPT !.from = [day |-> 0, iso |-> FALSE]]
FromIso == [Always EXCEPT !.from = [day |-> 0, iso |-> TRUE]]

\* Every listing, of all rows or of some, by one row a page; one is asked for
\* with a time of day.
Pages ==
  {Query("bets", 1, Always) @@ [users |-> User, search |-> None, game |-> g1],
   Query("withdrawals", 1, Always) @@ [users |-> User, search |-> {u1}],
   Query("results", 1, From0) @@ [search |-> None, game |-> None],
   Query("transactions", 1, Always) @@ [users |-> User, search |-> None, type |-> "bet_debit"],
   Query("transactions", 2, FromIso) @@ [users |-> {u1}, search |-> None, type |-> None]}

\* Two bets, a declaration, its correction, a correction of the correction, a
\* second declaration or a withdrawal, and the reader or a top-up.
PageCalls == (r1 :> BetOf(u1, {Both})) @@ (r2 :> BetOf(u2, {On1}))
          @@ (r3 :> DeclareOf({1})) @@ (r4 :> CorrectOf(r3, {2}))
          @@ (r5 :> CorrectOf(r3, {1, 2}) \cup DeclareOf({2}) \cup TransferOf("withdraw", u1))
          @@ (q :> Pages \cup TransferOf("topUp", u2))
PageOpening == (u1 :> 3) @@ (u2 :> 1)

NoBets == [r \in Req |-> None]
=============================================================================
