---------------------------- MODULE ReportsProps ----------------------------
(***************************************************************************)
(* What the listings and the summary owe their readers.                    *)
(***************************************************************************)
EXTENDS Reports

\* Rows of these listings are only ever added.
AppendOnly(c) ==
  \/ c.list \in {"bets", "withdrawals"}
  \/ c.list = "results" /\ c.search = None
  \/ c.list = "transactions" /\ c.type \notin {None, "credit"}

Listing(q) == call[q] # None /\ call[q].op = "list"

(* A client that pages through a listing to its end has been shown every   *)
(* row that was there when it began, whatever commits between its pages    *)
(* and between a page and its count, and also when a transaction that      *)
(* began earlier commits later.  Not so the credits: those of one          *)
(* settlement bear one date, and a correction takes rows away.             *)
PagesReach ==
  \A q \in Req : pc[q] = "done" /\ Listing(q) /\ AppendOnly(call[q]) =>
    view[q].first \subseteq view[q].seen

(* A bet a client has been shown with a winning number has one on every    *)
(* later page that shows it again: bets are not reopened by a correction,  *)
(* and getWinningNumberByResult finds the result of every settled bet it   *)
(* has read, though in a query of its own.                                 *)
NumberStays ==
  [][\A q, b \in Req : Listing(q) /\ view[q].numbers[b] # None
                         => view'[q].numbers[b] # None]_vars

Net(s) == s["topup"] + s["credit"] - s["bet_debit"] - s["withdraw"]

Always == [from |-> None, to |-> None]
On(d)  == [from |-> [day |-> d, iso |-> FALSE], to |-> [day |-> d, iso |-> FALSE]]
SummaryQuery(u, period) ==
  [list |-> "transactions", users |-> {u}, search |-> None, type |-> None, period |-> period]
Edge(u) == {t \in Transactions(SummaryQuery(u, Always)) : began[t.by] % DayLength = DayLength - 1}
Sign(t) == IF t.type \in {"topup", "credit"} THEN t.amount ELSE -t.amount

(* The summaries of a user's days, netted, add up to what his balance has  *)
(* gained, but for the rows of the last fraction of a day's last           *)
(* millisecond, which no day's summary has: the days of                    *)
(* getTransactionsSummary overlap nowhere, and credits replaced by a       *)
(* correction are left out as reverseCredit has taken them back.  Only if  *)
(* a game has one settlement at a time: two corrections that overlap take  *)
(* a credit back twice.                                                    *)
SummariesAddUp ==
  \A u \in User :
    balance[u] - (IF Opening[u] = None THEN 0 ELSE Opening[u])
      = MapThenSumSet(LAMBDA d : Net(Summary(SummaryQuery(u, On(d)))), 0..(clock \div DayLength))
        + MapThenSumSet(Sign, Edge(u))

(* "date-only (or ISO) strings" (date-range.util.ts): a listing whose      *)
(* dates the validation has accepted is answered.                          *)
DatesAccepted == \A q \in Req : Listing(q) => pc[q] # "failed"
=============================================================================
