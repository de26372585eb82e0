----------------------------- MODULE MCSubTypes -----------------------------
(***************************************************************************)
(* A small instance of SubTypes for TLC: days of two ticks that begin one  *)
(* tick before those of UTC, over two Indian midnights.                    *)
(***************************************************************************)
EXTENDS SubTypes, TLC

CONSTANTS r1, r2, r3, r4, r5

Row(name, time) == [displayName |-> name, closeTime |-> time, isActive |-> TRUE]
TwoMarkets == ("gali" :> Row("Gali", 1)) @@ ("disawer" :> Row("Disawer", 0))

EditOf(g, D)    == [op : {"edit"}, game : {g}, dto : D]
DeclareOf(g, N) == [op : {"declare"}, game : {g}, number : N]
CorrectOf(x, N) == [op : {"correct"}, ref : {x}, number : N]

\* A board; two edits of one sub type, to the other's name, to none, closed
\* or with a new time; two declarations; and a correction instead of an edit.
BoardCalls ==
     (r1 :> [op : {"board"}])
  @@ (r2 :> EditOf("gali", {"displayName" :> "Disawer", "displayName" :> ""}))
  @@ (r3 :> EditOf("gali", {"isActive" :> FALSE, "closeTime" :> 0}) \cup CorrectOf(r4, {2}))
  @@ (r4 :> DeclareOf("gali", {1}))
  @@ (r5 :> DeclareOf("gali", {2}) \cup DeclareOf("disawer", {2}))
=============================================================================
