------------------------------ MODULE SubTypes ------------------------------
(***************************************************************************)
(* Game sub types: their edits, and the results board, which names them    *)
(* and sorts their results into Indian calendar days (GameSubTypeService). *)
(* An edit or a board takes one step per query; results come and change as *)
(* declareResult and updateResult commit them (PoolLedger has the rest).   *)
(***************************************************************************)
EXTENDS Integers

CONSTANTS
  Req,        \* requests; also the ids of the results they declare
  Game,       \* codes of the sub types, GameSubTypeEntity.name
  Display,    \* display names
  Blank,      \* the empty display name
  Time,       \* times of day betting may close at
  Number,     \* numbers a result can have
  Calls,      \* Calls[r]: what request r may ask for
  Seeded,     \* Seeded[g]: the row the migration inserts
  DayLength,  \* ticks of a day
  Offset,     \* IST_OFFSET_MS, in ticks
  MaxClock,   \* bound on the clock
  None

\* UpdateGameSubTypeDto: every column may be left out.
Column  == {"displayName", "closeTime", "isActive"}
SubType == [displayName : Display, closeTime : Time, isActive : BOOLEAN]
Dto     == {[c \in C |-> t[c]] : C \in SUBSET Column, t \in SubType}

CallSet ==
       [op : {"edit"}, game : Game, dto : Dto]
  \cup [op : {"board"}]
  \cup [op : {"declare"}, game : Game, number : Number]
  \cup [op : {"correct"}, ref : Req, number : Number]

ASSUME SubTypesAssumption ==
  /\ Calls \in [Req -> SUBSET CallSet] /\ Seeded \in [Game -> SubType]
  /\ Blank \in Display /\ None \notin Number
  /\ DayLength \in Nat \ {0} /\ Offset \in 0..(DayLength - 1) /\ MaxClock \in Nat

VARIABLES
  subTypes,  \* GameSubTypeTbl
  results,   \* GameResultTbl: the result request r declared, or None
  clock,     \* time, in ticks since a midnight UTC
  pc,        \* the next query of each request
  call,      \* what each request asks for
  tx,        \* what it has read
  reply      \* the board it has answered

vars == <<subTypes, results, clock, pc, call, tx, reply>>

Goto(r, s) == pc' = [pc EXCEPT ![r] = s]
Keep(r, v) == tx' = [tx EXCEPT ![r] = v]
Begin(r, c, s) ==
  /\ pc[r] = "idle" /\ c \in Calls[r]
  /\ call' = [call EXCEPT ![r] = c]
  /\ Goto(r, s)

\* The request ends and forgets what it has read.
End(r, s) == Goto(r, s) /\ Keep(r, None)

-----------------------------------------------------------------------------
(* updateSubType *)

\* Mutant of Merged: isActive falls back to its default when it is left out.
Merged_Default(dto, row) ==
  [c \in Column |-> IF c \in DOMAIN dto THEN dto[c] ELSE IF c = "isActive" THEN TRUE ELSE row[c]]

Merged(dto, row) == [c \in Column |-> IF c \in DOMAIN dto THEN dto[c] ELSE row[c]]

\* getSubTypeById, and the columns the body sets; `read` is for the properties.
UpdateSubType(r) ==
  /\ \E c \in Calls[r] :
       /\ c.op = "edit" /\ Begin(r, c, "load")
       /\ Keep(r, [read   |-> subTypes[c.game],
                   entity |-> Merged(c.dto, subTypes[c.game]),
                   loaded |-> None])
  /\ UNCHANGED <<subTypes, results, clock, reply>>

\* save() reads the row again to see which columns differ,
LoadRow(r) ==
  /\ pc[r] = "load"
  /\ Keep(r, [tx[r] EXCEPT !.loaded = subTypes[call[r].game]])
  /\ Goto(r, "save")
  /\ UNCHANGED <<subTypes, results, clock, call, reply>>

\* and writes those.
SaveRow(r) ==
  /\ pc[r] = "save"
  /\ LET g == call[r].game  entity == tx[r].entity  loaded == tx[r].loaded IN
       subTypes' = [subTypes EXCEPT ![g] =
         [c \in Column |-> IF entity[c] # loaded[c] THEN entity[c] ELSE @[c]]]
  /\ End(r, "done")
  /\ UNCHANGED <<results, clock, call, reply>>

-----------------------------------------------------------------------------
(* getResultsBoard *)

\* Its first query: the active sub types, by code.  `since` only dates the
\* request for the properties.
GetResultsBoard(r) ==
  /\ \E c \in Calls[r] : c.op = "board" /\ Begin(r, c, "bounds")
  /\ LET actives == {g \in Game : subTypes[g].isActive} IN
       Keep(r, [since |-> clock, names |-> [g \in actives |-> subTypes[g].displayName],
                yesterdayStart |-> 0, todayStart |-> 0, tomorrowStart |-> 0])
  /\ UNCHANGED <<subTypes, results, clock, reply>>

\* Mutant of istMidnightToUtc: the day of the server, not the Indian one.
istMidnightToUtc_Utc(now, dayOffset) == (now \div DayLength + dayOffset) * DayLength

\* Start of the Indian day that comes dayOffset days after the day of `now`.
istMidnightToUtc(now, dayOffset) ==
  ((now + Offset) \div DayLength + dayOffset) * DayLength - Offset

GetIstDayBoundaries(r) ==
  /\ pc[r] = "bounds"
  /\ Keep(r, [tx[r] EXCEPT !.yesterdayStart = istMidnightToUtc(clock, -1),
                           !.todayStart     = istMidnightToUtc(clock, 0),
                           !.tomorrowStart  = istMidnightToUtc(clock, 1)])
  /\ Goto(r, "results")
  /\ UNCHANGED <<subTypes, results, clock, call, reply>>

\* The numbers a field can show: that of a last row, null without any.
Last(rows) ==
  IF rows = {} THEN {None}
  ELSE {results[x].number : x \in {y \in rows : \A z \in rows : results[z].at <= results[y].at}}

\* The results of the sub types a board shows as `name`; a result whose name
\* is empty is dropped.
RowsNamed(b, name) ==
  {x \in Req : /\ results[x] # None /\ results[x].game \in DOMAIN b.names
               /\ b.names[results[x].game] = name /\ name # Blank
               /\ results[x].at \in b.yesterdayStart..b.tomorrowStart}

\* Its last query, latest first, and the board: an entry per display name.
ReadResults(r) ==
  /\ pc[r] = "results"
  /\ LET b == tx[r]
         shown == {b.names[g] : g \in DOMAIN b.names}
         Today(n) == {x \in RowsNamed(b, n) : results[x].at >= b.todayStart}
         Yest(n)  == RowsNamed(b, n) \ Today(n) IN
       \E board \in [shown -> [yest_res : Number \cup {None}, today : Number \cup {None}]] :
         /\ \A n \in shown :
              board[n].today \in Last(Today(n)) /\ board[n].yest_res \in Last(Yest(n))
         /\ reply' = [reply EXCEPT ![r] = board]
  /\ End(r, "done")
  /\ UNCHANGED <<subTypes, results, clock, call>>

-----------------------------------------------------------------------------
(* Results, failures, time *)

\* CreatedDate is the start of the transaction, in GameResultTbl as everywhere.
DeclareResult(r) ==
  /\ \E c \in Calls[r] : c.op = "declare" /\ Begin(r, c, "commit")
  /\ Keep(r, [began |-> clock])
  /\ UNCHANGED <<subTypes, results, clock, reply>>

CommitResult(r) ==
  /\ pc[r] = "commit"
  /\ results' = [results EXCEPT ![r] =
       [game |-> call[r].game, number |-> call[r].number, at |-> tx[r].began]]
  /\ End(r, "done")
  /\ UNCHANGED <<subTypes, clock, call, reply>>

\* updateResult, at its commit, less than 24 hours after the declaration.
UpdateResult(r) ==
  /\ \E c \in Calls[r] :
       /\ c.op = "correct" /\ results[c.ref] # None /\ results[c.ref].number # c.number
       /\ clock - results[c.ref].at <= DayLength
       /\ Begin(r, c, "done")
       /\ results' = [results EXCEPT ![c.ref].number = c.number]
  /\ UNCHANGED <<subTypes, clock, tx, reply>>

Fail(r) ==
  /\ pc[r] \notin {"idle", "done", "failed"}
  /\ End(r, "failed")
  /\ call' = [call EXCEPT ![r] = None]
  /\ UNCHANGED <<subTypes, results, clock, reply>>

Tick ==
  /\ clock < MaxClock
  /\ clock' = clock + 1
  /\ UNCHANGED <<subTypes, results, pc, call, tx, reply>>

Init ==
  /\ subTypes = Seeded
  /\ results = [r \in Req |-> None]
  /\ clock = 0
  /\ pc = [r \in Req |-> "idle"]
  /\ call = [r \in Req |-> None]
  /\ tx = [r \in Req |-> None]
  /\ reply = [r \in Req |-> None]

Next ==
  \/ Tick
  \/ \E r \in Req :
       \/ UpdateSubType(r) \/ LoadRow(r) \/ SaveRow(r)
       \/ GetResultsBoard(r) \/ GetIstDayBoundaries(r) \/ ReadResults(r)
       \/ DeclareResult(r) \/ CommitResult(r) \/ UpdateResult(r) \/ Fail(r)

Spec == Init /\ [][Next]_vars

-----------------------------------------------------------------------------
IstDay(t) == (t + Offset) \div DayLength

\* What a board may say, at time t, of g's results of Indian day d.
LastOn(g, d, t) ==
  Last({x \in Req : results[x] # None /\ results[x].game = g
                    /\ IstDay(results[x].at) = d /\ results[x].at <= t})

\* g has a name, and no other sub type of the board has the same.
Named(names, g) == names[g] # Blank /\ \A o \in DOMAIN names : names[o] = names[g] => o = g

(* "the last declared result for yesterday and today (IST calendar days)": *)
(* each field of the board is right for some moment of the request, also   *)
(* when midnight, a declaration, a correction or an edit falls between the *)
(* queries of getResultsBoard, for every sub type that has a name of its   *)
(* own.                                                                    *)
BoardTellsDays ==
  [][\A r \in Req : pc[r] = "results" /\ pc'[r] = "done" =>
       \A g \in DOMAIN tx[r].names : Named(tx[r].names, g) =>
         LET entry == reply'[r][tx[r].names[g]]  moments == tx[r].since..clock IN
           /\ \E t \in moments : entry.today \in LastOn(g, IstDay(t), t)
           /\ \E t \in moments : entry.yest_res \in LastOn(g, IstDay(t) - 1, t)]_vars

\* An edit that sets c of g has been answered.
Answered(q, g, c) ==
  pc[q] = "done" /\ call[q].op = "edit" /\ call[q].game = g /\ c \in DOMAIN call[q].dto

(* updateSubType writes a column its body leaves out only to put back what *)
(* it had read before another edit of it was answered: two superadmins at  *)
(* work on one sub type can lose one's change, never make up a value.      *)
UnaskedOnlyUndoes ==
  [][\A g \in Game, c \in Column : subTypes'[g][c] # subTypes[g][c] =>
       \E r \in Req :
         /\ pc[r] = "save" /\ pc'[r] = "done" /\ call[r].game = g
         /\ \/ c \in DOMAIN call[r].dto
            \/ /\ subTypes'[g][c] = tx[r].read[c]
               /\ \E q \in Req \ {r} : Answered(q, g, c)]_vars
=============================================================================
