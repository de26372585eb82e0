--------------------------- MODULE SubTypes_proofs ---------------------------
(***************************************************************************)
(* Proofs about the edits of sub types and about the results board: its    *)
(* days are days, wherever in the day the server's clock stands, and what  *)
(* two edits can do to each other is no more than to undo.                 *)
(***************************************************************************)
EXTENDS SubTypes, TLAPS

Result == [game : Game, number : Number, at : Nat]
Stage  == {"idle", "load", "save", "bounds", "results", "commit", "done", "failed"}

TypeOK ==
  /\ DOMAIN subTypes = Game /\ \A g \in Game : DOMAIN subTypes[g] = Column
  /\ results \in [Req -> Result \cup {None}]
  /\ clock \in Nat
  /\ pc \in [Req -> Stage]
  /\ DOMAIN call = Req /\ DOMAIN tx = Req /\ DOMAIN reply = Req

\* No result is from the future.
DatesOK == \A x \in Req : results[x] # None => results[x].at <= clock

\* What a sub type's column was in the row v, it still is, or an edit of it
\* was answered.
Current(v, g) == \A c \in Column : v[c] # subTypes[g][c] => \E q \in Req : Answered(q, g, c)

\* What an edit has read, and what it makes of it.
EditOK(r) ==
  pc[r] \in {"load", "save"} =>
    /\ call[r].op = "edit" /\ call[r].game \in Game
    /\ DOMAIN tx[r] = {"read", "entity", "loaded"}
    /\ tx[r].entity = Merged(call[r].dto, tx[r].read)
    /\ Current(tx[r].read, call[r].game)
    /\ pc[r] = "save" => \A c \in Column : tx[r].loaded[c] # tx[r].read[c] =>
                            \E q \in Req : Answered(q, call[r].game, c)

Midnights(b, t) ==
  /\ b.yesterdayStart = istMidnightToUtc(t, -1)
  /\ b.todayStart = istMidnightToUtc(t, 0)
  /\ b.tomorrowStart = istMidnightToUtc(t, 1)

\* The moments a board's queries were at.
BoardOK(r) ==
  /\ pc[r] = "bounds" =>
       /\ DOMAIN tx[r] = {"since", "names", "yesterdayStart", "todayStart", "tomorrowStart"}
       /\ tx[r].since \in 0..clock
  /\ pc[r] = "results" =>
       tx[r].since \in Nat /\ \E t \in tx[r].since..clock : Midnights(tx[r], t)

DeclareOK(r) ==
  pc[r] = "commit" =>
    call[r].game \in Game /\ call[r].number \in Number /\ tx[r].began \in 0..clock

IInv == /\ TypeOK /\ DatesOK
        /\ \A r \in Req : EditOK(r) /\ BoardOK(r) /\ DeclareOK(r)

-----------------------------------------------------------------------------
(* Days *)

\* An Indian day is an interval of ticks.
LEMMA DayOf ==
  ASSUME NEW t \in Int, NEW d \in Int
  PROVE  /\ IstDay(t) \in Int
         /\ IstDay(t) = d <=> d * DayLength - Offset <= t /\ t < d * DayLength + DayLength - Offset
<1> DEFINE k == t + Offset
           e == k \div DayLength
<1>1. DayLength \in Nat \ {0} /\ Offset \in Int /\ k \in Int
  BY SubTypesAssumption
<1>2. e \in Int /\ e * DayLength <= k /\ k < e * DayLength + DayLength
  BY <1>1
<1>3. \A a, b \in Int : a < b => a * DayLength + DayLength <= b * DayLength
  BY <1>1
<1>4. d * DayLength \in Int /\ e * DayLength \in Int
  BY <1>1, <1>2
<1> HIDE DEF e
<1>5. e = d <=> d * DayLength <= k /\ k < d * DayLength + DayLength
  <2>1. CASE e < d
    <3>1. e * DayLength + DayLength <= d * DayLength
      BY <1>2, <1>3, <2>1
    <3> QED BY <1>1, <1>2, <1>4, <2>1, <3>1
  <2>2. CASE d < e
    <3>1. d * DayLength + DayLength <= e * DayLength
      BY <1>2, <1>3, <2>2
    <3> QED BY <1>1, <1>2, <1>4, <2>2, <3>1
  <2>3. CASE e = d
    BY <1>2, <2>3
  <2> QED BY <1>2, <2>1, <2>2, <2>3
<1>6. IstDay(t) = e
  BY DEF IstDay, e
<1> QED BY <1>1, <1>2, <1>4, <1>5, <1>6

\* The three midnights of a board are the ends of its two days.
LEMMA MidnightsFacts ==
  ASSUME NEW t \in Int, NEW b, Midnights(b, t)
  PROVE  LET d == IstDay(t) IN
           /\ d \in Int /\ b.todayStart \in Int
           /\ b.todayStart = d * DayLength - Offset
           /\ b.yesterdayStart = b.todayStart - DayLength
           /\ b.tomorrowStart = b.todayStart + DayLength
           /\ b.todayStart <= t /\ t < b.tomorrowStart
           /\ \A s \in Int : IstDay(s) = d <=> b.todayStart <= s /\ s < b.tomorrowStart
           /\ \A s \in Int : IstDay(s) = d - 1 <=> b.yesterdayStart <= s /\ s < b.todayStart
           /\ \A s \in Int : IstDay(s) = d + 1
                               <=> b.tomorrowStart <= s /\ s < b.tomorrowStart + DayLength
<1> DEFINE d == IstDay(t)
           m == d * DayLength
<1>1. DayLength \in Nat \ {0} /\ Offset \in Int
  BY SubTypesAssumption
<1>2. d \in Int
  BY DayOf
<1>a. /\ istMidnightToUtc(t, 0) = (d + 0) * DayLength - Offset
      /\ istMidnightToUtc(t, 1) = (d + 1) * DayLength - Offset
      /\ istMidnightToUtc(t, -1) = (d + (-1)) * DayLength - Offset
  BY DEF istMidnightToUtc, IstDay
<1> HIDE DEF d
<1>3. /\ m \in Int /\ (d + 0) * DayLength = m /\ (d + 1) * DayLength = m + DayLength
      /\ (d + (-1)) * DayLength = m - DayLength /\ (d - 1) * DayLength = m - DayLength
  BY <1>1, <1>2
<1> HIDE DEF m
<1>6. /\ b.todayStart = m - Offset /\ b.tomorrowStart = m + DayLength - Offset
      /\ b.yesterdayStart = m - DayLength - Offset
  BY <1>a, <1>1, <1>2, <1>3 DEF Midnights
<1>7. /\ \A s \in Int : IstDay(s) = d <=> m - Offset <= s /\ s < m + DayLength - Offset
      /\ \A s \in Int : IstDay(s) = d - 1 <=> m - DayLength - Offset <= s
                                             /\ s < m - DayLength + DayLength - Offset
      /\ \A s \in Int : IstDay(s) = d + 1 <=> m + DayLength - Offset <= s
                                             /\ s < m + DayLength + DayLength - Offset
  <2>1. d - 1 \in Int /\ d + 1 \in Int
    BY <1>2
  <2>2. \A s \in Int : IstDay(s) = d <=> m - Offset <= s /\ s < m + DayLength - Offset
    BY <1>2, DayOf DEF m
  <2>3. \A s \in Int : IstDay(s) = d - 1 <=> (d - 1) * DayLength - Offset <= s
                                             /\ s < (d - 1) * DayLength + DayLength - Offset
    BY <2>1, DayOf
  <2>4. \A s \in Int : IstDay(s) = d + 1 <=> (d + 1) * DayLength - Offset <= s
                                             /\ s < (d + 1) * DayLength + DayLength - Offset
    BY <2>1, DayOf
  <2> QED BY <1>1, <1>2, <1>3, <2>2, <2>3, <2>4
<1>8. m - Offset <= t /\ t < m + DayLength - Offset
  BY <1>7 DEF d
<1>9. /\ d \in Int /\ b.todayStart \in Int
      /\ b.todayStart = m - Offset
      /\ b.yesterdayStart = b.todayStart - DayLength
      /\ b.tomorrowStart = b.todayStart + DayLength
      /\ b.todayStart <= t /\ t < b.tomorrowStart
  BY <1>1, <1>2, <1>3, <1>6, <1>8
<1>10. /\ \A s \in Int : IstDay(s) = d <=> b.todayStart <= s /\ s < b.tomorrowStart
       /\ \A s \in Int : IstDay(s) = d - 1 <=> b.yesterdayStart <= s /\ s < b.todayStart
       /\ \A s \in Int : IstDay(s) = d + 1 <=> b.tomorrowStart <= s
                                              /\ s < b.tomorrowStart + DayLength
  BY <1>1, <1>2, <1>3, <1>6, <1>7
<1> QED BY <1>9, <1>10 DEF d, m

\* The last of a set's rows are those of a part of it that is later than the rest.
LEMMA LastOfPart ==
  ASSUME NEW A, NEW B \in SUBSET A, B # {},
         \A x \in B, y \in A : results[y].at <= results[x].at,
         \A x \in B, y \in A \ B : ~(results[x].at <= results[y].at)
  PROVE  Last(A) = Last(B)
<1>1. {y \in A : \A z \in A : results[z].at <= results[y].at}
        = {y \in B : \A z \in B : results[z].at <= results[y].at}
  OBVIOUS
<1> QED BY <1>1 DEF Last

\* The rows the board shows of a sub type with a name of its own.
LEMMA NamedRows ==
  ASSUME NEW b, NEW g \in DOMAIN b.names, Named(b.names, g), NEW x \in Req
  PROVE  x \in RowsNamed(b, b.names[g])
           <=> /\ results[x] # None /\ results[x].game = g
               /\ results[x].at \in b.yesterdayStart..b.tomorrowStart
BY DEF RowsNamed, Named

\* Today's field is right at the moment of the last query, or at the end of
\* the day, if that has gone by.
LEMMA TodayRight ==
  ASSUME IInv, NEW b, NEW t \in 0..clock, Midnights(b, t),
         NEW g \in DOMAIN b.names, Named(b.names, g),
         NEW entry \in Last({x \in RowsNamed(b, b.names[g]) : results[x].at >= b.todayStart})
  PROVE  \E s \in t..clock : entry \in LastOn(g, IstDay(s), s)
<1> DEFINE d  == IstDay(t)
           ts == b.todayStart
           tm == b.tomorrowStart
           A  == {x \in RowsNamed(b, b.names[g]) : results[x].at >= b.todayStart}
           On(e, s) == {x \in Req : results[x] # None /\ results[x].game = g
                                     /\ IstDay(results[x].at) = e /\ results[x].at <= s}
           Right(s) == entry \in LastOn(g, IstDay(s), s)
<1>0. t \in Int /\ clock \in Int /\ t <= clock /\ DayLength \in Nat \ {0}
  BY SubTypesAssumption DEF IInv, TypeOK
<1>1. /\ d \in Int /\ ts \in Int /\ tm = ts + DayLength
      /\ b.yesterdayStart = ts - DayLength /\ ts <= t /\ t < tm
      /\ \A s \in Int : IstDay(s) = d <=> ts <= s /\ s < tm
      /\ \A s \in Int : IstDay(s) = d + 1 <=> tm <= s /\ s < tm + DayLength
  BY <1>0, MidnightsFacts
<1>2. \A x \in Req : results[x] # None => results[x].at \in Int /\ results[x].at <= clock
  BY DEF IInv, TypeOK, DatesOK, Result
<1>b. A \subseteq Req
  BY DEF RowsNamed
<1>c. \A x \in Req : x \in A <=> /\ results[x] # None /\ results[x].game = g
                                /\ results[x].at \in b.yesterdayStart..tm /\ results[x].at >= ts
  BY NamedRows
<1>4. \A e, s : LastOn(g, e, s) = Last(On(e, s))
  BY DEF LastOn
<1>5. entry \in Last(A)
  OBVIOUS
<1>m. \A e, s, x : x \in On(e, s) <=> /\ x \in Req /\ results[x] # None /\ results[x].game = g
                                     /\ IstDay(results[x].at) = e /\ results[x].at <= s
  OBVIOUS
<1> HIDE DEF A, d, ts, tm, On
<1>s. \A s : entry \in Last(On(IstDay(s), s)) => Right(s)
  BY <1>4
<1> HIDE DEF Right
<1>3. \A x \in Req : x \in A <=> /\ results[x] # None /\ results[x].game = g
                                /\ ts <= results[x].at /\ results[x].at <= tm
  <2> SUFFICES ASSUME NEW x \in Req, results[x] # None
               PROVE  results[x].at \in b.yesterdayStart..tm /\ results[x].at >= ts
                        <=> ts <= results[x].at /\ results[x].at <= tm
    BY <1>c
  <2>1. results[x].at \in Int
    BY <1>2
  <2> QED BY <1>0, <1>1, <2>1
<1>t. /\ tm \in Int /\ (clock >= tm => tm \in t..clock /\ tm - 1 \in t..clock)
      /\ clock \in t..clock
  BY <1>0, <1>1
<1> SUFFICES \E s \in t..clock : Right(s)
  BY DEF Right
<1>6. CASE clock < tm
  <2>1. IstDay(clock) = d
    BY <1>0, <1>1, <1>6
  <2>2. A = On(d, clock)
    <3>1. ASSUME NEW x \in Req, results[x] # None PROVE x \in A <=> x \in On(d, clock)
      <4>1. results[x].at \in Int /\ results[x].at <= clock
        BY <1>2, <3>1
      <4>2. IstDay(results[x].at) = d <=> ts <= results[x].at /\ results[x].at < tm
        BY <1>1, <4>1
      <4>3. x \in A <=> results[x].game = g /\ ts <= results[x].at /\ results[x].at <= tm
        BY <1>3, <3>1
      <4>4. x \in On(d, clock) <=> /\ results[x].game = g
                                   /\ IstDay(results[x].at) = d /\ results[x].at <= clock
        BY <1>m, <3>1
      <4> QED BY <1>0, <1>t, <1>6, <4>1, <4>2, <4>3, <4>4
    <3> QED BY <1>b, <1>3, <1>m, <3>1
  <2>3. Right(clock)
    BY <1>s, <1>5, <2>1, <2>2
  <2> QED BY <1>t, <2>3
<1>7. CASE clock >= tm /\ \A x \in A : results[x].at # tm
  <2>1. IstDay(tm - 1) = d
    BY <1>0, <1>1, <1>t
  <2>2. A = On(d, tm - 1)
    <3>1. ASSUME NEW x \in Req, results[x] # None PROVE x \in A <=> x \in On(d, tm - 1)
      <4>1. results[x].at \in Int /\ results[x].at <= clock
        BY <1>2, <3>1
      <4>2. IstDay(results[x].at) = d <=> ts <= results[x].at /\ results[x].at < tm
        BY <1>1, <4>1
      <4>3. x \in A <=> results[x].game = g /\ ts <= results[x].at /\ results[x].at <= tm
        BY <1>3, <3>1
      <4>4. x \in On(d, tm - 1) <=> /\ results[x].game = g
                                   /\ IstDay(results[x].at) = d /\ results[x].at <= tm - 1
        BY <1>m, <3>1
      <4> QED BY <1>0, <1>t, <1>7, <4>1, <4>2, <4>3, <4>4
    <3> QED BY <1>b, <1>3, <1>m, <3>1
  <2>3. Right(tm - 1)
    BY <1>s, <1>5, <2>1, <2>2
  <2> QED BY <1>t, <1>7, <2>3
<1>8. CASE clock >= tm /\ \E x \in A : results[x].at = tm
  <2>1. IstDay(tm) = d + 1
    BY <1>0, <1>1, <1>t
  <2> DEFINE B == On(d + 1, tm)
  <2>2. \A x : x \in B <=> /\ x \in Req /\ results[x] # None
                           /\ results[x].game = g /\ results[x].at = tm
    <3> SUFFICES ASSUME NEW x \in Req, results[x] # None
                 PROVE  IstDay(results[x].at) = d + 1 /\ results[x].at <= tm
                          <=> results[x].at = tm
      BY <1>m
    <3>1. results[x].at \in Int
      BY <1>2
    <3>2. IstDay(results[x].at) = d + 1
            <=> tm <= results[x].at /\ results[x].at < tm + DayLength
      BY <1>1, <3>1
    <3> QED BY <1>0, <1>t, <3>1, <3>2
  <2> HIDE DEF B
  <2>3. B \in SUBSET A /\ B # {}
    <3>1. B \in SUBSET A
      BY <1>0, <1>1, <1>3, <1>t, <2>2
    <3>2. B # {}
      BY <1>b, <1>3, <1>8, <2>2
    <3> QED BY <3>1, <3>2
  <2>4. /\ \A x \in B, y \in A : results[y].at <= results[x].at
        /\ \A x \in B, y \in A \ B : ~(results[x].at <= results[y].at)
    <3> SUFFICES ASSUME NEW x \in B, NEW y \in A
                 PROVE  /\ results[y].at <= results[x].at
                        /\ y \notin B => ~(results[x].at <= results[y].at)
      OBVIOUS
    <3>1. results[x].at = tm
      BY <2>2
    <3>2. /\ y \in Req /\ results[y] # None /\ results[y].game = g
          /\ results[y].at <= tm /\ results[y].at \in Int
      BY <1>b, <1>2, <1>3
    <3>3. y \notin B => results[y].at # tm
      BY <2>2, <3>2
    <3> QED BY <1>t, <3>1, <3>2, <3>3
  <2>5. Last(A) = Last(B)
    BY <2>3, <2>4, LastOfPart
  <2>6. Right(tm)
    BY <1>s, <1>5, <2>1, <2>5 DEF B
  <2> QED BY <1>t, <1>8, <2>6
<1> QED BY <1>0, <1>t, <1>6, <1>7, <1>8

\* Yesterday's field is right at the moment the days were computed.
LEMMA YesterdayRight ==
  ASSUME IInv, NEW b, NEW t \in 0..clock, Midnights(b, t),
         NEW g \in DOMAIN b.names, Named(b.names, g),
         NEW entry \in Last(RowsNamed(b, b.names[g])
                              \ {x \in RowsNamed(b, b.names[g]) : results[x].at >= b.todayStart})
  PROVE  entry \in LastOn(g, IstDay(t) - 1, t)
<1> DEFINE d  == IstDay(t)
           ts == b.todayStart
           A  == RowsNamed(b, b.names[g])
                   \ {x \in RowsNamed(b, b.names[g]) : results[x].at >= b.todayStart}
           On == {x \in Req : results[x] # None /\ results[x].game = g
                               /\ IstDay(results[x].at) = d - 1 /\ results[x].at <= t}
<1>0. t \in Int /\ DayLength \in Nat \ {0}
  BY SubTypesAssumption DEF IInv, TypeOK
<1>1. /\ d \in Int /\ ts \in Int /\ b.tomorrowStart = ts + DayLength
      /\ b.yesterdayStart = ts - DayLength /\ ts <= t
      /\ \A s \in Int : IstDay(s) = d - 1 <=> b.yesterdayStart <= s /\ s < ts
  BY <1>0, MidnightsFacts
<1>2. \A x \in Req : results[x] # None => results[x].at \in Int
  BY DEF IInv, TypeOK, Result
<1>b. A \subseteq Req
  BY DEF RowsNamed
<1>c. \A x \in Req : x \in A <=> /\ results[x] # None /\ results[x].game = g
                                /\ results[x].at \in b.yesterdayStart..b.tomorrowStart
                                /\ ~(results[x].at >= ts)
  BY NamedRows
<1>m. \A x : x \in On <=> /\ x \in Req /\ results[x] # None /\ results[x].game = g
                         /\ IstDay(results[x].at) = d - 1 /\ results[x].at <= t
  OBVIOUS
<1>r. LastOn(g, d - 1, t) = Last(On)
  BY DEF LastOn
<1>5. entry \in Last(A)
  OBVIOUS
<1> HIDE DEF A, On, ts
<1>e. (entry \in LastOn(g, d - 1, t)) => (entry \in LastOn(g, IstDay(t) - 1, t))
  OBVIOUS
<1> HIDE DEF d
<1>3. \A x \in Req : x \in A <=> x \in On
  <2> SUFFICES ASSUME NEW x \in Req, results[x] # None
               PROVE  results[x].at \in b.yesterdayStart..b.tomorrowStart /\ ~(results[x].at >= ts)
                        <=> IstDay(results[x].at) = d - 1 /\ results[x].at <= t
    BY <1>c, <1>m
  <2>1. results[x].at \in Int
    BY <1>2
  <2>2. IstDay(results[x].at) = d - 1 <=> b.yesterdayStart <= results[x].at /\ results[x].at < ts
    BY <1>1, <2>1
  <2> QED BY <1>0, <1>1, <2>1, <2>2
<1>4. A = On
  BY <1>b, <1>m, <1>3
<1> QED BY <1>4, <1>5, <1>r, <1>e

-----------------------------------------------------------------------------
(* The steps of one request *)

Act(q) ==
  \/ UpdateSubType(q) \/ LoadRow(q) \/ SaveRow(q)
  \/ GetResultsBoard(q) \/ GetIstDayBoundaries(q) \/ ReadResults(q)
  \/ DeclareResult(q) \/ CommitResult(q) \/ UpdateResult(q) \/ Fail(q)

\* A request leaves what the others are at alone, and time, and has not ended.
LEMMA ActFrame ==
  ASSUME TypeOK, NEW q \in Req, Act(q)
  PROVE  /\ pc[q] \notin {"done", "failed"} /\ clock' = clock
         /\ pc' \in [Req -> Stage]
         /\ DOMAIN call' = Req /\ DOMAIN tx' = Req /\ DOMAIN reply' = Req
         /\ \A r \in Req \ {q} : pc'[r] = pc[r] /\ call'[r] = call[r] /\ tx'[r] = tx[r]
<1> USE DEF TypeOK, Stage
<1>1. CASE UpdateSubType(q)
  BY <1>1 DEF UpdateSubType, Begin, Goto, Keep
<1>2. CASE LoadRow(q)
  BY <1>2 DEF LoadRow, Goto, Keep
<1>3. CASE SaveRow(q)
  BY <1>3 DEF SaveRow, End, Goto, Keep
<1>4. CASE GetResultsBoard(q)
  BY <1>4 DEF GetResultsBoard, Begin, Goto, Keep
<1>5. CASE GetIstDayBoundaries(q)
  BY <1>5 DEF GetIstDayBoundaries, Goto, Keep
<1>6. CASE ReadResults(q)
  BY <1>6 DEF ReadResults, End, Goto, Keep
<1>7. CASE DeclareResult(q)
  BY <1>7 DEF DeclareResult, Begin, Goto, Keep
<1>8. CASE CommitResult(q)
  BY <1>8 DEF CommitResult, End, Goto, Keep
<1>9. CASE UpdateResult(q)
  BY <1>9 DEF UpdateResult, Begin, Goto
<1>10. CASE Fail(q)
  BY <1>10 DEF Fail, End, Goto, Keep
<1> QED BY <1>1, <1>2, <1>3, <1>4, <1>5, <1>6, <1>7, <1>8, <1>9, <1>10 DEF Act

\* Every step is time's, a request's, or none.
LEMMA Steps ==
  ASSUME [Next]_vars
  PROVE  Tick \/ (\E q \in Req : Act(q)) \/ UNCHANGED vars
BY DEF Next, Act

\* An answer stays an answer.
LEMMA AnswersStay ==
  ASSUME TypeOK, [Next]_vars, NEW q \in Req, NEW g, NEW c, Answered(q, g, c)
  PROVE  Answered(q, g, c)'
<1>1. CASE Tick \/ UNCHANGED vars
  BY <1>1 DEF Tick, vars, Answered
<1>2. CASE \E o \in Req : Act(o)
  <2>1. PICK o \in Req : Act(o)
    BY <1>2
  <2>2. o # q
    BY <2>1, ActFrame DEF Answered
  <2> QED BY <2>1, <2>2, ActFrame DEF Answered
<1> QED BY <1>1, <1>2, Steps

\* The only step that writes a sub type is the last query of an edit; it
\* writes what the body asks for, or what was read before another's edit.
LEMMA Writes ==
  ASSUME IInv, [Next]_vars, NEW g \in Game, NEW c \in Column,
         subTypes'[g][c] # subTypes[g][c]
  PROVE  \E r \in Req :
           /\ pc[r] = "save" /\ pc'[r] = "done" /\ call[r].game = g
           /\ call[r].op = "edit" /\ call'[r] = call[r]
           /\ \/ c \in DOMAIN call[r].dto
              \/ /\ subTypes'[g][c] = tx[r].read[c]
                 /\ \E q \in Req \ {r} : Answered(q, g, c)
<1>1. PICK r \in Req : SaveRow(r)
  BY Steps DEF Act, Tick, vars, UpdateSubType, LoadRow, GetResultsBoard, GetIstDayBoundaries,
     ReadResults, DeclareResult, CommitResult, UpdateResult, Fail
<1>2. /\ pc[r] = "save" /\ call' = call /\ EditOK(r)
      /\ pc' = [pc EXCEPT ![r] = "done"]
  BY <1>1 DEF SaveRow, End, Goto, IInv
<1>3. /\ pc'[r] = "done" /\ call[r].game \in Game /\ call[r].op = "edit"
      /\ tx[r].entity = Merged(call[r].dto, tx[r].read)
      /\ tx[r].loaded[c] # tx[r].read[c] => \E q \in Req : Answered(q, call[r].game, c)
  BY <1>2 DEF EditOK, IInv, TypeOK
<1>4. /\ subTypes' = [subTypes EXCEPT ![call[r].game] =
             [k \in Column |-> IF tx[r].entity[k] # tx[r].loaded[k] THEN tx[r].entity[k]
                                                                    ELSE @[k]]]
      /\ DOMAIN subTypes = Game
  BY <1>1 DEF SaveRow, IInv, TypeOK
<1>5. g = call[r].game
  BY <1>3, <1>4
<1>6. tx[r].entity[c] # tx[r].loaded[c] /\ subTypes'[g][c] = tx[r].entity[c]
  BY <1>4, <1>5
<1>7. c \in DOMAIN call[r].dto \/ tx[r].entity[c] = tx[r].read[c]
  BY <1>3 DEF Merged
<1>8. CASE c \notin DOMAIN call[r].dto
  <2>1. subTypes'[g][c] = tx[r].read[c] /\ tx[r].loaded[c] # tx[r].read[c]
    BY <1>6, <1>7, <1>8
  <2>2. PICK q \in Req : Answered(q, g, c)
    BY <1>3, <1>5, <2>1
  <2>3. q # r
    BY <1>2, <2>2 DEF Answered
  <2> QED BY <1>2, <1>3, <1>5, <2>1, <2>2, <2>3
<1> QED BY <1>2, <1>3, <1>5, <1>8

\* Once a column is written, an edit of it has been answered.
LEMMA WritesAnswered ==
  ASSUME IInv, [Next]_vars, NEW g \in Game, NEW c \in Column,
         subTypes'[g][c] # subTypes[g][c]
  PROVE  \E q \in Req : Answered(q, g, c)'
<1>1. PICK r \in Req :
           /\ pc'[r] = "done" /\ call[r].game = g
           /\ call[r].op = "edit" /\ call'[r] = call[r]
           /\ c \in DOMAIN call[r].dto \/ \E q \in Req : Answered(q, g, c)
  BY Writes
<1>2. CASE c \in DOMAIN call[r].dto
  BY <1>1, <1>2 DEF Answered
<1>3. CASE \E q \in Req : Answered(q, g, c)
  BY <1>3, AnswersStay DEF IInv
<1> QED BY <1>1, <1>2, <1>3

\* A value an edit has read is current, or another edit of the column was answered since.
LEMMA CurrentStays ==
  ASSUME IInv, [Next]_vars, NEW v, NEW g \in Game, Current(v, g)
  PROVE  Current(v, g)'
<1> SUFFICES ASSUME NEW c \in Column, v[c] # subTypes'[g][c]
             PROVE  \E q \in Req : Answered(q, g, c)'
  BY DEF Current
<1>1. CASE v[c] # subTypes[g][c]
  BY <1>1, AnswersStay DEF Current, IInv
<1>2. CASE v[c] = subTypes[g][c]
  BY <1>2, WritesAnswered
<1> QED BY <1>1, <1>2

-----------------------------------------------------------------------------
(* The invariant is inductive *)

\* At first no edit is under way and no board is being read.
LEMMA InitInv == Init => IInv
<1> SUFFICES ASSUME Init PROVE IInv
  OBVIOUS
<1>1. TypeOK
  BY SubTypesAssumption DEF Init, TypeOK, SubType, Column, Stage
<1> QED BY <1>1 DEF Init, IInv, DatesOK, EditOK, BoardOK, DeclareOK

\* Every step keeps the types and the dates, and no clock runs backwards.
LEMMA TypeStep ==
  ASSUME IInv, [Next]_vars
  PROVE  TypeOK' /\ DatesOK' /\ clock <= clock'
<1> USE DEF IInv
<1>1. CASE UNCHANGED vars
  BY <1>1 DEF vars, TypeOK, DatesOK
<1>2. CASE Tick
  BY <1>2 DEF Tick, TypeOK, DatesOK, Result
<1>3. CASE \E q \in Req : Act(q)
  <2>1. PICK q \in Req : Act(q)
    BY <1>3
  <2>2. /\ clock' = clock /\ pc' \in [Req -> Stage]
        /\ DOMAIN call' = Req /\ DOMAIN tx' = Req /\ DOMAIN reply' = Req
    BY <2>1, ActFrame
  <2>3. DOMAIN subTypes' = Game /\ \A g \in Game : DOMAIN subTypes'[g] = Column
    <3>1. CASE SaveRow(q)
      BY <3>1 DEF SaveRow, TypeOK
    <3>2. CASE ~SaveRow(q)
      BY <2>1, <3>2 DEF Act, TypeOK, UpdateSubType, LoadRow, GetResultsBoard,
         GetIstDayBoundaries, ReadResults, DeclareResult, CommitResult, UpdateResult, Fail
    <3> QED BY <3>1, <3>2
  <2>4. results' \in [Req -> Result \cup {None}] /\ DatesOK'
    <3>1. CASE CommitResult(q)
      <4>1. /\ call[q].game \in Game /\ call[q].number \in Number
            /\ tx[q].began \in Nat /\ tx[q].began <= clock
        BY <3>1 DEF CommitResult, DeclareOK, TypeOK
      <4>2. results' = [results EXCEPT ![q] =
              [game |-> call[q].game, number |-> call[q].number, at |-> tx[q].began]]
        BY <3>1 DEF CommitResult
      <4>3. results' \in [Req -> Result \cup {None}]
        BY <4>1, <4>2 DEF TypeOK, Result
      <4>4. DatesOK'
        BY <2>2, <4>1, <4>2 DEF TypeOK, DatesOK
      <4> QED BY <4>3, <4>4
    <3>2. CASE UpdateResult(q)
      <4>1. PICK c \in Calls[q] :
              /\ c.op = "correct" /\ results[c.ref] # None
              /\ results' = [results EXCEPT ![c.ref].number = c.number]
        BY <3>2 DEF UpdateResult
      <4>2. c.ref \in Req /\ c.number \in Number
        BY <4>1, SubTypesAssumption DEF CallSet
      <4>3. results[c.ref] \in Result
        BY <4>1, <4>2 DEF TypeOK
      <4>4. [results[c.ref] EXCEPT !.number = c.number] \in Result
        BY <4>2, <4>3 DEF Result
      <4>5. results' \in [Req -> Result \cup {None}]
        BY <4>1, <4>2, <4>4 DEF TypeOK
      <4>6. \A x \in Req : results'[x] # None => results[x] # None /\ results'[x].at = results[x].at
        BY <4>1, <4>2, <4>3 DEF TypeOK, Result
      <4>7. DatesOK'
        BY <2>2, <4>6 DEF DatesOK
      <4> QED BY <4>5, <4>7
    <3>3. CASE ~CommitResult(q) /\ ~UpdateResult(q)
      <4>1. results' = results
        BY <2>1, <3>3 DEF Act, UpdateSubType, LoadRow, SaveRow, GetResultsBoard,
           GetIstDayBoundaries, ReadResults, DeclareResult, Fail
      <4> QED BY <2>2, <4>1 DEF TypeOK, DatesOK
    <3> QED BY <3>1, <3>2, <3>3
  <2> QED BY <2>2, <2>3, <2>4 DEF TypeOK
<1> QED BY <1>1, <1>2, <1>3, Steps

\* A step leaves what the requests know that it is not a step of.
LEMMA OthersStay ==
  ASSUME IInv, [Next]_vars, NEW r \in Req,
         pc'[r] = pc[r], call'[r] = call[r], tx'[r] = tx[r]
  PROVE  (EditOK(r) /\ BoardOK(r) /\ DeclareOK(r))'
<1>1. EditOK(r) /\ BoardOK(r) /\ DeclareOK(r) /\ clock \in Nat /\ clock' \in Nat /\ clock <= clock'
  BY TypeStep DEF IInv, TypeOK
<1>2. EditOK(r)'
  <2> SUFFICES ASSUME pc[r] \in {"load", "save"}
               PROVE  EditOK(r)'
    BY DEF EditOK
  <2>1. PICK v, g : v = tx[r].read /\ g = call[r].game
    OBVIOUS
  <2>2. g \in Game /\ Current(v, g)
    BY <1>1, <2>1 DEF EditOK
  <2>3. Current(v, g)'
    BY <2>2, CurrentStays
  <2>4. ASSUME pc[r] = "save", NEW c \in Column, tx[r].loaded[c] # tx[r].read[c]
        PROVE  \E q \in Req : Answered(q, g, c)'
    <3>1. PICK q \in Req : Answered(q, g, c)
      BY <1>1, <2>1, <2>4 DEF EditOK
    <3> QED BY <3>1, AnswersStay DEF IInv
  <2> QED BY <1>1, <2>1, <2>2, <2>3, <2>4 DEF EditOK, Current
<1>3. BoardOK(r)'
  BY <1>1 DEF BoardOK, Midnights
<1>4. DeclareOK(r)'
  BY <1>1 DEF DeclareOK
<1> QED BY <1>2, <1>3, <1>4

\* The request whose step it is knows what the invariant says it does.
LEMMA OwnStep ==
  ASSUME IInv, [Next]_vars, NEW q \in Req, Act(q)
  PROVE  (EditOK(q) /\ BoardOK(q) /\ DeclareOK(q))'
<1> USE DEF IInv
<1>0. DOMAIN pc = Req /\ DOMAIN call = Req /\ DOMAIN tx = Req /\ clock \in Nat /\ clock' = clock
  BY ActFrame DEF TypeOK
<1>1. CASE UpdateSubType(q)
  <2>1. PICK c \in Calls[q] :
          /\ c.op = "edit" /\ call'[q] = c /\ pc'[q] = "load"
          /\ tx'[q] = [read |-> subTypes[c.game], entity |-> Merged(c.dto, subTypes[c.game]),
                       loaded |-> None]
    BY <1>0, <1>1 DEF UpdateSubType, Begin, Goto, Keep
  <2>2. c.game \in Game
    BY <2>1, SubTypesAssumption DEF CallSet
  <2>3. subTypes' = subTypes
    BY <1>1 DEF UpdateSubType
  <2>4. EditOK(q)'
    BY <2>1, <2>2, <2>3 DEF EditOK, Current
  <2> QED BY <2>1, <2>4 DEF BoardOK, DeclareOK
<1>2. CASE LoadRow(q)
  <2>1. /\ pc[q] = "load" /\ pc'[q] = "save" /\ call' = call /\ subTypes' = subTypes
        /\ tx'[q] = [tx[q] EXCEPT !.loaded = subTypes[call[q].game]]
    BY <1>0, <1>2 DEF LoadRow, Goto, Keep
  <2>2. /\ call[q].op = "edit" /\ call[q].game \in Game
        /\ DOMAIN tx[q] = {"read", "entity", "loaded"}
        /\ tx[q].entity = Merged(call[q].dto, tx[q].read)
        /\ Current(tx[q].read, call[q].game)
    BY <2>1 DEF EditOK
  <2>3. /\ DOMAIN tx'[q] = {"read", "entity", "loaded"}
        /\ tx'[q].entity = tx[q].entity /\ tx'[q].read = tx[q].read
        /\ tx'[q].loaded = subTypes[call[q].game]
    BY <2>1, <2>2
  <2>4. ASSUME NEW c \in Column, NEW o \in Req, Answered(o, call[q].game, c)
        PROVE  pc'[o] = "done" /\ o # q
    BY <2>1, <2>4, <1>2, ActFrame DEF Answered
  <2>5. \A c \in Column : subTypes[call[q].game][c] # tx[q].read[c] =>
          \E o \in Req : Answered(o, call[q].game, c)
    BY <2>2 DEF Current
  <2>6. \A c \in Column : subTypes[call[q].game][c] # tx[q].read[c] =>
          \E o \in Req : /\ pc'[o] = "done" /\ call[o].op = "edit"
                         /\ call[o].game = call[q].game /\ c \in DOMAIN call[o].dto
    BY <2>4, <2>5 DEF Answered
  <2>7. EditOK(q)'
    BY <2>1, <2>2, <2>3, <2>6 DEF EditOK, Current, Answered
  <2> QED BY <2>1, <2>7 DEF BoardOK, DeclareOK
<1>3. CASE GetResultsBoard(q)
  <2>1. /\ pc'[q] = "bounds"
        /\ tx'[q].since = clock
        /\ DOMAIN tx'[q] = {"since", "names", "yesterdayStart", "todayStart", "tomorrowStart"}
    BY <1>0, <1>3 DEF GetResultsBoard, Begin, Goto, Keep
  <2> QED BY <1>0, <2>1 DEF EditOK, BoardOK, DeclareOK
<1>4. CASE GetIstDayBoundaries(q)
  <2>1. /\ pc[q] = "bounds" /\ pc'[q] = "results"
        /\ tx'[q] = [tx[q] EXCEPT !.yesterdayStart = istMidnightToUtc(clock, -1),
                                  !.todayStart     = istMidnightToUtc(clock, 0),
                                  !.tomorrowStart  = istMidnightToUtc(clock, 1)]
    BY <1>0, <1>4 DEF GetIstDayBoundaries, Goto, Keep
  <2>2. /\ DOMAIN tx[q] = {"since", "names", "yesterdayStart", "todayStart", "tomorrowStart"}
        /\ tx[q].since \in 0..clock
    BY <2>1 DEF BoardOK
  <2>3. Midnights(tx'[q], clock) /\ tx'[q].since = tx[q].since
    BY <2>1, <2>2 DEF Midnights
  <2>4. tx[q].since \in Nat /\ clock \in tx[q].since..clock
    BY <1>0, <2>2
  <2>5. BoardOK(q)'
    BY <1>0, <2>1, <2>3, <2>4 DEF BoardOK
  <2> QED BY <2>1, <2>5 DEF EditOK, DeclareOK
<1>5. CASE DeclareResult(q)
  <2>1. PICK c \in Calls[q] : c.op = "declare" /\ call'[q] = c
    BY <1>0, <1>5 DEF DeclareResult, Begin
  <2>2. c.game \in Game /\ c.number \in Number
    BY <2>1, SubTypesAssumption DEF CallSet
  <2>3. pc'[q] = "commit" /\ tx'[q].began = clock
    BY <1>0, <1>5 DEF DeclareResult, Begin, Goto, Keep
  <2> QED BY <1>0, <2>1, <2>2, <2>3 DEF EditOK, BoardOK, DeclareOK
<1>6. CASE SaveRow(q) \/ ReadResults(q) \/ CommitResult(q) \/ UpdateResult(q) \/ Fail(q)
  <2>1. pc'[q] \in {"done", "failed"}
    BY <1>0, <1>6 DEF SaveRow, ReadResults, CommitResult, UpdateResult, Fail, End, Begin, Goto
  <2> QED BY <2>1 DEF EditOK, BoardOK, DeclareOK
<1> QED BY <1>1, <1>2, <1>3, <1>4, <1>5, <1>6 DEF Act

\* Every step keeps the invariant.
LEMMA NextInv ==
  ASSUME IInv, [Next]_vars
  PROVE  IInv'
<1>1. ASSUME NEW r \in Req PROVE (EditOK(r) /\ BoardOK(r) /\ DeclareOK(r))'
  <2>1. CASE Act(r)
    BY <2>1, OwnStep
  <2>2. CASE ~Act(r)
    <3>1. pc'[r] = pc[r] /\ call'[r] = call[r] /\ tx'[r] = tx[r]
      <4>1. CASE Tick \/ UNCHANGED vars
        BY <4>1 DEF Tick, vars
      <4>2. CASE \E q \in Req : Act(q)
        BY <2>2, <4>2, ActFrame DEF IInv
      <4> QED BY <4>1, <4>2, Steps
    <3> QED BY <3>1, OthersStay
  <2> QED BY <2>1, <2>2
<1> QED BY <1>1, TypeStep DEF IInv

\* The invariant: rows keep their columns, results their dates, an edit knows
\* the row it read or another edit of it was answered, and a board's days
\* were computed at one moment of its request.
THEOREM SubTypesInvariance == Spec => []IInv
<1>1. IInv /\ [Next]_vars => IInv'
  BY NextInv
<1> QED BY InitInv, <1>1, PTL DEF Spec

-----------------------------------------------------------------------------
(* What the edits and the board promise *)

\* updateSubType changes a column its body leaves out only to put back what
\* it read before another edit of that column was answered.
THEOREM EditsOnlyUndo == Spec => UnaskedOnlyUndoes
<1>1. ASSUME IInv, [Next]_vars,
             NEW g \in Game, NEW c \in Column, subTypes'[g][c] # subTypes[g][c]
      PROVE  \E r \in Req :
               /\ pc[r] = "save" /\ pc'[r] = "done" /\ call[r].game = g
               /\ \/ c \in DOMAIN call[r].dto
                  \/ /\ subTypes'[g][c] = tx[r].read[c]
                     /\ \E q \in Req \ {r} : Answered(q, g, c)
  BY <1>1, Writes
<1>2. IInv /\ [Next]_vars =>
        [\A g \in Game, c \in Column : subTypes'[g][c] # subTypes[g][c] =>
           \E r \in Req :
             /\ pc[r] = "save" /\ pc'[r] = "done" /\ call[r].game = g
             /\ \/ c \in DOMAIN call[r].dto
                \/ /\ subTypes'[g][c] = tx[r].read[c]
                   /\ \E q \in Req \ {r} : Answered(q, g, c)]_vars
  BY <1>1
<1> QED BY SubTypesInvariance, <1>2, PTL DEF Spec, UnaskedOnlyUndoes

\* The board's step, for the sub type g: its two fields are right, each for a
\* moment of the request.
LEMMA BoardStep ==
  ASSUME IInv, [Next]_vars, NEW r \in Req, pc[r] = "results", pc'[r] = "done",
         NEW g \in DOMAIN tx[r].names, Named(tx[r].names, g)
  PROVE  LET entry == reply'[r][tx[r].names[g]]  moments == tx[r].since..clock IN
           /\ \E t \in moments : entry.today \in LastOn(g, IstDay(t), t)
           /\ \E t \in moments : entry.yest_res \in LastOn(g, IstDay(t) - 1, t)
<1> DEFINE b == tx[r]
           n == b.names[g]
           entry == reply'[r][n]
<1>1. ReadResults(r)
  <2>1. ~(Tick \/ UNCHANGED vars)
    BY DEF Tick, vars
  <2>2. Act(r)
    BY <2>1, Steps, ActFrame DEF IInv
  <2>3. ~(UpdateSubType(r) \/ GetResultsBoard(r) \/ DeclareResult(r) \/ UpdateResult(r))
    BY DEF UpdateSubType, GetResultsBoard, DeclareResult, UpdateResult, Begin
  <2>4. ~(LoadRow(r) \/ SaveRow(r) \/ GetIstDayBoundaries(r) \/ CommitResult(r))
    BY DEF LoadRow, SaveRow, GetIstDayBoundaries, CommitResult
  <2>5. ~Fail(r)
    BY DEF Fail, End, Goto, IInv, TypeOK
  <2> QED BY <2>2, <2>3, <2>4, <2>5 DEF Act
<1>2. /\ clock \in Nat /\ b.since \in Nat /\ DOMAIN reply = Req
  BY DEF IInv, TypeOK, BoardOK
<1>3. PICK t \in b.since..clock : Midnights(b, t)
  BY DEF IInv, BoardOK
<1>4. t \in 0..clock /\ \A s \in t..clock : s \in b.since..clock
  BY <1>2, <1>3
<1>5. /\ entry.today \in Last({x \in RowsNamed(b, n) : results[x].at >= b.todayStart})
      /\ entry.yest_res \in Last(RowsNamed(b, n)
                                  \ {x \in RowsNamed(b, n) : results[x].at >= b.todayStart})
  <2>1. n \in {b.names[h] : h \in DOMAIN b.names}
    OBVIOUS
  <2> QED BY <1>1, <1>2, <2>1 DEF ReadResults
<1> HIDE DEF entry
<1>6. \E s \in t..clock : entry.today \in LastOn(g, IstDay(s), s)
  BY <1>3, <1>4, <1>5, TodayRight
<1>7. entry.yest_res \in LastOn(g, IstDay(t) - 1, t)
  BY <1>3, <1>4, <1>5, YesterdayRight
<1>8. \E s \in b.since..clock : entry.today \in LastOn(g, IstDay(s), s)
  BY <1>4, <1>6
<1>9. \E s \in b.since..clock : entry.yest_res \in LastOn(g, IstDay(s) - 1, s)
  BY <1>3, <1>7
<1> QED BY <1>8, <1>9 DEF entry

\* getResultsBoard: today's and yesterday's fields are right, each for some
\* moment of the request, for every length and offset of a day, whatever
\* declarations, corrections, edits and midnights fall between the queries.
THEOREM BoardRight == Spec => BoardTellsDays
<1>1. IInv /\ [Next]_vars =>
        [\A r \in Req : pc[r] = "results" /\ pc'[r] = "done" =>
           \A g \in DOMAIN tx[r].names : Named(tx[r].names, g) =>
             LET entry == reply'[r][tx[r].names[g]]  moments == tx[r].since..clock IN
               /\ \E t \in moments : entry.today \in LastOn(g, IstDay(t), t)
               /\ \E t \in moments : entry.yest_res \in LastOn(g, IstDay(t) - 1, t)]_vars
  BY BoardStep
<1> QED BY SubTypesInvariance, <1>1, PTL DEF Spec, BoardTellsDays
=============================================================================
