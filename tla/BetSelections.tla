---------------------------- MODULE BetSelections ----------------------------
(***************************************************************************)
(* From the body of POST /bets to the GameBetNumberTbl rows: the checks of *)
(* PlaceBetDto and GameService.resolveSelections.  The body is one state   *)
(* of the module, what becomes of it the next two.                         *)
(***************************************************************************)
EXTENDS PrizeRules, Sequences, SequencesExt

CONSTANTS
  GameType,      \* "jodi" among them
  Selections,    \* bodies' `selections`: sequences of [number, amount]
  AnderBahars    \* bodies' `anderBaharSelections`: of [digit, position, amount]

ANDER_BAHAR_GROUP_SIZE == 10
MaxAmount == 1000000

ASSUME BetSelectionsAssumption ==
  /\ Number = 0..100 /\ Multiplier = 95
  /\ "jodi" \in GameType
  /\ Selections \subseteq Seq([number : Int, amount : Int])
  /\ AnderBahars \subseteq Seq([digit : Int, position : {"ander", "bahar"}, amount : Int])

VARIABLES dto, status, rows
vars == <<dto, status, rows>>

\* The tag of a row: the group it came from, or no group (isHaruf false).
Direct == [digit |-> -1, position |-> "none"]

\* The ranges of PlaceBetDto, BetSelectionDto and AnderBaharSelectionDto.
ValidDto(d) ==
  /\ Len(d.selections) <= 100 /\ Len(d.anderBahar) <= 20
  /\ \A i \in DOMAIN d.selections :
       /\ d.selections[i].number \in 0..100
       /\ d.selections[i].amount \in 1..MaxAmount
  /\ \A i \in DOMAIN d.anderBahar :
       /\ d.anderBahar[i].digit \in 0..9
       /\ d.anderBahar[i].amount \in 10..MaxAmount

\* Mutant of getAnderBaharNumbers: the two positions are swapped.
getAnderBaharNumbers_Swapped(d, position) ==
  IF position = "bahar" THEN {10 * d + k : k \in 0..9} ELSE {10 * k + d : k \in 0..9}

getAnderBaharNumbers(d, position) ==
  IF position = "ander" THEN {10 * d + k : k \in 0..9} ELSE {10 * k + d : k \in 0..9}

\* Mutant of Accumulate: a Map.set that forgets the amount already there.
Accumulate_Overwrite(f, k, a) ==
  [x \in DOMAIN f \cup {k} |-> IF x = k THEN a ELSE f[x]]

\* map.set(k, (map.get(k) ?? 0) + a)
Accumulate(f, k, a) ==
  [x \in DOMAIN f \cup {k} |->
     (IF x \in DOMAIN f THEN f[x] ELSE 0) + (IF x = k THEN a ELSE 0)]

directAmountByNumber(d) ==
  FoldLeft(LAMBDA f, s : Accumulate(f, s.number, s.amount), <<>>, d.selections)

groupAmountByKey(d) ==
  FoldLeft(LAMBDA f, s : Accumulate(f, [digit |-> s.digit, position |-> s.position], s.amount),
           <<>>, d.anderBahar)

\* Mutant of HarufTag: the row does not say which digit it came from.
HarufTag_NoDigit(key) == [digit |-> 0, position |-> key.position]

HarufTag(key) == key

ResolvedRows(d) ==
  LET direct == directAmountByNumber(d)  groups == groupAmountByKey(d) IN
       {[number |-> n, amount |-> direct[n], tag |-> Direct] : n \in DOMAIN direct}
  \cup UNION {{[number |-> n, amount |-> groups[k] \div ANDER_BAHAR_GROUP_SIZE,
                tag |-> HarufTag(k)] : n \in getAnderBaharNumbers(k.digit, k.position)} :
              k \in DOMAIN groups}

\* Mutant of Divisible: no check that the group splits evenly.
Divisible_Unchecked(a) == TRUE

Divisible(a) == a % ANDER_BAHAR_GROUP_SIZE = 0

Resolvable(d) ==
  /\ \A i \in DOMAIN d.anderBahar : Divisible(d.anderBahar[i].amount)
  /\ d.selections # <<>> \/ d.anderBahar # <<>>

-----------------------------------------------------------------------------
Init ==
  /\ dto \in [gameType : GameType, selections : Selections, anderBahar : AnderBahars]
  /\ status = "received" /\ rows = {}

\* The validation pipe.
Validate ==
  /\ status = "received"
  /\ status' = IF ValidDto(dto) THEN "valid" ELSE "rejected"
  /\ UNCHANGED <<dto, rows>>

resolveSelections ==
  /\ status = "valid"
  /\ \/ Resolvable(dto) /\ status' = "resolved" /\ rows' = ResolvedRows(dto)
     \/ ~Resolvable(dto) /\ status' = "rejected" /\ UNCHANGED rows
  /\ UNCHANGED dto

Next == Validate \/ resolveSelections

Spec == Init /\ [][Next]_vars

-----------------------------------------------------------------------------
(* The slip of the bet: what its rows stake on each number. *)
SlipOf(R) == [n \in Number |-> MapThenSumSet(LAMBDA x : x.amount, {x \in R : x.number = n})]

SumOfAmounts(s, I) == MapThenSumSet(LAMBDA i : s[i].amount, I)

(* placeBet debits exactly what the body asks to stake: merging duplicate  *)
(* picks and splitting groups over their ten numbers neither loses nor     *)
(* invents a rupee.                                                        *)
StakeIsDebited ==
  status = "resolved" =>
    Total(SlipOf(rows)) = SumOfAmounts(dto.selections, DOMAIN dto.selections)
                        + SumOfAmounts(dto.anderBahar, DOMAIN dto.anderBahar)

Units(n) == n % 10
Tens(n)  == n \div 10

\* The group pick s covers pair n.
Covers(s, n) ==
  n <= 99 /\ s.digit = (IF s.position = "ander" THEN Tens(n) ELSE Units(n))

(* Whatever number is drawn, the single multiplier on the rows pays each   *)
(* direct pick of it 95 times, and each group covering it 9.5 times, the   *)
(* amount of the body ("the same result as the old full amount x 9.5       *)
(* scheme").  Twice the sums, to stay in the integers.                     *)
PaysAsAdvertised ==
  status = "resolved" =>
    \A n \in Number :
      2 * Multiplier * SlipOf(rows)[n] =
          190 * SumOfAmounts(dto.selections,
                  {i \in DOMAIN dto.selections : dto.selections[i].number = n})
        + 19 * SumOfAmounts(dto.anderBahar,
                  {i \in DOMAIN dto.anderBahar : Covers(dto.anderBahar[i], n)})

(* "So the response can show which group each row came from": at most one  *)
(* row per number and group, one direct row per number, and every group    *)
(* asked for has all its ten rows.                                         *)
RowsTellTheirGroup ==
  status = "resolved" =>
    /\ \A x, y \in rows : x.number = y.number /\ x.tag = y.tag => x = y
    /\ \A i \in DOMAIN dto.anderBahar :
         Cardinality({x \in rows : /\ x.tag # Direct
                                   /\ x.tag.digit = dto.anderBahar[i].digit
                                   /\ x.tag.position = dto.anderBahar[i].position}) = 10

(* The order of the picks in the body does not matter.                     *)
OrderIrrelevant ==
  status = "resolved" =>
    rows = ResolvedRows([dto EXCEPT !.selections = Reverse(@), !.anderBahar = Reverse(@)])
=============================================================================
