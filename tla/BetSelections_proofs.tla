------------------------ MODULE BetSelections_proofs ------------------------
(***************************************************************************)
(* Proofs about BetSelections for bodies of every length and amount the    *)
(* validation lets through: what the rows of a bet add up to.              *)
(***************************************************************************)
EXTENDS BetSelections, Sums

-----------------------------------------------------------------------------
(* What the Maps of resolveSelections hold *)

\* g is the Map after each subset of the indices I, the last one added last.
Tallying(key, amt, I, g) ==
  g = [s \in SUBSET I |-> IF s = {} THEN <<>>
                          ELSE LET x == Max(s) IN Accumulate(g[s \ {x}], key[x], amt[x])]

\* The amounts the members of s have added under key k.
Under(key, amt, s, k) == SumFunctionOnSet(amt, {i \in s : key[i] = k})

\* The Map after s.
Tally(key, amt, s) ==
  IF s = {} THEN <<>> ELSE [k \in {key[i] : i \in s} |-> Under(key, amt, s, k)]

\* A nonempty finite set of integers has a largest member.
LEMMA MaxOf ==
  ASSUME NEW n \in Nat, NEW s \in SUBSET (1..n), s # {}
  PROVE  Max(s) \in s
<1> DEFINE T == {1..k : k \in {i \in 0..n : s \subseteq 1..i}}
<1>1. T # {}
  <2>1. n \in {i \in 0..n : s \subseteq 1..i}
    OBVIOUS
  <2> QED BY <2>1
<1>2. IsFiniteSet(1..n) /\ T \subseteq SUBSET (1..n)
  <2>1. T \subseteq SUBSET (1..n)
    <3> SUFFICES ASSUME NEW k \in 0..n PROVE 1..k \subseteq 1..n
      OBVIOUS
    <3> QED OBVIOUS
  <2> QED BY <2>1, FS_Interval
<1>3. PICK t \in T : \A o \in T : o \subseteq t => o = t
  <2> DEFINE I == 1..n
  <2>1. T # {} /\ IsFiniteSet(I) /\ T \subseteq SUBSET I
    BY <1>1, <1>2
  <2> HIDE DEF T, I
  <2> QED BY <2>1, SmallestSet
<1>4. PICK m \in 0..n : t = 1..m /\ s \subseteq 1..m
  BY <1>3
<1>5. m \in s
  <2> SUFFICES ASSUME m \notin s PROVE FALSE
    OBVIOUS
  <2>1. m # 0
    <3>1. 1..0 = {}
      OBVIOUS
    <3> QED BY <1>4, <3>1
  <2>2. s \subseteq 1..(m - 1) /\ m - 1 \in 0..n
    BY <1>4, <2>1
  <2>3. 1..(m - 1) \in T /\ 1..(m - 1) \subseteq t
    BY <1>4, <2>2
  <2>4. 1..(m - 1) = 1..m
    BY <1>3, <1>4, <2>3
  <2>5. m \in 1..m /\ m \notin 1..(m - 1)
    BY <2>1
  <2> QED BY <2>4, <2>5
<1>6. \E x \in s : \A y \in s : x >= y
  BY <1>4, <1>5
<1> QED BY <1>6 DEF Max

\* One more member adds its amount under its key.
LEMMA TallyStep ==
  ASSUME NEW s, IsFiniteSet(s), NEW key, NEW amt, \A i \in s : amt[i] \in Int, NEW x \in s
  PROVE  Tally(key, amt, s) = Accumulate(Tally(key, amt, s \ {x}), key[x], amt[x])
<1> DEFINE t == s \ {x}
           f == Tally(key, amt, t)
           K == {key[i] : i \in s}
           S(k) == {i \in s : key[i] = k}
           T(k) == {i \in t : key[i] = k}
<1>1. /\ DOMAIN f \cup {key[x]} = K
      /\ \A k \in DOMAIN f : f[k] = Under(key, amt, t, k)
      /\ \A k : k \notin DOMAIN f => T(k) = {}
  <2>1. CASE t = {}
    BY <2>1 DEF Tally
  <2>2. CASE t # {}
    BY <2>2 DEF Tally
  <2> QED BY <2>1, <2>2
<1>2. ASSUME NEW k
      PROVE  Under(key, amt, s, k)
               = (IF k \in DOMAIN f THEN f[k] ELSE 0) + (IF k = key[x] THEN amt[x] ELSE 0)
  <2>1. Under(key, amt, t, k) = IF k \in DOMAIN f THEN f[k] ELSE 0
    <3>1. CASE k \in DOMAIN f
      BY <1>1, <3>1
    <3>2. CASE k \notin DOMAIN f
      <4>1. Under(key, amt, t, k) = SumFunctionOnSet(amt, {})
        BY <1>1, <3>2 DEF Under
      <4> QED BY <3>2, <4>1, SumEmpty
    <3> QED BY <3>1, <3>2
  <2>2. IsFiniteSet(T(k)) /\ \A i \in T(k) : amt[i] \in Int
    BY FS_Subset
  <2>3. SumFunctionOnSet(amt, T(k)) \in Int
    <3> HIDE DEF T
    <3> QED BY <2>2, SumInt
  <2>4. SumFunctionOnSet(amt, S(k)) = SumFunctionOnSet(amt, T(k)) + IF k = key[x] THEN amt[x] ELSE 0
    <3>1. CASE k = key[x]
      <4>1. S(k) = T(k) \cup {x} /\ x \notin T(k)
        BY <3>1
      <4>2. \A i \in T(k) \cup {x} : amt[i] \in Int
        BY <2>2
      <4> HIDE DEF S, T
      <4>3. SumFunctionOnSet(amt, T(k) \cup {x}) = amt[x] + SumFunctionOnSet(amt, T(k))
        BY <2>2, <4>1, <4>2, SumAdd
      <4>4. SumFunctionOnSet(amt, S(k)) = amt[x] + SumFunctionOnSet(amt, T(k)) /\ amt[x] \in Int
        BY <4>1, <4>2, <4>3
      <4> QED BY <2>3, <3>1, <4>4
    <3>2. CASE k # key[x]
      <4>1. S(k) = T(k)
        BY <3>2
      <4>2. SumFunctionOnSet(amt, S(k)) = SumFunctionOnSet(amt, T(k))
        BY <4>1
      <4> HIDE DEF S, T
      <4> QED BY <2>3, <3>2, <4>2
    <3> QED BY <3>1, <3>2
  <2> QED BY <2>1, <2>4 DEF Under
<1>3. Tally(key, amt, s) = [k \in K |-> Under(key, amt, s, k)]
  BY DEF Tally
<1> HIDE DEF f, K
<1> QED BY <1>1, <1>2, <1>3 DEF Accumulate, f, t

\* Indices that are added from the smallest to the largest.
Indices(I) == IsFiniteSet(I) /\ \A s \in SUBSET I : s # {} => Max(s) \in s

\* The groups of a request are added from the first to the last.
LEMMA IndicesOf == \A n \in Nat : Indices(1..n)
<1> SUFFICES ASSUME NEW n \in Nat PROVE Indices(1..n)
  OBVIOUS
<1>1. IsFiniteSet(1..n)
  BY FS_Interval
<1>2. \A s \in SUBSET (1..n) : s # {} => Max(s) \in s
  BY MaxOf
<1> QED BY <1>1, <1>2 DEF Indices

\* The largest index is added last.
LEMMA TallyMax ==
  ASSUME NEW I, Indices(I), NEW key, NEW amt, \A i \in I : amt[i] \in Int,
         NEW s \in SUBSET I, s # {}
  PROVE  /\ Max(s) \in s
         /\ Tally(key, amt, s) = Accumulate(Tally(key, amt, s \ {Max(s)}), key[Max(s)], amt[Max(s)])
<1>1. IsFiniteSet(s) /\ \A i \in s : amt[i] \in Int
  BY FS_Subset DEF Indices
<1>2. Max(s) \in s
  BY DEF Indices
<1>3. ASSUME NEW x \in s PROVE Tally(key, amt, s) = Accumulate(Tally(key, amt, s \ {x}), key[x], amt[x])
  BY <1>1, TallyStep
<1> QED BY <1>2, <1>3

\* Folding a sequence makes the Map that sums its amounts by key.
LEMMA TallyIs ==
  ASSUME NEW I, Indices(I), NEW key, NEW amt, \A i \in I : amt[i] \in Int, NEW g,
         Tallying(key, amt, I, g)
  PROVE  g[I] = Tally(key, amt, I)
<1> DEFINE Bad == {s \in SUBSET I : g[s] # Tally(key, amt, s)}
<1> SUFFICES ASSUME Bad # {} PROVE FALSE
  OBVIOUS
<1>1. Bad \subseteq SUBSET I /\ IsFiniteSet(I)
  BY DEF Indices
<1>2. PICK s \in Bad : \A t \in Bad : t \subseteq s => t = s
  <2> HIDE DEF Bad
  <2> QED BY <1>1, SmallestSet
<1>3. g[s] = IF s = {} THEN <<>> ELSE Accumulate(g[s \ {Max(s)}], key[Max(s)], amt[Max(s)])
  <2>1. Tallying(key, amt, I, g) /\ s \in SUBSET I
    BY <1>1
  <2> HIDE DEF Bad
  <2> QED BY <2>1 DEF Tallying
<1>4. s # {}
  BY <1>3 DEF Tally
<1>5. /\ Max(s) \in s
      /\ Tally(key, amt, s) = Accumulate(Tally(key, amt, s \ {Max(s)}), key[Max(s)], amt[Max(s)])
  BY <1>4, TallyMax
<1>6. g[s \ {Max(s)}] = Tally(key, amt, s \ {Max(s)})
  BY <1>2, <1>5
<1> QED BY <1>3, <1>4, <1>5, <1>6

\* There is such a fold.
LEMMA TallyFolds ==
  ASSUME NEW I, Indices(I), NEW key, NEW amt, \A i \in I : amt[i] \in Int
  PROVE  Tallying(key, amt, I, [s \in SUBSET I |-> Tally(key, amt, s)])
<1> DEFINE g == [s \in SUBSET I |-> Tally(key, amt, s)]
<1>1. ASSUME NEW s \in SUBSET I
      PROVE  g[s] = IF s = {} THEN <<>>
                    ELSE LET x == Max(s) IN Accumulate(g[s \ {x}], key[x], amt[x])
  <2>1. CASE s = {}
    BY <2>1 DEF Tally
  <2>2. CASE s # {}
    BY <2>2, TallyMax
  <2> QED BY <2>1, <2>2
<1>2. g = [s \in SUBSET I |-> IF s = {} THEN <<>>
                    ELSE LET x == Max(s) IN Accumulate(g[s \ {x}], key[x], amt[x])]
  BY <1>1
<1> QED BY <1>2 DEF Tallying

\* What the two Maps of a body are keyed by, and the amounts.
Numbers(S) == [i \in DOMAIN S |-> S[i].number]
Groups(S)  == [i \in DOMAIN S |-> [digit |-> S[i].digit, position |-> S[i].position]]
Amounts(S) == [i \in DOMAIN S |-> S[i].amount]

\* The fold over the direct picks sums their amounts by number.
LEMMA DirectIs ==
  ASSUME NEW d, Indices(DOMAIN d.selections),
         \A i \in DOMAIN d.selections : d.selections[i].amount \in Int
  PROVE  directAmountByNumber(d) =
           Tally(Numbers(d.selections), Amounts(d.selections), DOMAIN d.selections)
<1> DEFINE S == d.selections
           I == DOMAIN S
           P(g) == g = [s \in SUBSET I |-> IF s = {} THEN <<>>
                          ELSE LET x == Max(s) IN Accumulate(g[s \ {x}], S[x].number, S[x].amount)]
           g == CHOOSE h : P(h)
<1>1. directAmountByNumber(d) = g[I]
  BY DEF directAmountByNumber, FoldLeft, MapThenFoldSet
<1>2. ASSUME NEW h PROVE P(h) <=> Tallying(Numbers(S), Amounts(S), I, h)
  <2>1. \A s \in SUBSET I : s # {} =>
          Numbers(S)[Max(s)] = S[Max(s)].number /\ Amounts(S)[Max(s)] = S[Max(s)].amount
    BY DEF Indices, Numbers, Amounts
  <2> HIDE DEF S, I
  <2>2. [s \in SUBSET I |-> IF s = {} THEN <<>>
           ELSE LET x == Max(s) IN Accumulate(h[s \ {x}], S[x].number, S[x].amount)]
        = [s \in SUBSET I |-> IF s = {} THEN <<>>
             ELSE LET x == Max(s) IN Accumulate(h[s \ {x}], Numbers(S)[x], Amounts(S)[x])]
    BY <2>1
  <2> QED BY <2>2 DEF Tallying
<1>3. \A i \in I : Amounts(S)[i] \in Int
  BY DEF Amounts
<1>4. \E h : P(h)
  <2>1. Tallying(Numbers(S), Amounts(S), I, [s \in SUBSET I |-> Tally(Numbers(S), Amounts(S), s)])
    <3> HIDE DEF I, S
    <3> QED BY <1>3, TallyFolds DEF I, S
  <2> HIDE DEF P
  <2> QED BY <1>2, <2>1
<1>5. P(g)
  <2> HIDE DEF P
  <2> QED BY <1>4
<1>6. Tallying(Numbers(S), Amounts(S), I, g)
  <2> HIDE DEF P, g
  <2> QED BY <1>2, <1>5
<1> HIDE DEF g, P
<1> QED BY <1>1, <1>3, <1>6, TallyIs

\* So does the fold over the group picks, by digit and position.
LEMMA GroupsAre ==
  ASSUME NEW d, Indices(DOMAIN d.anderBahar),
         \A i \in DOMAIN d.anderBahar : d.anderBahar[i].amount \in Int
  PROVE  groupAmountByKey(d) =
           Tally(Groups(d.anderBahar), Amounts(d.anderBahar), DOMAIN d.anderBahar)
<1> DEFINE S == d.anderBahar
           I == DOMAIN S
           P(g) == g = [s \in SUBSET I |-> IF s = {} THEN <<>>
                          ELSE LET x == Max(s) IN
                                 Accumulate(g[s \ {x}],
                                   [digit |-> S[x].digit, position |-> S[x].position], S[x].amount)]
           g == CHOOSE h : P(h)
<1>1. groupAmountByKey(d) = g[I]
  BY DEF groupAmountByKey, FoldLeft, MapThenFoldSet
<1>2. ASSUME NEW h PROVE P(h) <=> Tallying(Groups(S), Amounts(S), I, h)
  <2>1. \A s \in SUBSET I : s # {} =>
          /\ Groups(S)[Max(s)] = [digit |-> S[Max(s)].digit, position |-> S[Max(s)].position]
          /\ Amounts(S)[Max(s)] = S[Max(s)].amount
    BY DEF Indices, Groups, Amounts
  <2> HIDE DEF S, I
  <2>2. [s \in SUBSET I |-> IF s = {} THEN <<>>
           ELSE LET x == Max(s) IN
                  Accumulate(h[s \ {x}],
                    [digit |-> S[x].digit, position |-> S[x].position], S[x].amount)]
        = [s \in SUBSET I |-> IF s = {} THEN <<>>
             ELSE LET x == Max(s) IN Accumulate(h[s \ {x}], Groups(S)[x], Amounts(S)[x])]
    BY <2>1
  <2> QED BY <2>2 DEF Tallying
<1>3. \A i \in I : Amounts(S)[i] \in Int
  BY DEF Amounts
<1>4. \E h : P(h)
  <2>1. Tallying(Groups(S), Amounts(S), I, [s \in SUBSET I |-> Tally(Groups(S), Amounts(S), s)])
    <3> HIDE DEF I, S
    <3> QED BY <1>3, TallyFolds DEF I, S
  <2> HIDE DEF P
  <2> QED BY <1>2, <2>1
<1>5. P(g)
  <2> HIDE DEF P
  <2> QED BY <1>4
<1>6. Tallying(Groups(S), Amounts(S), I, g)
  <2> HIDE DEF P, g
  <2> QED BY <1>2, <1>5
<1> HIDE DEF g, P
<1> QED BY <1>1, <1>3, <1>6, TallyIs

-----------------------------------------------------------------------------
(* The digits of a number *)

\* A number is its tens and its units.
LEMMA TensAndUnits ==
  ASSUME NEW n \in Nat
  PROVE  n \div 10 \in Nat /\ n % 10 \in 0..9 /\ n = 10 * (n \div 10) + (n % 10)
OBVIOUS

\* The tens and the units of a number put together.
LEMMA DigitsApart ==
  ASSUME NEW m \in Nat, NEW u \in 0..9
  PROVE  (10 * m + u) \div 10 = m /\ (10 * m + u) % 10 = u
OBVIOUS

-----------------------------------------------------------------------------
(* The rows of a body that has been let in *)

BodyOK(d) ==
  /\ Indices(DOMAIN d.selections) /\ Indices(DOMAIN d.anderBahar)
  /\ \A i \in DOMAIN d.selections :
       d.selections[i].number \in 0..100 /\ d.selections[i].amount \in Nat
  /\ \A i \in DOMAIN d.anderBahar :
       /\ d.anderBahar[i].digit \in 0..9 /\ d.anderBahar[i].position \in {"ander", "bahar"}
       /\ d.anderBahar[i].amount \in Nat /\ d.anderBahar[i].amount % 10 = 0

\* The numbers picked directly, and the groups.
Picked(d) == {Numbers(d.selections)[i] : i \in DOMAIN d.selections}
Asked(d)  == {Groups(d.anderBahar)[i] : i \in DOMAIN d.anderBahar}

\* What a body stakes on a number directly, on a group, and on each pair of it.
OnNumber(d, n) == Under(Numbers(d.selections), Amounts(d.selections), DOMAIN d.selections, n)
OnGroup(d, k)  == Under(Groups(d.anderBahar), Amounts(d.anderBahar), DOMAIN d.anderBahar, k)
OnPair(d, k)   == OnGroup(d, k) \div 10

Pairs(k) == getAnderBaharNumbers(k.digit, k.position)
Key      == [digit : 0..9, position : {"ander", "bahar"}]

DirectRows(d)   == {[number |-> n, amount |-> OnNumber(d, n), tag |-> Direct] : n \in Picked(d)}
GroupRows(d, k) == {[number |-> n, amount |-> OnPair(d, k), tag |-> k] : n \in Pairs(k)}

\* What the picks of a body are keyed by, in its types.
LEMMA BodyTypes ==
  ASSUME NEW d, BodyOK(d)
  PROVE  /\ IsFiniteSet(DOMAIN d.selections) /\ IsFiniteSet(DOMAIN d.anderBahar)
         /\ \A i \in DOMAIN d.selections :
              Amounts(d.selections)[i] \in Nat /\ Numbers(d.selections)[i] \in Picked(d)
         /\ \A i \in DOMAIN d.anderBahar :
              Amounts(d.anderBahar)[i] \in Nat /\ Groups(d.anderBahar)[i] \in Asked(d)
         /\ Picked(d) \subseteq 0..100 /\ Asked(d) \subseteq Key
         /\ IsFiniteSet(Picked(d)) /\ IsFiniteSet(Asked(d)) /\ Direct \notin Asked(d)
<1>1. /\ IsFiniteSet(DOMAIN d.selections) /\ IsFiniteSet(DOMAIN d.anderBahar)
      /\ Picked(d) \subseteq 0..100 /\ Asked(d) \subseteq Key
  <2>1. IsFiniteSet(DOMAIN d.selections) /\ IsFiniteSet(DOMAIN d.anderBahar)
    BY DEF BodyOK, Indices
  <2>2. \A i \in DOMAIN d.selections : Numbers(d.selections)[i] \in 0..100
    BY DEF BodyOK, Numbers
  <2>3. \A i \in DOMAIN d.anderBahar : Groups(d.anderBahar)[i] \in Key
    BY DEF BodyOK, Groups, Key
  <2> QED BY <2>1, <2>2, <2>3 DEF Picked, Asked
<1>2. IsFiniteSet(Picked(d)) /\ IsFiniteSet(Asked(d))
  BY <1>1, Image DEF Picked, Asked
<1>3. Direct \notin Key
  BY DEF Direct, Key
<1> QED BY <1>1, <1>2, <1>3 DEF BodyOK, Picked, Asked, Amounts

\* A group has ten pairs, none of them 100.
LEMMA TenPairs ==
  ASSUME NEW k \in Key
  PROVE  Pairs(k) \subseteq 0..99 /\ IsFiniteSet(Pairs(k)) /\ Cardinality(Pairs(k)) = 10
<1> DEFINE D == k.digit
           J == 0..9
           name == [j \in J |-> IF k.position = "ander" THEN 10 * D + j ELSE 10 * j + D]
<1>1. D \in 0..9 /\ k.position \in {"ander", "bahar"}
  BY DEF Key
<1>2. Pairs(k) = {name[j] : j \in J}
  BY <1>1 DEF Pairs, getAnderBaharNumbers
<1>3. IsFiniteSet(J) /\ Cardinality(J) = 10
  <2> DEFINE lo == 0  hi == 9
  <2>1. lo \in Int /\ hi \in Int /\ ~(lo > hi) /\ hi - lo + 1 = 10
    OBVIOUS
  <2>2. J = lo..hi
    OBVIOUS
  <2> HIDE DEF lo, hi, J
  <2>3. IsFiniteSet(lo..hi) /\ Cardinality(lo..hi) = hi - lo + 1
    BY <2>1, FS_Interval
  <2> QED BY <2>1, <2>2, <2>3
<1>4. \A i, j \in J : name[i] = name[j] => i = j
  BY <1>1
<1>5. \A j \in J : name[j] \in 0..99
  BY <1>1
<1> HIDE DEF J, name
<1> QED BY <1>2, <1>3, <1>4, <1>5, Image

\* The pairs of a group are those the pick of it covers.
LEMMA PairsCovered ==
  ASSUME NEW d, BodyOK(d), NEW i \in DOMAIN d.anderBahar, NEW n \in 0..100
  PROVE  Covers(d.anderBahar[i], n) <=> n \in Pairs(Groups(d.anderBahar)[i])
<1> DEFINE D == d.anderBahar[i].digit
           p == d.anderBahar[i].position
<1>1. D \in 0..9 /\ p \in {"ander", "bahar"}
  BY DEF BodyOK
<1>2. Pairs(Groups(d.anderBahar)[i]) = getAnderBaharNumbers(D, p)
  BY DEF Pairs, Groups
<1>3. Covers(d.anderBahar[i], n) <=> n <= 99 /\ D = IF p = "ander" THEN n \div 10 ELSE n % 10
  BY DEF Covers, Tens, Units
<1> HIDE DEF D, p
<1>4. n \div 10 \in Nat /\ n % 10 \in 0..9 /\ n = 10 * (n \div 10) + (n % 10)
  BY TensAndUnits
<1>5. CASE p = "ander"
  <2>1. ASSUME n <= 99, D = n \div 10 PROVE n \in {10 * D + k : k \in 0..9}
    BY <1>4, <2>1
  <2>2. ASSUME NEW k \in 0..9, n = 10 * D + k PROVE n <= 99 /\ D = n \div 10
    BY <1>1, <2>2, DigitsApart
  <2> QED BY <1>2, <1>3, <1>5, <2>1, <2>2 DEF getAnderBaharNumbers
<1>6. CASE p # "ander"
  <2>1. ASSUME n <= 99, D = n % 10 PROVE n \in {10 * k + D : k \in 0..9}
    <3> DEFINE m == n \div 10
    <3>1. m \in Nat /\ n = 10 * m + D
      BY <1>4, <2>1
    <3> HIDE DEF m
    <3>2. m \in 0..9
      BY <1>1, <2>1, <3>1
    <3> QED BY <3>1, <3>2
  <2>2. ASSUME NEW k \in 0..9, n = 10 * k + D PROVE n <= 99 /\ D = n % 10
    BY <1>1, <2>2, DigitsApart
  <2> QED BY <1>2, <1>3, <1>6, <2>1, <2>2 DEF getAnderBaharNumbers
<1> QED BY <1>5, <1>6

\* Amounts add up to a natural number, those of a group to a multiple of ten.
LEMMA OnTypes ==
  ASSUME NEW d, BodyOK(d)
  PROVE  /\ \A n : OnNumber(d, n) \in Nat
         /\ \A k : OnGroup(d, k) \in Nat /\ OnPair(d, k) \in Nat /\ OnGroup(d, k) = 10 * OnPair(d, k)
<1>1. ASSUME NEW n PROVE OnNumber(d, n) \in Nat
  <2> DEFINE T == {i \in DOMAIN d.selections : Numbers(d.selections)[i] = n}
  <2>1. IsFiniteSet(T) /\ \A i \in T : Amounts(d.selections)[i] \in Nat
    BY BodyTypes, FS_Subset
  <2>2. OnNumber(d, n) = SumFunctionOnSet(Amounts(d.selections), T)
    BY DEF OnNumber, Under
  <2> HIDE DEF T
  <2> QED BY <2>1, <2>2, SumNat
<1>2. ASSUME NEW k
      PROVE  OnGroup(d, k) \in Nat /\ OnPair(d, k) \in Nat /\ OnGroup(d, k) = 10 * OnPair(d, k)
  <2> DEFINE T == {i \in DOMAIN d.anderBahar : Groups(d.anderBahar)[i] = k}
             a == Amounts(d.anderBahar)
             t == [i \in T |-> a[i] \div 10]
  <2>1. IsFiniteSet(T) /\ \A i \in T : a[i] \in Nat
    BY BodyTypes, FS_Subset
  <2>2. OnGroup(d, k) = SumFunctionOnSet(a, T)
    BY DEF OnGroup, Under
  <2>3. \A i \in T : t[i] \in Nat /\ t[i] \in Int /\ a[i] \in Int /\ a[i] = 10 * t[i] + 0 * t[i]
    <3> TAKE i \in T
    <3>1. a[i] \in Nat /\ a[i] % 10 = 0
      BY DEF BodyOK, Amounts
    <3>2. t[i] = a[i] \div 10
      OBVIOUS
    <3> HIDE DEF a, t
    <3>3. t[i] \in Nat /\ a[i] = 10 * t[i] + (a[i] % 10)
      BY <3>1, <3>2, TensAndUnits
    <3> QED BY <3>1, <3>3
  <2> HIDE DEF T, a, t
  <2>4. SumFunctionOnSet(t, T) \in Nat
    BY <2>1, <2>3, SumNat
  <2>5. SumFunctionOnSet(a, T) = 10 * SumFunctionOnSet(t, T) + 0 * SumFunctionOnSet(t, T)
    BY <2>1, <2>3, SumCombined
  <2>6. OnPair(d, k) = OnGroup(d, k) \div 10
    BY DEF OnPair
  <2> QED BY <2>2, <2>4, <2>5, <2>6
<1> QED BY <1>1, <1>2

\* The rows of a body.
LEMMA RowsAre ==
  ASSUME NEW d, BodyOK(d)
  PROVE  ResolvedRows(d) = DirectRows(d) \cup UNION {GroupRows(d, k) : k \in Asked(d)}
<1> DEFINE f == directAmountByNumber(d)
           g == groupAmountByKey(d)
<1>1. DOMAIN f = Picked(d) /\ \A n \in Picked(d) : f[n] = OnNumber(d, n)
  <2>1. f = Tally(Numbers(d.selections), Amounts(d.selections), DOMAIN d.selections)
    BY DirectIs DEF BodyOK
  <2> HIDE DEF f
  <2> QED BY <2>1 DEF Tally, Picked, OnNumber
<1>2. DOMAIN g = Asked(d) /\ \A k \in Asked(d) : g[k] = OnGroup(d, k)
  <2>1. g = Tally(Groups(d.anderBahar), Amounts(d.anderBahar), DOMAIN d.anderBahar)
    BY GroupsAre DEF BodyOK
  <2> HIDE DEF g
  <2> QED BY <2>1 DEF Tally, Asked, OnGroup
<1>3. ResolvedRows(d) =
          {[number |-> n, amount |-> f[n], tag |-> Direct] : n \in DOMAIN f}
     \cup UNION {{[number |-> n, amount |-> g[k] \div 10, tag |-> k] : n \in Pairs(k)} :
                 k \in DOMAIN g}
  BY DEF ResolvedRows, HarufTag, ANDER_BAHAR_GROUP_SIZE, Pairs
<1> HIDE DEF f, g
<1>4. {[number |-> n, amount |-> f[n], tag |-> Direct] : n \in DOMAIN f} = DirectRows(d)
  BY <1>1 DEF DirectRows
<1>5. UNION {{[number |-> n, amount |-> g[k] \div 10, tag |-> k] : n \in Pairs(k)} : k \in DOMAIN g}
        = UNION {GroupRows(d, k) : k \in Asked(d)}
  BY <1>2 DEF GroupRows, OnPair
<1> QED BY <1>3, <1>4, <1>5

-----------------------------------------------------------------------------
(* What the rows on the numbers of a set M stake *)

RowsOn(R, M) == {x \in R : x.number \in M}

\* The direct picks of a number of M; the group rows; what they stake on M, by group.
PicksOf(d, M)  == {i \in DOMAIN d.selections : Numbers(d.selections)[i] \in M}
GroupsOf(d)    == UNION {GroupRows(d, k) : k \in Asked(d)}
OnPairs(d, M)  == [k \in Asked(d) |-> OnPair(d, k) * Cardinality(Pairs(k) \cap M)]

\* The direct rows stake what the direct picks ask for.
LEMMA DirectSum ==
  ASSUME NEW d, BodyOK(d), NEW M, NEW f,
         \A x \in DirectRows(d) : x.number \in M => f[x] = x.amount
  PROVE  /\ IsFiniteSet(RowsOn(DirectRows(d), M))
         /\ \A x \in RowsOn(DirectRows(d), M) : x.amount \in Nat
         /\ SumFunctionOnSet(f, RowsOn(DirectRows(d), M))
              = SumFunctionOnSet(Amounts(d.selections), PicksOf(d, M))
<1> DEFINE X == RowsOn(DirectRows(d), M)
           N == Picked(d) \cap M
           row == [n \in N |-> [number |-> n, amount |-> OnNumber(d, n), tag |-> Direct]]
           h == [n \in N |-> OnNumber(d, n)]
           a == Amounts(d.selections)
           key == Numbers(d.selections)
           I == PicksOf(d, M)
           F == [n \in N |-> SumFunctionOnSet(a, {i \in I : key[i] = n})]
<1>1. IsFiniteSet(N) /\ IsFiniteSet(I) /\ \A i \in I : a[i] \in Nat /\ key[i] \in N
  BY BodyTypes, FS_Subset DEF PicksOf
<1>2. X = {row[n] : n \in N}
  BY DEF DirectRows, RowsOn
<1>3. \A n \in N : /\ row[n].number = n /\ row[n].amount = OnNumber(d, n)
                   /\ row[n] \in X /\ h[n] = OnNumber(d, n)
  BY DEF DirectRows, RowsOn
<1>4. \A n \in N : h[n] \in Nat /\ h[n] \in Int /\ f[row[n]] = h[n]
  BY <1>3, OnTypes DEF RowsOn
<1>5. IsFiniteSet(X) /\ SumFunctionOnSet(h, N) = SumFunctionOnSet(f, X)
  <2>1. \A m, n \in N : row[m] = row[n] => m = n
    BY <1>3
  <2>2. \A n \in N : f[row[n]] \in Int /\ h[n] = f[row[n]]
    BY <1>4
  <2>3. IsFiniteSet(N)
    BY <1>1
  <2> HIDE DEF X, N, row, h
  <2>4. /\ IsFiniteSet({row[n] : n \in N})
        /\ SumFunctionOnSet(h, N) = SumFunctionOnSet(f, {row[n] : n \in N})
    BY <2>1, <2>2, <2>3, SumRenamed
  <2> QED BY <1>2, <2>4
<1>6. \A n \in N : h[n] = F[n]
  <2> TAKE n \in N
  <2>1. {i \in I : key[i] = n} = {i \in DOMAIN d.selections : key[i] = n}
    BY DEF PicksOf
  <2> QED BY <2>1 DEF OnNumber, Under
<1>7. SumFunctionOnSet(h, N) = SumFunctionOnSet(F, N)
  <2> HIDE DEF h, F, N
  <2> QED BY <1>1, <1>6, SumSame
<1>8. SumFunctionOnSet(a, I) = SumFunctionOnSet(F, N)
  <2>1. \A i \in I : a[i] \in Int /\ key[i] \in N
    BY <1>1
  <2> HIDE DEF I, N, a, key
  <2> QED BY <1>1, <2>1, SumParts
<1>9. \A x \in X : x.amount \in Nat
  BY OnTypes DEF DirectRows, RowsOn
<1> QED BY <1>5, <1>7, <1>8, <1>9

\* The rows of one group stake the same on each of its pairs.
LEMMA GroupSum ==
  ASSUME NEW d, BodyOK(d), NEW M, NEW k \in Asked(d), NEW f,
         \A x \in GroupRows(d, k) : x.number \in M => f[x] = x.amount
  PROVE  /\ IsFiniteSet(RowsOn(GroupRows(d, k), M))
         /\ \A x \in RowsOn(GroupRows(d, k), M) : x.amount \in Nat
         /\ SumFunctionOnSet(f, RowsOn(GroupRows(d, k), M)) = OnPair(d, k) * Cardinality(Pairs(k) \cap M)
<1> DEFINE X == RowsOn(GroupRows(d, k), M)
           N == Pairs(k) \cap M
           c == OnPair(d, k)
           row == [n \in N |-> [number |-> n, amount |-> c, tag |-> k]]
           h == [n \in N |-> c]
<1>1. IsFiniteSet(N)
  <2>1. k \in Key
    BY BodyTypes
  <2> QED BY <2>1, TenPairs, FS_Subset
<1>2. X = {row[n] : n \in N}
  BY DEF GroupRows, RowsOn
<1>3. \A n \in N : row[n].number = n /\ row[n].amount = c /\ row[n] \in X
  BY DEF GroupRows, RowsOn
<1>4. c \in Int /\ (\A n \in N : h[n] = c) /\ \A n \in N : f[row[n]] \in Int /\ h[n] = f[row[n]]
  BY <1>3, OnTypes DEF RowsOn
<1>5. IsFiniteSet(X) /\ SumFunctionOnSet(h, N) = SumFunctionOnSet(f, X)
  <2>1. \A m, n \in N : row[m] = row[n] => m = n
    BY <1>3
  <2>2. \A n \in N : f[row[n]] \in Int /\ h[n] = f[row[n]]
    BY <1>4
  <2> HIDE DEF X, N, row, h, c
  <2> QED BY <1>1, <1>2, <2>1, <2>2, SumRenamed
<1>6. SumFunctionOnSet(h, N) = c * Cardinality(N)
  <2> HIDE DEF h, N, c
  <2> QED BY <1>1, <1>4, SumConstant
<1>7. \A x \in X : x.amount \in Nat
  BY OnTypes DEF GroupRows, RowsOn
<1> QED BY <1>5, <1>6, <1>7

\* The rows of all groups.
LEMMA GroupsSum ==
  ASSUME NEW d, BodyOK(d), NEW M, NEW f,
         \A k \in Asked(d) : \A x \in GroupRows(d, k) : x.number \in M => f[x] = x.amount
  PROVE  /\ IsFiniteSet(RowsOn(GroupsOf(d), M))
         /\ \A x \in RowsOn(GroupsOf(d), M) : x.amount \in Nat
         /\ SumFunctionOnSet(f, RowsOn(GroupsOf(d), M)) = SumFunctionOnSet(OnPairs(d, M), Asked(d))
<1> DEFINE K == Asked(d)
           X == RowsOn(GroupsOf(d), M)
           P(k) == RowsOn(GroupRows(d, k), M)
           part == [k \in K |-> P(k)]
           tag == [x \in X |-> x.tag]
           F == [k \in K |-> SumFunctionOnSet(f, {x \in X : tag[x] = k})]
           G == OnPairs(d, M)
<1>1. \A k \in K : /\ IsFiniteSet(P(k)) /\ \A x \in P(k) : x.amount \in Nat
                   /\ SumFunctionOnSet(f, P(k)) = OnPair(d, k) * Cardinality(Pairs(k) \cap M)
  BY GroupSum
<1>2. IsFiniteSet(K)
  BY BodyTypes
<1>3. X = UNION {part[k] : k \in K}
  BY DEF RowsOn, GroupsOf
<1>4. IsFiniteSet(X)
  <2> DEFINE T == {part[k] : k \in K}
  <2>1. \A p \in T : IsFiniteSet(p)
    BY <1>1
  <2>2. IsFiniteSet(T)
    <3> HIDE DEF K, part
    <3> QED BY <1>2, Image
  <2>3. IsFiniteSet(UNION T)
    <3> HIDE DEF T
    <3> QED BY <2>1, <2>2, FS_UNION
  <2> QED BY <1>3, <2>3
<1>5. \A x \in X : tag[x] \in K /\ x.amount \in Nat /\ f[x] \in Int
  <2> TAKE x \in X
  <2>1. PICK k \in K : x \in P(k)
    BY <1>3
  <2>2. x.amount \in Nat
    BY <1>1, <2>1
  <2>3. f[x] = x.amount
    BY <2>1 DEF RowsOn
  <2>4. x.tag = k
    BY <2>1 DEF GroupRows, RowsOn
  <2> QED BY <2>2, <2>3, <2>4
<1>6. SumFunctionOnSet(f, X) = SumFunctionOnSet(F, K)
  <2>1. \A x \in X : f[x] \in Int /\ tag[x] \in K
    BY <1>5
  <2> HIDE DEF X, K, tag
  <2> QED BY <1>2, <1>4, <2>1, SumParts
<1>7. \A k \in K : F[k] = G[k]
  <2> TAKE k \in K
  <2>1. {x \in X : tag[x] = k} = P(k)
    BY DEF GroupRows, RowsOn, GroupsOf
  <2>2. F[k] = SumFunctionOnSet(f, {x \in X : tag[x] = k})
    OBVIOUS
  <2>3. G[k] = OnPair(d, k) * Cardinality(Pairs(k) \cap M)
    BY DEF OnPairs
  <2> HIDE DEF P, X, tag, G
  <2> QED BY <1>1, <2>1, <2>2, <2>3
<1>8. SumFunctionOnSet(F, K) = SumFunctionOnSet(G, K)
  <2> HIDE DEF F, G, K
  <2> QED BY <1>2, <1>7, SumSame
<1> QED BY <1>4, <1>5, <1>6, <1>8

\* All the rows.
LEMMA RowSum ==
  ASSUME NEW d, BodyOK(d), NEW M, NEW f,
         \A x \in RowsOn(ResolvedRows(d), M) : f[x] = x.amount
  PROVE  /\ IsFiniteSet(RowsOn(ResolvedRows(d), M))
         /\ \A x \in RowsOn(ResolvedRows(d), M) : x.amount \in Nat
         /\ SumFunctionOnSet(f, RowsOn(ResolvedRows(d), M))
              = SumFunctionOnSet(Amounts(d.selections), PicksOf(d, M))
                + SumFunctionOnSet(OnPairs(d, M), Asked(d))
<1> DEFINE X == RowsOn(ResolvedRows(d), M)
           D == RowsOn(DirectRows(d), M)
           G == RowsOn(GroupsOf(d), M)
<1>1. X = D \cup G
  BY RowsAre DEF RowsOn, GroupsOf
<1>2. D \cap G = {}
  <2>1. \A x \in D : x.tag = Direct
    BY DEF DirectRows, RowsOn
  <2>2. \A x \in G : x.tag \in Asked(d)
    BY DEF GroupRows, RowsOn, GroupsOf
  <2>3. Direct \notin Asked(d)
    BY BodyTypes
  <2> HIDE DEF D, G
  <2> QED BY <2>1, <2>2, <2>3
<1>3. /\ IsFiniteSet(D) /\ \A x \in D : x.amount \in Nat
      /\ SumFunctionOnSet(f, D) = SumFunctionOnSet(Amounts(d.selections), PicksOf(d, M))
  <2>1. \A x \in DirectRows(d) : x.number \in M => f[x] = x.amount
    BY <1>1 DEF RowsOn
  <2> QED BY <2>1, DirectSum
<1>4. /\ IsFiniteSet(G) /\ \A x \in G : x.amount \in Nat
      /\ SumFunctionOnSet(f, G) = SumFunctionOnSet(OnPairs(d, M), Asked(d))
  <2>1. \A k \in Asked(d) : \A x \in GroupRows(d, k) : x.number \in M => f[x] = x.amount
    BY <1>1 DEF RowsOn, GroupsOf
  <2> QED BY <2>1, GroupsSum
<1> HIDE DEF X, D, G
<1>5. SumFunctionOnSet(f, D \cup G) = SumFunctionOnSet(f, D) + SumFunctionOnSet(f, G)
  <2>1. \A x \in D \cup G : f[x] \in Int
    BY <1>1, <1>3, <1>4 DEF X
  <2> QED BY <1>2, <1>3, <1>4, <2>1, SumUnion
<1>6. IsFiniteSet(X) /\ \A x \in X : x.amount \in Nat
  BY <1>1, <1>3, <1>4, FS_Union
<1> QED BY <1>1, <1>3, <1>4, <1>5, <1>6 DEF X

-----------------------------------------------------------------------------
(* The slip of the bet *)

\* The sum of the amounts of a sequence, as the sum of a function.
LEMMA PickedAmounts ==
  ASSUME NEW s, NEW I, I \subseteq DOMAIN s
  PROVE  SumOfAmounts(s, I) = SumFunctionOnSet(Amounts(s), I)
<1> DEFINE f == Amounts(s)
           P(g) == g = [t \in SUBSET I |-> IF t = {} THEN 0
                          ELSE LET x == CHOOSE x \in t : TRUE IN s[x].amount + g[t \ {x}]]
<1>1. SumOfAmounts(s, I) = (CHOOSE g : P(g))[I]
  BY DEF SumOfAmounts, MapThenSumSet, MapThenFoldSet
<1>2. SumFunctionOnSet(f, I) = (CHOOSE g : Running(f, I, g))[I]
  BY DEF SumFunctionOnSet, FoldFunctionOnSet, MapThenFoldSet, Running
<1>3. \A x \in I : f[x] = s[x].amount
  BY DEF Amounts
<1>4. ASSUME NEW g PROVE P(g) <=> Running(f, I, g)
  <2> HIDE DEF f
  <2> QED BY <1>3 DEF Running
<1> HIDE DEF P
<1> QED BY <1>1, <1>2, <1>4

\* What the slip of a body stakes on one number.
LEMMA SlipIs ==
  ASSUME NEW d, BodyOK(d), NEW n \in Number
  PROVE  SlipOf(ResolvedRows(d))[n] = SumFunctionOnSet(Amounts(d.selections), PicksOf(d, {n}))
                                    + SumFunctionOnSet(OnPairs(d, {n}), Asked(d))
<1> DEFINE R == ResolvedRows(d)
           X == RowsOn(R, {n})
           f == [x \in X |-> x.amount]
<1>1. SlipOf(R)[n] = MapThenSumSet(LAMBDA x : x.amount, {x \in R : x.number = n})
  BY DEF SlipOf
<1>2. {x \in R : x.number = n} = X
  BY DEF RowsOn
<1>3. \A x \in X : f[x] = x.amount
  OBVIOUS
<1> HIDE DEF f, X
<1>4. MapThenSumSet(LAMBDA x : x.amount, X) = SumFunctionOnSet(f, X)
  BY <1>3, AmountsOver
<1>5. SumFunctionOnSet(f, X) = SumFunctionOnSet(Amounts(d.selections), PicksOf(d, {n}))
                             + SumFunctionOnSet(OnPairs(d, {n}), Asked(d))
  BY <1>3, RowSum DEF X
<1> QED BY <1>1, <1>2, <1>4, <1>5

\* What the slip of a body stakes in all.
LEMMA TotalIs ==
  ASSUME NEW d, BodyOK(d), IsFiniteSet(Number)
  PROVE  Total(SlipOf(ResolvedRows(d)))
           = SumFunctionOnSet(Amounts(d.selections), PicksOf(d, Number))
           + SumFunctionOnSet(OnPairs(d, Number), Asked(d))
<1> DEFINE R == ResolvedRows(d)
           X == RowsOn(R, Number)
           f == [x \in X |-> x.amount]
           key == [x \in X |-> x.number]
           P(n) == {x \in X : key[x] = n}
           F == [n \in Number |-> SumFunctionOnSet(f, P(n))]
           slip == SlipOf(R)
<1>1. Total(slip) = SumFunctionOnSet(slip, Number)
  BY DEF Total, SumFunction, SlipOf, FoldFunction, SumFunctionOnSet
<1>2. \A x \in X : f[x] = x.amount
  OBVIOUS
<1>3. /\ IsFiniteSet(X) /\ \A x \in X : x.amount \in Nat
      /\ SumFunctionOnSet(f, X) = SumFunctionOnSet(Amounts(d.selections), PicksOf(d, Number))
                                + SumFunctionOnSet(OnPairs(d, Number), Asked(d))
  <2> HIDE DEF f
  <2> QED BY <1>2, RowSum
<1>4. \A x \in X : f[x] \in Int /\ key[x] \in Number
  BY <1>3 DEF RowsOn
<1>5. SumFunctionOnSet(f, X) = SumFunctionOnSet(F, Number)
  <2>1. IsFiniteSet(X)
    BY <1>3
  <2> HIDE DEF f, X, key
  <2> QED BY <1>4, <2>1, SumParts
<1>6. \A n \in Number : slip[n] = F[n]
  <2> TAKE n \in Number
  <2>1. {x \in R : x.number = n} = P(n)
    BY DEF RowsOn
  <2>2. slip[n] = MapThenSumSet(LAMBDA x : x.amount, {x \in R : x.number = n})
    BY DEF SlipOf
  <2>3. \A x \in P(n) : f[x] = x.amount
    OBVIOUS
  <2>4. F[n] = SumFunctionOnSet(f, P(n))
    OBVIOUS
  <2> HIDE DEF P, f, F, slip
  <2>5. MapThenSumSet(LAMBDA x : x.amount, P(n)) = SumFunctionOnSet(f, P(n))
    BY <2>3, AmountsOver
  <2> QED BY <2>1, <2>2, <2>4, <2>5
<1>7. SumFunctionOnSet(slip, Number) = SumFunctionOnSet(F, Number)
  <2> HIDE DEF F, slip
  <2> QED BY <1>6, SumSame
<1> QED BY <1>1, <1>3, <1>5, <1>7

-----------------------------------------------------------------------------
(* What becomes of the body *)

\* The stakes of all groups are the amounts of all group picks.
LEMMA AllGroups ==
  ASSUME NEW d, BodyOK(d), 0..99 \subseteq Number
  PROVE  SumFunctionOnSet(OnPairs(d, Number), Asked(d))
           = SumFunctionOnSet(Amounts(d.anderBahar), DOMAIN d.anderBahar)
<1> DEFINE I == DOMAIN d.anderBahar
           K == Asked(d)
           a == Amounts(d.anderBahar)
           key == Groups(d.anderBahar)
           F == [k \in K |-> SumFunctionOnSet(a, {i \in I : key[i] = k})]
           G == OnPairs(d, Number)
<1>1. IsFiniteSet(I) /\ IsFiniteSet(K) /\ \A i \in I : a[i] \in Int /\ key[i] \in K
  BY BodyTypes
<1>2. SumFunctionOnSet(a, I) = SumFunctionOnSet(F, K)
  <2> HIDE DEF I, K, a, key
  <2> QED BY <1>1, SumParts
<1>3. \A k \in K : G[k] = F[k]
  <2> TAKE k \in K
  <2>1. F[k] = OnGroup(d, k)
    BY DEF OnGroup, Under
  <2>2. G[k] = OnPair(d, k) * Cardinality(Pairs(k) \cap Number)
    BY DEF OnPairs
  <2>3. k \in Key
    BY BodyTypes
  <2>4. Pairs(k) \cap Number = Pairs(k) /\ Cardinality(Pairs(k)) = 10
    BY <2>3, TenPairs
  <2> HIDE DEF F, G
  <2>5. Cardinality(Pairs(k) \cap Number) = 10
    BY <2>4
  <2>6. OnPair(d, k) \in Nat /\ OnGroup(d, k) = 10 * OnPair(d, k)
    BY OnTypes
  <2> QED BY <2>1, <2>2, <2>5, <2>6
<1> HIDE DEF F, G, K
<1> QED BY <1>1, <1>2, <1>3, SumSame DEF G, K

\* The stakes of all groups on one number, times ten, are the amounts of the
\* group picks that cover it.
LEMMA CoveringGroups ==
  ASSUME NEW d, BodyOK(d), NEW n \in 0..100
  PROVE  /\ SumFunctionOnSet(OnPairs(d, {n}), Asked(d)) \in Int
         /\ SumFunctionOnSet(Amounts(d.anderBahar),
              {i \in DOMAIN d.anderBahar : Covers(d.anderBahar[i], n)})
              = 10 * SumFunctionOnSet(OnPairs(d, {n}), Asked(d))
<1> DEFINE K == Asked(d)
           a == Amounts(d.anderBahar)
           key == Groups(d.anderBahar)
           I == {i \in DOMAIN d.anderBahar : Covers(d.anderBahar[i], n)}
           F == [k \in K |-> SumFunctionOnSet(a, {i \in I : key[i] = k})]
           G == OnPairs(d, {n})
<1>1. IsFiniteSet(I) /\ IsFiniteSet(K) /\ \A i \in I : a[i] \in Int /\ key[i] \in K
  BY BodyTypes, FS_Subset
<1>2. SumFunctionOnSet(a, I) = SumFunctionOnSet(F, K)
  <2> HIDE DEF I, K, a, key
  <2> QED BY <1>1, SumParts
<1>3. \A k \in K : G[k] \in Int /\ F[k] = 10 * G[k]
  <2> TAKE k \in K
  <2>1. G[k] = OnPair(d, k) * Cardinality(Pairs(k) \cap {n})
    BY DEF OnPairs
  <2>2. OnPair(d, k) \in Nat /\ OnGroup(d, k) = 10 * OnPair(d, k)
    BY OnTypes
  <2>3. \A i \in DOMAIN d.anderBahar : i \in I <=> n \in Pairs(key[i])
    BY PairsCovered
  <2>4. F[k] = SumFunctionOnSet(a, {i \in I : key[i] = k})
    OBVIOUS
  <2>5. CASE n \in Pairs(k)
    <3>1. {i \in I : key[i] = k} = {i \in DOMAIN d.anderBahar : key[i] = k}
      BY <2>3, <2>5
    <3>2. Pairs(k) \cap {n} = {n} /\ Cardinality({n}) = 1
      BY <2>5, FS_Singleton
    <3>3. OnGroup(d, k) = SumFunctionOnSet(a, {i \in DOMAIN d.anderBahar : key[i] = k})
      BY DEF OnGroup, Under
    <3> HIDE DEF F, G, I, key, a
    <3>4. F[k] = OnGroup(d, k)
      BY <2>4, <3>1, <3>3
    <3>5. Cardinality(Pairs(k) \cap {n}) = 1
      BY <3>2
    <3> QED BY <2>1, <2>2, <3>4, <3>5
  <2>6. CASE n \notin Pairs(k)
    <3>1. {i \in I : key[i] = k} = {}
      BY <2>3, <2>6
    <3>2. Pairs(k) \cap {n} = {} /\ Cardinality({}) = 0
      BY <2>6, FS_EmptySet
    <3> HIDE DEF F, G, I, key, a
    <3>3. F[k] = SumFunctionOnSet(a, {})
      BY <2>4, <3>1
    <3>4. F[k] = 0
      BY <3>3, SumEmpty
    <3>5. Cardinality(Pairs(k) \cap {n}) = 0
      BY <3>2
    <3> QED BY <2>1, <2>2, <3>4, <3>5
  <2> QED BY <2>5, <2>6
<1>4. SumFunctionOnSet(G, K) \in Int
  <2> HIDE DEF G, K
  <2> QED BY <1>1, <1>3, SumInt
<1>5. SumFunctionOnSet(F, K) = 10 * SumFunctionOnSet(G, K) + 0 * SumFunctionOnSet(G, K)
  <2> DEFINE ten == 10  none == 0
  <2> HIDE DEF F, G, K
  <2>1. \A k \in K : G[k] \in Int /\ F[k] = ten * G[k] + none * G[k]
    BY <1>3
  <2>2. IsFiniteSet(K) /\ ten \in Int /\ none \in Int
    BY <1>1
  <2> HIDE DEF ten, none
  <2>3. SumFunctionOnSet(F, K) = ten * SumFunctionOnSet(G, K) + none * SumFunctionOnSet(G, K)
    BY <2>1, <2>2, SumCombined
  <2> QED BY <2>3 DEF ten, none
<1> HIDE DEF F, G, I
<1>6. SumFunctionOnSet(a, I) = 10 * SumFunctionOnSet(G, K)
  BY <1>2, <1>4, <1>5
<1> QED BY <1>4, <1>6 DEF G, I

\* A group has ten rows, and no row of another group looks like one of its.
LEMMA TagsTell ==
  ASSUME NEW d, BodyOK(d)
  PROVE  /\ \A x, y \in ResolvedRows(d) : x.number = y.number /\ x.tag = y.tag => x = y
         /\ \A i \in DOMAIN d.anderBahar :
              Cardinality({x \in ResolvedRows(d) :
                             /\ x.tag # Direct
                             /\ x.tag.digit = d.anderBahar[i].digit
                             /\ x.tag.position = d.anderBahar[i].position}) = 10
<1>1. ResolvedRows(d) = DirectRows(d) \cup GroupsOf(d)
  BY RowsAre DEF GroupsOf
<1>2. \A x \in DirectRows(d) :
        x = [number |-> x.number, amount |-> OnNumber(d, x.number), tag |-> Direct]
  BY DEF DirectRows
<1>3. \A x \in GroupsOf(d) :
        /\ x.tag \in Asked(d) /\ x.number \in Pairs(x.tag)
        /\ x = [number |-> x.number, amount |-> OnPair(d, x.tag), tag |-> x.tag]
  BY DEF GroupsOf, GroupRows
<1>4. Direct \notin Asked(d) /\ Asked(d) \subseteq Key
  BY BodyTypes
<1>5. ASSUME NEW x \in ResolvedRows(d), NEW y \in ResolvedRows(d), x.number = y.number, x.tag = y.tag
      PROVE  x = y
  <2>1. x \in DirectRows(d) => x.tag = Direct
    BY <1>2
  <2>2. y \in DirectRows(d) => y.tag = Direct
    BY <1>2
  <2>3. CASE x \in DirectRows(d) /\ y \in DirectRows(d)
    <3>1. x = [number |-> x.number, amount |-> OnNumber(d, x.number), tag |-> Direct]
      BY <1>2, <2>3
    <3>2. y = [number |-> y.number, amount |-> OnNumber(d, y.number), tag |-> Direct]
      BY <1>2, <2>3
    <3> QED BY <1>5, <3>1, <3>2
  <2>4. CASE x \in GroupsOf(d) /\ y \in GroupsOf(d)
    <3>1. x = [number |-> x.number, amount |-> OnPair(d, x.tag), tag |-> x.tag]
      BY <1>3, <2>4
    <3>2. y = [number |-> y.number, amount |-> OnPair(d, y.tag), tag |-> y.tag]
      BY <1>3, <2>4
    <3> QED BY <1>5, <3>1, <3>2
  <2> QED BY <1>1, <1>3, <1>4, <1>5, <2>1, <2>2, <2>3, <2>4
<1>6. ASSUME NEW i \in DOMAIN d.anderBahar
      PROVE  Cardinality({x \in ResolvedRows(d) :
                             /\ x.tag # Direct
                             /\ x.tag.digit = d.anderBahar[i].digit
                             /\ x.tag.position = d.anderBahar[i].position}) = 10
  <2> DEFINE k == Groups(d.anderBahar)[i]
             X == {x \in ResolvedRows(d) : /\ x.tag # Direct
                                           /\ x.tag.digit = d.anderBahar[i].digit
                                           /\ x.tag.position = d.anderBahar[i].position}
             row == [n \in Pairs(k) |-> [number |-> n, amount |-> OnPair(d, k), tag |-> k]]
  <2>1. k \in Asked(d) /\ k \in Key
    BY <1>4, BodyTypes
  <2>2. k.digit = d.anderBahar[i].digit /\ k.position = d.anderBahar[i].position
    BY DEF Groups
  <2>3. \A q \in Key : q.digit = k.digit /\ q.position = k.position => q = k
    <3>1. \A q, r \in Key : q.digit = r.digit /\ q.position = r.position => q = r
      BY DEF Key
    <3> HIDE DEF k
    <3> QED BY <2>1, <3>1
  <2>4. X = {x \in ResolvedRows(d) : x.tag = k}
    <3>1. \A x \in ResolvedRows(d) : x.tag = Direct \/ x.tag \in Key
      BY <1>1, <1>2, <1>3, <1>4
    <3>2. k # Direct
      BY <1>4, <2>1
    <3> HIDE DEF k
    <3> QED BY <2>2, <2>3, <3>1, <3>2
  <2>5. {x \in ResolvedRows(d) : x.tag = k} = GroupRows(d, k)
    <3>1. \A x \in GroupRows(d, k) : x \in GroupsOf(d) /\ x.tag = k
      <4> HIDE DEF k
      <4> QED BY <2>1 DEF GroupsOf, GroupRows
    <3>2. ASSUME NEW x \in ResolvedRows(d), x.tag = k PROVE x \in GroupRows(d, k)
      <4>1. x \in GroupsOf(d)
        BY <1>1, <1>2, <1>4, <2>1, <3>2
      <4>2. x.number \in Pairs(k) /\ x = [number |-> x.number, amount |-> OnPair(d, k), tag |-> k]
        BY <1>3, <3>2, <4>1
      <4> HIDE DEF k
      <4> QED BY <4>2 DEF GroupRows
    <3> HIDE DEF k
    <3> QED BY <1>1, <3>1, <3>2
  <2>6. GroupRows(d, k) = {row[n] : n \in Pairs(k)}
    BY DEF GroupRows
  <2>7. IsFiniteSet(Pairs(k)) /\ Cardinality(Pairs(k)) = 10
    BY <2>1, TenPairs
  <2>8. \A m, n \in Pairs(k) : row[m] = row[n] => m = n
    <3>1. \A n \in Pairs(k) : row[n].number = n
      OBVIOUS
    <3> HIDE DEF row
    <3> QED BY <3>1
  <2>9. Cardinality({row[n] : n \in Pairs(k)}) = Cardinality(Pairs(k))
    <3> HIDE DEF row, k
    <3> QED BY <2>7, <2>8, Image
  <2> HIDE DEF X, row, k
  <2> QED BY <2>4, <2>5, <2>6, <2>7, <2>9 DEF X
<1> QED BY <1>5, <1>6

\* The keys in use.
Keys(key, I) == {key[i] : i \in I}

\* The keys and amounts of I under other names.
Renamed(I, name, key, amt, rkey, ramt) ==
  \A i \in I : /\ name[i] \in I /\ name[name[i]] = i
               /\ amt[i] \in Int /\ rkey[i] = key[name[i]] /\ ramt[i] = amt[name[i]]

\* Renaming the picks moves every amount with its key.
LEMMA RenamedUnder ==
  ASSUME NEW I, IsFiniteSet(I), NEW name, NEW key, NEW amt, NEW rkey, NEW ramt,
         Renamed(I, name, key, amt, rkey, ramt)
  PROVE  /\ Keys(rkey, I) = Keys(key, I)
         /\ \A k : Under(rkey, ramt, I, k) = Under(key, amt, I, k)
<1>1. \A i \in I : name[i] \in I /\ name[name[i]] = i
  BY DEF Renamed
<1>2. \A i \in I : rkey[i] = key[name[i]] /\ ramt[i] = amt[name[i]] /\ amt[name[i]] \in Int
  BY DEF Renamed
<1>3. Keys(rkey, I) = Keys(key, I)
  <2>1. \A i \in I : key[i] = rkey[name[i]]
    BY <1>1, <1>2
  <2> QED BY <1>1, <1>2, <2>1 DEF Keys
<1>4. ASSUME NEW k PROVE Under(rkey, ramt, I, k) = Under(key, amt, I, k)
  <2> DEFINE S == {i \in I : rkey[i] = k}
             T == {i \in I : key[i] = k}
  <2>1. IsFiniteSet(S) /\ (\A i \in S : amt[name[i]] \in Int /\ ramt[i] = amt[name[i]])
    BY <1>2, FS_Subset
  <2>2. \A i, j \in S : name[i] = name[j] => i = j
    BY <1>1
  <2>3. T = {name[i] : i \in S}
    <3>1. \A i \in T : name[i] \in S /\ name[name[i]] = i
      BY <1>1, <1>2
    <3>2. \A i \in S : name[i] \in T
      BY <1>1, <1>2
    <3> HIDE DEF S, T
    <3> QED BY <3>1, <3>2
  <2> HIDE DEF S, T
  <2>4. SumFunctionOnSet(ramt, S) = SumFunctionOnSet(amt, {name[i] : i \in S})
    BY <2>1, <2>2, SumRenamed
  <2> QED BY <2>3, <2>4 DEF Under, S, T
<1> QED BY <1>3, <1>4

\* What the Maps read of a reversed sequence of picks.
LEMMA ReversedPicks ==
  ASSUME NEW S, NEW s, s \in Seq(S), \A i \in DOMAIN s : s[i].amount \in Int,
         NEW r, r = Reverse(s)
  PROVE  /\ DOMAIN r = DOMAIN s
         /\ \A i \in DOMAIN r : \E j \in DOMAIN s : r[i] = s[j]
         /\ Keys(Numbers(r), DOMAIN r) = Keys(Numbers(s), DOMAIN s)
         /\ Keys(Groups(r), DOMAIN r) = Keys(Groups(s), DOMAIN s)
         /\ \A k : Under(Numbers(r), Amounts(r), DOMAIN r, k)
                    = Under(Numbers(s), Amounts(s), DOMAIN s, k)
         /\ \A k : Under(Groups(r), Amounts(r), DOMAIN r, k)
                    = Under(Groups(s), Amounts(s), DOMAIN s, k)
<1> DEFINE n == Len(s)
           I == DOMAIN s
           name == [i \in I |-> n - i + 1]
<1>1. n \in Nat /\ I = 1..n
  OBVIOUS
<1>2. DOMAIN r = I /\ \A i \in I : r[i] = s[name[i]]
  BY <1>1 DEF Reverse
<1>3. \A i \in I : name[i] \in I /\ name[name[i]] = i
  BY <1>1
<1>4. IsFiniteSet(I)
  BY <1>1, FS_Interval
<1>5. \A i \in I : s[i].amount \in Int
  OBVIOUS
<1> HIDE DEF n, I, name
<1>6. \A i \in I : /\ Amounts(s)[i] \in Int /\ Amounts(r)[i] = Amounts(s)[name[i]]
                   /\ Numbers(r)[i] = Numbers(s)[name[i]] /\ Groups(r)[i] = Groups(s)[name[i]]
  BY <1>2, <1>3, <1>5 DEF Amounts, Numbers, Groups, I
<1>7. /\ Keys(Numbers(r), I) = Keys(Numbers(s), I)
      /\ \A k : Under(Numbers(r), Amounts(r), I, k) = Under(Numbers(s), Amounts(s), I, k)
  <2>1. Renamed(I, name, Numbers(s), Amounts(s), Numbers(r), Amounts(r))
    BY <1>3, <1>6 DEF Renamed
  <2> QED BY <1>4, <2>1, RenamedUnder
<1>8. /\ Keys(Groups(r), I) = Keys(Groups(s), I)
      /\ \A k : Under(Groups(r), Amounts(r), I, k) = Under(Groups(s), Amounts(s), I, k)
  <2>1. Renamed(I, name, Groups(s), Amounts(s), Groups(r), Amounts(r))
    BY <1>3, <1>6 DEF Renamed
  <2> QED BY <1>4, <2>1, RenamedUnder
<1>9. \A i \in DOMAIN r : \E j \in DOMAIN s : r[i] = s[j]
  BY <1>2, <1>3 DEF I
<1> QED BY <1>2, <1>7, <1>8, <1>9 DEF I

\* The picks of a body, in the types of the requests.
PicksTyped(d) ==
  /\ d.selections \in Seq([number : Int, amount : Int])
  /\ d.anderBahar \in Seq([digit : Int, position : {"ander", "bahar"}, amount : Int])

\* The rows of a body are those of the body with its picks reversed.
LEMMA ReversedRows ==
  ASSUME NEW d, BodyOK(d), PicksTyped(d), NEW e,
         e.selections = Reverse(d.selections), e.anderBahar = Reverse(d.anderBahar)
  PROVE  ResolvedRows(e) = ResolvedRows(d)
<1> DEFINE s == d.selections  g == d.anderBahar  rs == e.selections  rg == e.anderBahar
<1>1. /\ DOMAIN rs = DOMAIN s
      /\ \A i \in DOMAIN rs : \E j \in DOMAIN s : rs[i] = s[j]
      /\ Keys(Numbers(rs), DOMAIN rs) = Keys(Numbers(s), DOMAIN s)
      /\ \A k : Under(Numbers(rs), Amounts(rs), DOMAIN rs, k)
                 = Under(Numbers(s), Amounts(s), DOMAIN s, k)
  <2> DEFINE T == [number : Int, amount : Int]
  <2>1. s \in Seq(T)
    BY DEF PicksTyped
  <2>2. \A i \in DOMAIN s : s[i].amount \in Int
    BY DEF BodyOK
  <2>3. rs = Reverse(s)
    OBVIOUS
  <2> HIDE DEF s, rs, T
  <2> QED BY <2>1, <2>2, <2>3, ReversedPicks
<1>2. /\ DOMAIN rg = DOMAIN g
      /\ \A i \in DOMAIN rg : \E j \in DOMAIN g : rg[i] = g[j]
      /\ Keys(Groups(rg), DOMAIN rg) = Keys(Groups(g), DOMAIN g)
      /\ \A k : Under(Groups(rg), Amounts(rg), DOMAIN rg, k)
                 = Under(Groups(g), Amounts(g), DOMAIN g, k)
  <2> DEFINE T == [digit : Int, position : {"ander", "bahar"}, amount : Int]
  <2>1. g \in Seq(T)
    BY DEF PicksTyped
  <2>2. \A i \in DOMAIN g : g[i].amount \in Int
    BY DEF BodyOK
  <2>3. rg = Reverse(g)
    OBVIOUS
  <2> HIDE DEF g, rg, T
  <2> QED BY <2>1, <2>2, <2>3, ReversedPicks
<1>3. BodyOK(e)
  <2>1. Indices(DOMAIN rs) /\ Indices(DOMAIN rg)
    BY <1>1, <1>2 DEF BodyOK
  <2>2. \A i \in DOMAIN rs : rs[i].number \in 0..100 /\ rs[i].amount \in Nat
    BY <1>1 DEF BodyOK
  <2>3. \A i \in DOMAIN rg : /\ rg[i].digit \in 0..9 /\ rg[i].position \in {"ander", "bahar"}
                            /\ rg[i].amount \in Nat /\ rg[i].amount % 10 = 0
    BY <1>2 DEF BodyOK
  <2> QED BY <2>1, <2>2, <2>3 DEF BodyOK
<1>4. Picked(e) = Picked(d) /\ \A n : OnNumber(e, n) = OnNumber(d, n)
  BY <1>1 DEF Picked, OnNumber, Keys
<1>5. Asked(e) = Asked(d) /\ \A k : OnPair(e, k) = OnPair(d, k)
  BY <1>2 DEF Asked, OnPair, OnGroup, Keys
<1>6. DirectRows(e) = DirectRows(d) /\ \A k : GroupRows(e, k) = GroupRows(d, k)
  BY <1>4, <1>5 DEF DirectRows, GroupRows
<1>7. UNION {GroupRows(e, k) : k \in Asked(e)} = UNION {GroupRows(d, k) : k \in Asked(d)}
  BY <1>5, <1>6
<1> QED BY <1>3, <1>6, <1>7, RowsAre

-----------------------------------------------------------------------------
(* The inductive invariant *)

\* A resolved body passed both checks, and its rows are the ones of those picks.
SelectionsInv ==
  /\ dto \in [gameType : GameType, selections : Selections, anderBahar : AnderBahars]
  /\ status = "valid" => ValidDto(dto)
  /\ status = "resolved" => ValidDto(dto) /\ Resolvable(dto) /\ rows = ResolvedRows(dto)

\* The steps of a request keep it.
LEMMA SelectionsInvariance == Spec => []SelectionsInv
<1>1. Init => SelectionsInv
  BY DEF Init, SelectionsInv
<1>2. SelectionsInv /\ [Next]_vars => SelectionsInv'
  <2> SUFFICES ASSUME SelectionsInv, [Next]_vars PROVE SelectionsInv'
    OBVIOUS
  <2>1. CASE Validate
    BY <2>1 DEF Validate, SelectionsInv
  <2>2. CASE resolveSelections
    BY <2>2 DEF resolveSelections, SelectionsInv
  <2>3. CASE UNCHANGED vars
    BY <2>3 DEF vars, SelectionsInv
  <2> QED BY <2>1, <2>2, <2>3 DEF Next
<1> QED BY <1>1, <1>2, PTL DEF Spec

\* What the checks let through is a body the lemmas above speak of.
LEMMA LetIn ==
  ASSUME NEW d \in [gameType : GameType, selections : Selections, anderBahar : AnderBahars],
         ValidDto(d), Resolvable(d)
  PROVE  BodyOK(d) /\ PicksTyped(d)
<1>1. PicksTyped(d)
  BY BetSelectionsAssumption DEF PicksTyped
<1>2. Indices(DOMAIN d.selections) /\ Indices(DOMAIN d.anderBahar)
  <2>1. Len(d.selections) \in Nat /\ DOMAIN d.selections = 1..Len(d.selections)
    BY <1>1 DEF PicksTyped
  <2>2. Len(d.anderBahar) \in Nat /\ DOMAIN d.anderBahar = 1..Len(d.anderBahar)
    BY <1>1 DEF PicksTyped
  <2> QED BY <2>1, <2>2, IndicesOf
<1>3. \A i \in DOMAIN d.selections :
        d.selections[i].number \in 0..100 /\ d.selections[i].amount \in Nat
  <2>1. \A i \in DOMAIN d.selections : d.selections[i].amount \in 1..MaxAmount
    BY DEF ValidDto
  <2>2. \A a \in 1..MaxAmount : a \in Nat
    OBVIOUS
  <2> QED BY <2>1, <2>2 DEF ValidDto
<1>4. \A i \in DOMAIN d.anderBahar :
        /\ d.anderBahar[i].digit \in 0..9 /\ d.anderBahar[i].position \in {"ander", "bahar"}
        /\ d.anderBahar[i].amount \in Nat /\ d.anderBahar[i].amount % 10 = 0
  <2>1. \A i \in DOMAIN d.anderBahar : d.anderBahar[i].amount \in 10..MaxAmount
    BY DEF ValidDto
  <2>2. \A a \in 10..MaxAmount : a \in Nat
    OBVIOUS
  <2>3. \A i \in DOMAIN d.anderBahar : d.anderBahar[i].position \in {"ander", "bahar"}
    <3> DEFINE s == d.anderBahar
               T == [digit : Int, position : {"ander", "bahar"}, amount : Int]
    <3>1. s \in Seq(T)
      BY <1>1 DEF PicksTyped
    <3>2. \A x \in T : x.position \in {"ander", "bahar"}
      OBVIOUS
    <3> HIDE DEF s, T
    <3>3. \A i \in DOMAIN s : s[i] \in T
      BY <3>1
    <3>4. \A i \in DOMAIN s : s[i].position \in {"ander", "bahar"}
      BY <3>2, <3>3
    <3> QED BY <3>4 DEF s
  <2>4. \A i \in DOMAIN d.anderBahar : d.anderBahar[i].amount % 10 = 0
    BY DEF Resolvable, Divisible, ANDER_BAHAR_GROUP_SIZE
  <2>5. \A i \in DOMAIN d.anderBahar : d.anderBahar[i].digit \in 0..9
    BY DEF ValidDto
  <2> QED BY <2>1, <2>2, <2>3, <2>4, <2>5
<1> QED BY <1>1, <1>2, <1>3, <1>4 DEF BodyOK

\* The numbers a result can have, and the multiplier.
LEMMA NumbersOf == Number = 0..100 /\ IsFiniteSet(Number) /\ Multiplier = 95
<1>1. IsFiniteSet(0..100)
  <2> DEFINE lo == 0  hi == 100
  <2>1. lo \in Int /\ hi \in Int
    OBVIOUS
  <2> HIDE DEF lo, hi
  <2>2. IsFiniteSet(lo..hi)
    BY <2>1, FS_Interval
  <2> QED BY <2>2 DEF lo, hi
<1> QED BY <1>1, BetSelectionsAssumption

-----------------------------------------------------------------------------
(* The theorems *)

(* placeBet debits exactly what the body asks to stake, however the picks  *)
(* repeat numbers and groups: nothing is lost or invented by the merging   *)
(* of duplicates and the splitting of a group over its ten pairs.          *)
THEOREM StakeIsDebitedAlways == Spec => []StakeIsDebited
<1>1. SelectionsInv => StakeIsDebited
  <2> SUFFICES ASSUME SelectionsInv, status = "resolved" PROVE StakeIsDebited
    BY DEF StakeIsDebited
  <2> DEFINE S == dto.selections  G == dto.anderBahar
  <2>1. BodyOK(dto) /\ rows = ResolvedRows(dto)
    BY LetIn DEF SelectionsInv
  <2>2. Total(SlipOf(rows)) = SumFunctionOnSet(Amounts(S), PicksOf(dto, Number))
                            + SumFunctionOnSet(OnPairs(dto, Number), Asked(dto))
    BY <2>1, NumbersOf, TotalIs
  <2>3. PicksOf(dto, Number) = DOMAIN S
    BY <2>1, NumbersOf DEF PicksOf, BodyOK, Numbers
  <2>4. SumFunctionOnSet(OnPairs(dto, Number), Asked(dto)) = SumFunctionOnSet(Amounts(G), DOMAIN G)
    <3>1. 0..99 \subseteq Number
      BY NumbersOf
    <3> QED BY <2>1, <3>1, AllGroups
  <2>5. /\ SumOfAmounts(S, DOMAIN S) = SumFunctionOnSet(Amounts(S), DOMAIN S)
        /\ SumOfAmounts(G, DOMAIN G) = SumFunctionOnSet(Amounts(G), DOMAIN G)
    BY PickedAmounts
  <2> QED BY <2>2, <2>3, <2>4, <2>5 DEF StakeIsDebited
<1> QED BY <1>1, SelectionsInvariance, PTL

(* Whatever number is drawn, 95 times the rows on it is 95 times the       *)
(* direct picks of it and 9.5 times the groups that cover it: the rows of  *)
(* resolveSelections pay what the scheme of full amounts did.              *)
THEOREM PaysAsAdvertisedAlways == Spec => []PaysAsAdvertised
<1>1. SelectionsInv => PaysAsAdvertised
  <2> SUFFICES ASSUME SelectionsInv, status = "resolved", NEW n \in Number
               PROVE  2 * Multiplier * SlipOf(rows)[n] =
                          190 * SumOfAmounts(dto.selections,
                                  {i \in DOMAIN dto.selections : dto.selections[i].number = n})
                        + 19 * SumOfAmounts(dto.anderBahar,
                                  {i \in DOMAIN dto.anderBahar : Covers(dto.anderBahar[i], n)})
    BY DEF PaysAsAdvertised
  <2> DEFINE S == dto.selections  G == dto.anderBahar
             I == {i \in DOMAIN S : S[i].number = n}
             J == {i \in DOMAIN G : Covers(G[i], n)}
             a == SumFunctionOnSet(Amounts(S), PicksOf(dto, {n}))
             b == SumFunctionOnSet(OnPairs(dto, {n}), Asked(dto))
  <2>1. BodyOK(dto) /\ rows = ResolvedRows(dto)
    BY LetIn DEF SelectionsInv
  <2>2. SlipOf(rows)[n] = a + b
    BY <2>1, SlipIs
  <2>3. PicksOf(dto, {n}) = I
    BY DEF PicksOf, Numbers
  <2>4. SumOfAmounts(S, I) = a
    <3>1. I \subseteq DOMAIN S
      OBVIOUS
    <3> QED BY <2>3, <3>1, PickedAmounts
  <2>5. b \in Int /\ SumOfAmounts(G, J) = 10 * b
    <3>1. n \in 0..100 /\ J \subseteq DOMAIN G
      BY NumbersOf
    <3> QED BY <2>1, <3>1, CoveringGroups, PickedAmounts
  <2>6. a \in Int
    <3>1. IsFiniteSet(PicksOf(dto, {n})) /\ \A i \in PicksOf(dto, {n}) : Amounts(S)[i] \in Int
      BY <2>1, BodyTypes, FS_Subset DEF PicksOf
    <3> QED BY <3>1, SumInt
  <2>7. Multiplier = 95
    BY NumbersOf
  <2> HIDE DEF a, b, I, J
  <2>8. 2 * Multiplier * SlipOf(rows)[n] = 190 * SumOfAmounts(S, I) + 19 * SumOfAmounts(G, J)
    BY <2>2, <2>4, <2>5, <2>6, <2>7
  <2> QED BY <2>8 DEF I, J
<1> QED BY <1>1, SelectionsInvariance, PTL

(* The response can tell which group each row came from: one row per       *)
(* number and tag, and all ten rows of every group asked for.              *)
THEOREM RowsTellTheirGroupAlways == Spec => []RowsTellTheirGroup
<1>1. SelectionsInv => RowsTellTheirGroup
  <2> SUFFICES ASSUME SelectionsInv, status = "resolved" PROVE RowsTellTheirGroup
    BY DEF RowsTellTheirGroup
  <2>1. BodyOK(dto) /\ rows = ResolvedRows(dto)
    BY LetIn DEF SelectionsInv
  <2> QED BY <2>1, TagsTell DEF RowsTellTheirGroup
<1> QED BY <1>1, SelectionsInvariance, PTL

(* The rows do not depend on the order of the picks: a client that sends   *)
(* them the other way round places the same bet.                           *)
THEOREM OrderIrrelevantAlways == Spec => []OrderIrrelevant
<1>1. SelectionsInv => OrderIrrelevant
  <2> SUFFICES ASSUME SelectionsInv, status = "resolved" PROVE OrderIrrelevant
    BY DEF OrderIrrelevant
  <2> DEFINE e == [dto EXCEPT !.selections = Reverse(@), !.anderBahar = Reverse(@)]
  <2>1. BodyOK(dto) /\ PicksTyped(dto) /\ rows = ResolvedRows(dto)
    BY LetIn DEF SelectionsInv
  <2>2. e.selections = Reverse(dto.selections) /\ e.anderBahar = Reverse(dto.anderBahar)
    BY DEF SelectionsInv
  <2>3. ResolvedRows(e) = ResolvedRows(dto)
    <3> HIDE DEF e
    <3> QED BY <2>1, <2>2, ReversedRows
  <2> QED BY <2>1, <2>3 DEF OrderIrrelevant
<1> QED BY <1>1, SelectionsInvariance, PTL
=============================================================================
