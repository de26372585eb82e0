-------------------------------- MODULE Sums --------------------------------
(***************************************************************************)
(* Sums over finite sets: what SumFunctionOnSet and MapThenSumSet of the   *)
(* community modules return.  Their folds recurse on a set less one of its *)
(* elements; a fact about all sets is had from the smallest set that does  *)
(* not have it, as the strict subsets of a finite set are well-founded.    *)
(***************************************************************************)
EXTENDS FiniteSets, Integers, FiniteSetsExt, Functions, FiniteSetTheorems, TLAPS

\* The element the folds take first.
Pick(s) == CHOOSE x \in s : TRUE

\* g is the running sum of f over the subsets of S, as the folds define it.
Running(f, S, g) ==
  g = [s \in SUBSET S |-> IF s = {} THEN 0 ELSE LET x == CHOOSE x \in s : TRUE IN f[x] + g[s \ {x}]]

\* Every nonempty set of subsets of a finite set has one with no proper subset in it.
LEMMA SmallestSet ==
  ASSUME NEW S, IsFiniteSet(S), NEW T, T \subseteq SUBSET S, T # {}
  PROVE  \E s \in T : \A t \in T : t \subseteq s => t = s
<1>1. FiniteSubsetsOf(S) = SUBSET S
  BY FS_FiniteSubsetsOfFinite
<1>2. IsWellFoundedOn(StrictSubsetOrdering(S), SUBSET S)
  BY <1>1, FS_StrictSubsetOrderingWellFounded
<1>3. PICK s \in T : \A t \in T : <<t, s>> \notin StrictSubsetOrdering(S)
  BY <1>2, WFMin
<1> QED BY <1>3 DEF StrictSubsetOrdering

\* Two running sums agree where both are defined.
LEMMA RunningAgree ==
  ASSUME NEW f, NEW S, IsFiniteSet(S), NEW T, S \subseteq T, NEW g, NEW h,
         Running(f, S, g), Running(f, T, h)
  PROVE  \A s \in SUBSET S : g[s] = h[s]
<1> DEFINE Bad == {s \in SUBSET S : g[s] # h[s]}
<1> SUFFICES ASSUME Bad # {} PROVE FALSE
  OBVIOUS
<1>0. Bad \subseteq SUBSET S
  OBVIOUS
<1>1. PICK s \in Bad : \A t \in Bad : t \subseteq s => t = s
  <2> HIDE DEF Bad
  <2> QED BY <1>0, SmallestSet
<1>2. /\ s \in SUBSET S /\ s \in SUBSET T
      /\ g[s] = IF s = {} THEN 0 ELSE f[Pick(s)] + g[s \ {Pick(s)}]
      /\ h[s] = IF s = {} THEN 0 ELSE f[Pick(s)] + h[s \ {Pick(s)}]
  BY DEF Running, Pick
<1>3. s # {} => g[s \ {Pick(s)}] = h[s \ {Pick(s)}]
  BY <1>1 DEF Pick
<1> QED BY <1>2, <1>3

\* A running sum over the subsets of a finite set is defined.
LEMMA RunningExists ==
  ASSUME NEW f, NEW S, IsFiniteSet(S)
  PROVE  \E g : Running(f, S, g)
<1> DEFINE Bad == {s \in SUBSET S : ~\E g : Running(f, s, g)}
<1> SUFFICES ASSUME Bad # {} PROVE FALSE
  OBVIOUS
<1>0. Bad \subseteq SUBSET S
  OBVIOUS
<1>1. PICK s \in Bad : \A t \in Bad : t \subseteq s => t = s
  <2> HIDE DEF Bad
  <2> QED BY <1>0, SmallestSet
<1>2. IsFiniteSet(s)
  BY FS_Subset
<1> DEFINE G(t) == CHOOSE g : Running(f, t, g)
           g    == [t \in SUBSET s |-> IF t = {} THEN 0
                                       ELSE f[Pick(t)] + G(t \ {Pick(t)})[t \ {Pick(t)}]]
<1>3. \A t \in SUBSET s : t # s => Running(f, t, G(t))
  BY <1>1
<1>4. \A t \in SUBSET s : t # {} => Pick(t) \in t
  BY DEF Pick
<1>5. ASSUME NEW t \in SUBSET s, t # s PROVE g[t] = G(t)[t]
  <2>0. Running(f, t, G(t))
    BY <1>3, <1>5
  <2>1. G(t)[t] = IF t = {} THEN 0 ELSE f[Pick(t)] + G(t)[t \ {Pick(t)}]
    <3> HIDE DEF G
    <3> QED BY <2>0 DEF Running, Pick
  <2>2. CASE t = {}
    BY <2>1, <2>2
  <2>3. CASE t # {}
    <3> DEFINE v == t \ {Pick(t)}
    <3>1. v \in SUBSET s /\ v # s /\ v \subseteq t /\ IsFiniteSet(v)
      BY <1>2, <1>4, <1>5, <2>3, FS_Subset
    <3>2. Running(f, t, G(t)) /\ Running(f, v, G(v))
      BY <1>3, <1>5, <3>1
    <3> HIDE DEF G
    <3>3. G(v)[v] = G(t)[v]
      BY <3>1, <3>2, RunningAgree
    <3> QED BY <2>1, <2>3, <3>3
  <2> QED BY <2>2, <2>3
<1>6. Running(f, s, g)
  <2>1. \A t \in SUBSET s : t # {} => t \ {Pick(t)} \in SUBSET s /\ t \ {Pick(t)} # s
    BY <1>4
  <2>2. \A t \in SUBSET s : t # {} => G(t \ {Pick(t)})[t \ {Pick(t)}] = g[t \ {Pick(t)}]
    BY <1>5, <2>1
  <2> HIDE DEF G
  <2>3. g = [t \in SUBSET s |-> IF t = {} THEN 0 ELSE f[Pick(t)] + g[t \ {Pick(t)}]]
    BY <2>2
  <2> QED BY <2>3 DEF Running, Pick
<1> QED BY <1>6

-----------------------------------------------------------------------------
(* The sum of a function over a finite set *)

\* The sum takes one element after the other.
LEMMA SumDef ==
  ASSUME NEW f, NEW S, IsFiniteSet(S)
  PROVE  SumFunctionOnSet(f, S) =
           IF S = {} THEN 0 ELSE f[Pick(S)] + SumFunctionOnSet(f, S \ {Pick(S)})
<1> DEFINE G(s) == CHOOSE g : Running(f, s, g)
<1>1. \A s : SumFunctionOnSet(f, s) = G(s)[s]
  BY DEF SumFunctionOnSet, FoldFunctionOnSet, MapThenFoldSet, Running
<1>2. \A s \in SUBSET S : Running(f, s, G(s))
  BY RunningExists, FS_Subset
<1> HIDE DEF G
<1>3. Running(f, S, G(S))
  BY <1>2
<1>4. G(S)[S] = IF S = {} THEN 0 ELSE f[Pick(S)] + G(S)[S \ {Pick(S)}]
  BY <1>3 DEF Running, Pick
<1> DEFINE s == S \ {Pick(S)}
<1>5. s \in SUBSET S /\ IsFiniteSet(s) /\ Running(f, s, G(s))
  BY <1>2, FS_Subset
<1>6. G(s)[s] = G(S)[s]
  BY <1>3, <1>5, RunningAgree
<1> QED BY <1>1, <1>4, <1>6

\* The sum over no element.
LEMMA SumEmpty == \A f : SumFunctionOnSet(f, {}) = 0
BY SumDef, FS_EmptySet

\* A sum of integers is an integer.
LEMMA SumInt ==
  ASSUME NEW f, NEW S, IsFiniteSet(S), \A x \in S : f[x] \in Int
  PROVE  SumFunctionOnSet(f, S) \in Int
<1> DEFINE Bad == {s \in SUBSET S : SumFunctionOnSet(f, s) \notin Int}
<1> SUFFICES ASSUME Bad # {} PROVE FALSE
  OBVIOUS
<1>1. Bad \subseteq SUBSET S
  OBVIOUS
<1>2. PICK s \in Bad : \A t \in Bad : t \subseteq s => t = s
  <2> HIDE DEF Bad
  <2> QED BY <1>1, SmallestSet
<1> DEFINE p == Pick(s)
<1>3. IsFiniteSet(s) /\ (s # {} => p \in s)
  BY FS_Subset DEF Pick
<1>4. SumFunctionOnSet(f, s) = IF s = {} THEN 0 ELSE f[p] + SumFunctionOnSet(f, s \ {p})
  BY <1>3, SumDef
<1>5. s # {} => SumFunctionOnSet(f, s \ {p}) \in Int
  BY <1>2, <1>3
<1> QED BY <1>3, <1>4, <1>5

\* The elements can be taken in any order.
LEMMA SumTake ==
  ASSUME NEW f, NEW S, IsFiniteSet(S), \A x \in S : f[x] \in Int, NEW e \in S
  PROVE  SumFunctionOnSet(f, S) = f[e] + SumFunctionOnSet(f, S \ {e})
<1> DEFINE Bad == {s \in SUBSET S : \E x \in s :
                     SumFunctionOnSet(f, s) # f[x] + SumFunctionOnSet(f, s \ {x})}
<1> SUFFICES ASSUME Bad # {} PROVE FALSE
  OBVIOUS
<1>1. Bad \subseteq SUBSET S
  OBVIOUS
<1>2. PICK s \in Bad : \A t \in Bad : t \subseteq s => t = s
  <2> HIDE DEF Bad
  <2> QED BY <1>1, SmallestSet
<1>3. PICK x \in s : SumFunctionOnSet(f, s) # f[x] + SumFunctionOnSet(f, s \ {x})
  OBVIOUS
<1> DEFINE p == Pick(s)
<1>4. IsFiniteSet(s) /\ p \in s
  BY FS_Subset DEF Pick
<1>5. SumFunctionOnSet(f, s) = f[p] + SumFunctionOnSet(f, s \ {p})
  BY <1>4, SumDef
<1>6. p # x
  BY <1>3, <1>5
<1>7. s \ {p} \in SUBSET S /\ s \ {p} \notin Bad
  BY <1>2, <1>4
<1>8. SumFunctionOnSet(f, s \ {p}) = f[x] + SumFunctionOnSet(f, (s \ {p}) \ {x})
  BY <1>6, <1>7
<1>9. s \ {x} \in SUBSET S /\ s \ {x} \notin Bad
  BY <1>2
<1>10. SumFunctionOnSet(f, s \ {x}) = f[p] + SumFunctionOnSet(f, (s \ {x}) \ {p})
  BY <1>4, <1>6, <1>9
<1>11. (s \ {p}) \ {x} = (s \ {x}) \ {p}
  OBVIOUS
<1>12. SumFunctionOnSet(f, (s \ {p}) \ {x}) \in Int /\ f[x] \in Int /\ f[p] \in Int
  <2>1. (s \ {p}) \ {x} \in SUBSET S
    OBVIOUS
  <2>2. IsFiniteSet((s \ {p}) \ {x})
    BY <2>1, FS_Subset
  <2>3. \A y \in (s \ {p}) \ {x} : f[y] \in Int
    OBVIOUS
  <2>4. SumFunctionOnSet(f, (s \ {p}) \ {x}) \in Int
    BY <2>2, <2>3, SumInt
  <2> QED BY <2>4, <1>4
<1> DEFINE c == SumFunctionOnSet(f, (s \ {p}) \ {x})
<1>13. /\ SumFunctionOnSet(f, s) = f[p] + (f[x] + c)
       /\ SumFunctionOnSet(f, s \ {x}) = f[p] + c
  BY <1>5, <1>8, <1>10, <1>11
<1>14. c \in Int /\ f[x] \in Int /\ f[p] \in Int
  BY <1>12
<1> HIDE DEF Bad, p, c
<1>15. f[p] + (f[x] + c) = f[x] + (f[p] + c)
  BY <1>14
<1> QED BY <1>3, <1>13, <1>15

\* A sum over one more element.
LEMMA SumAdd ==
  ASSUME NEW f, NEW S, IsFiniteSet(S), NEW e, e \notin S, \A x \in S \cup {e} : f[x] \in Int
  PROVE  SumFunctionOnSet(f, S \cup {e}) = f[e] + SumFunctionOnSet(f, S)
<1>1. IsFiniteSet(S \cup {e}) /\ (S \cup {e}) \ {e} = S
  BY FS_AddElement
<1> QED BY <1>1, SumTake

\* Functions that agree on a set have the same sum over it.
LEMMA SumSame ==
  ASSUME NEW f, NEW g, NEW S, IsFiniteSet(S), \A x \in S : f[x] = g[x]
  PROVE  SumFunctionOnSet(f, S) = SumFunctionOnSet(g, S)
<1> DEFINE Bad == {s \in SUBSET S : SumFunctionOnSet(f, s) # SumFunctionOnSet(g, s)}
<1> SUFFICES ASSUME Bad # {} PROVE FALSE
  OBVIOUS
<1>1. Bad \subseteq SUBSET S
  OBVIOUS
<1>2. PICK s \in Bad : \A t \in Bad : t \subseteq s => t = s
  <2> HIDE DEF Bad
  <2> QED BY <1>1, SmallestSet
<1> DEFINE p == Pick(s)
<1>3. IsFiniteSet(s) /\ (s # {} => p \in s)
  BY FS_Subset DEF Pick
<1>4. /\ SumFunctionOnSet(f, s) = IF s = {} THEN 0 ELSE f[p] + SumFunctionOnSet(f, s \ {p})
      /\ SumFunctionOnSet(g, s) = IF s = {} THEN 0 ELSE g[p] + SumFunctionOnSet(g, s \ {p})
  BY <1>3, SumDef
<1>5. s # {} => SumFunctionOnSet(f, s \ {p}) = SumFunctionOnSet(g, s \ {p})
  BY <1>2, <1>3
<1> QED BY <1>3, <1>4, <1>5

\* Sums of naturals: natural, and positive just if one of them is.
LEMMA SumNat ==
  ASSUME NEW f, NEW S, IsFiniteSet(S), \A x \in S : f[x] \in Nat
  PROVE  /\ SumFunctionOnSet(f, S) \in Nat
         /\ SumFunctionOnSet(f, S) > 0 <=> \E x \in S : f[x] > 0
<1> DEFINE Good(s) == /\ SumFunctionOnSet(f, s) \in Nat
                      /\ SumFunctionOnSet(f, s) > 0 <=> \E x \in s : f[x] > 0
           Bad == {s \in SUBSET S : ~Good(s)}
<1> SUFFICES ASSUME Bad # {} PROVE FALSE
  OBVIOUS
<1>1. Bad \subseteq SUBSET S
  OBVIOUS
<1>2. PICK s \in Bad : \A t \in Bad : t \subseteq s => t = s
  <2> HIDE DEF Bad
  <2> QED BY <1>1, SmallestSet
<1> DEFINE p == Pick(s)
<1>3. IsFiniteSet(s) /\ (s # {} => p \in s)
  BY FS_Subset DEF Pick
<1>4. SumFunctionOnSet(f, s) = IF s = {} THEN 0 ELSE f[p] + SumFunctionOnSet(f, s \ {p})
  BY <1>3, SumDef
<1>5. s # {} => Good(s \ {p})
  BY <1>2, <1>3
<1>6. ~Good(s) /\ s \in SUBSET S
  OBVIOUS
<1>7. CASE s = {}
  BY <1>4, <1>6, <1>7
<1>8. CASE s # {}
  <2> DEFINE a == SumFunctionOnSet(f, s \ {p})
  <2>1. f[p] \in Nat /\ a \in Nat /\ (a > 0 <=> \E x \in s \ {p} : f[x] > 0)
    BY <1>3, <1>5, <1>8
  <2>2. SumFunctionOnSet(f, s) = f[p] + a
    BY <1>4, <1>8
  <2>3. (\E x \in s : f[x] > 0) <=> f[p] > 0 \/ a > 0
    BY <1>3, <1>8, <2>1
  <2> HIDE DEF a, p
  <2> QED BY <1>6, <2>1, <2>2, <2>3
<1> QED BY <1>7, <1>8

\* The sum over two sets that share nothing.
LEMMA SumUnion ==
  ASSUME NEW f, NEW S, NEW T, IsFiniteSet(S), IsFiniteSet(T), S \cap T = {},
         \A x \in S \cup T : f[x] \in Int
  PROVE  SumFunctionOnSet(f, S \cup T) = SumFunctionOnSet(f, S) + SumFunctionOnSet(f, T)
<1> DEFINE Bad == {s \in SUBSET S :
             SumFunctionOnSet(f, s \cup T) # SumFunctionOnSet(f, s) + SumFunctionOnSet(f, T)}
<1> SUFFICES ASSUME Bad # {} PROVE FALSE
  OBVIOUS
<1>1. Bad \subseteq SUBSET S
  OBVIOUS
<1>2. PICK s \in Bad : \A t \in Bad : t \subseteq s => t = s
  <2> HIDE DEF Bad
  <2> QED BY <1>1, SmallestSet
<1>3. IsFiniteSet(s) /\ IsFiniteSet(s \cup T)
  BY FS_Subset, FS_Union
<1>4. SumFunctionOnSet(f, T) \in Int
  BY SumInt
<1>5. CASE s = {}
  BY <1>4, <1>5, SumEmpty
<1>6. CASE s # {}
  <2>1. PICK p : p \in s
    BY <1>6
  <2> DEFINE t == s \ {p}
  <2>2. t \in SUBSET S /\ t # s /\ t \subseteq s
    BY <2>1
  <2>3. SumFunctionOnSet(f, t \cup T) = SumFunctionOnSet(f, t) + SumFunctionOnSet(f, T)
    BY <1>2, <2>2
  <2>4. SumFunctionOnSet(f, s) = f[p] + SumFunctionOnSet(f, t)
    BY <1>3, <2>1, SumTake
  <2>5. (s \cup T) \ {p} = t \cup T
    BY <2>1
  <2>6. SumFunctionOnSet(f, s \cup T) = f[p] + SumFunctionOnSet(f, t \cup T)
    <3>1. \A x \in s \cup T : f[x] \in Int
      OBVIOUS
    <3>2. p \in s \cup T
      BY <2>1
    <3> HIDE DEF t
    <3> QED BY <1>3, <3>1, <3>2, <2>5, SumTake
  <2>7. SumFunctionOnSet(f, t) \in Int /\ f[p] \in Int
    <3>1. IsFiniteSet(t) /\ \A x \in t : f[x] \in Int
      BY <2>2, FS_Subset
    <3> HIDE DEF t
    <3> QED BY <2>1, <3>1, SumInt
  <2>8. SumFunctionOnSet(f, s \cup T) # SumFunctionOnSet(f, s) + SumFunctionOnSet(f, T)
    OBVIOUS
  <2> HIDE DEF t
  <2> QED BY <1>4, <2>3, <2>4, <2>6, <2>7, <2>8
<1> QED BY <1>5, <1>6

\* The sum of a function that is two others combined.
LEMMA SumCombined ==
  ASSUME NEW S, IsFiniteSet(S), NEW f, NEW g, NEW h, NEW a \in Int, NEW b \in Int,
         \A x \in S : f[x] \in Int /\ g[x] \in Int /\ h[x] = a * f[x] + b * g[x]
  PROVE  SumFunctionOnSet(h, S) = a * SumFunctionOnSet(f, S) + b * SumFunctionOnSet(g, S)
<1> DEFINE Bad == {s \in SUBSET S :
             SumFunctionOnSet(h, s) # a * SumFunctionOnSet(f, s) + b * SumFunctionOnSet(g, s)}
<1> SUFFICES ASSUME Bad # {} PROVE FALSE
  OBVIOUS
<1>1. Bad \subseteq SUBSET S
  OBVIOUS
<1>2. PICK s \in Bad : \A t \in Bad : t \subseteq s => t = s
  <2> HIDE DEF Bad
  <2> QED BY <1>1, SmallestSet
<1> DEFINE p == Pick(s)
<1>3. IsFiniteSet(s) /\ (s # {} => p \in s)
  BY FS_Subset DEF Pick
<1>4. CASE s = {}
  BY <1>4, SumEmpty
<1>5. CASE s # {}
  <2> DEFINE t == s \ {p}
             x == SumFunctionOnSet(f, t)  y == SumFunctionOnSet(g, t)
  <2>1. t \in SUBSET S /\ IsFiniteSet(t) /\ p \in S /\ t \notin Bad
    BY <1>2, <1>3, <1>5, FS_Subset
  <2>2. x \in Int /\ y \in Int /\ f[p] \in Int /\ g[p] \in Int
    <3>1. (\A z \in t : f[z] \in Int) /\ (\A z \in t : g[z] \in Int)
      BY <2>1
    <3> HIDE DEF t
    <3> QED BY <2>1, <3>1, SumInt
  <2>3. /\ SumFunctionOnSet(f, s) = f[p] + x /\ SumFunctionOnSet(g, s) = g[p] + y
        /\ SumFunctionOnSet(h, s) = (a * f[p] + b * g[p]) + SumFunctionOnSet(h, t)
    BY <1>3, <1>5, SumDef
  <2>4. SumFunctionOnSet(h, t) = a * x + b * y
    BY <2>1
  <2>5. SumFunctionOnSet(h, s) # a * SumFunctionOnSet(f, s) + b * SumFunctionOnSet(g, s)
    OBVIOUS
  <2> HIDE DEF p, x, y
  <2>6. (a * f[p] + b * g[p]) + (a * x + b * y) = a * (f[p] + x) + b * (g[p] + y)
    BY <2>2
  <2> QED BY <2>3, <2>4, <2>5, <2>6
<1> QED BY <1>4, <1>5

\* The sum over a set is the sum over the parts a function splits it into.
LEMMA SumParts ==
  ASSUME NEW S, IsFiniteSet(S), NEW K, IsFiniteSet(K), NEW f, NEW key,
         \A x \in S : f[x] \in Int /\ key[x] \in K
  PROVE  SumFunctionOnSet(f, S)
           = SumFunctionOnSet([k \in K |-> SumFunctionOnSet(f, {x \in S : key[x] = k})], K)
<1> DEFINE Over(s) == {x \in S : key[x] \in s}
           F == [k \in K |-> SumFunctionOnSet(f, {x \in S : key[x] = k})]
           Bad == {s \in SUBSET K : SumFunctionOnSet(f, Over(s)) # SumFunctionOnSet(F, s)}
<1>0. Over(K) = S
  OBVIOUS
<1> SUFFICES ASSUME Bad # {} PROVE FALSE
  BY <1>0
<1>1. Bad \subseteq SUBSET K
  OBVIOUS
<1>2. PICK s \in Bad : \A t \in Bad : t \subseteq s => t = s
  <2> HIDE DEF Bad
  <2> QED BY <1>1, SmallestSet
<1> DEFINE p == Pick(s)
<1>3. IsFiniteSet(s) /\ (s # {} => p \in s)
  BY FS_Subset DEF Pick
<1>4. CASE s = {}
  BY <1>4, SumEmpty
<1>5. CASE s # {}
  <2> DEFINE t == s \ {p}  P == {x \in S : key[x] = p}
  <2>1. t \in SUBSET K /\ p \in K /\ SumFunctionOnSet(f, Over(t)) = SumFunctionOnSet(F, t)
    BY <1>2, <1>3, <1>5
  <2>2. SumFunctionOnSet(F, s) = F[p] + SumFunctionOnSet(F, t) /\ F[p] = SumFunctionOnSet(f, P)
    BY <1>3, <1>5, SumDef
  <2>3. Over(s) = Over(t) \cup P /\ Over(t) \cap P = {}
    BY <1>3, <1>5
  <2>4. IsFiniteSet(Over(t)) /\ IsFiniteSet(P) /\ \A x \in Over(t) \cup P : f[x] \in Int
    BY FS_Subset
  <2>5. SumFunctionOnSet(f, Over(t)) \in Int /\ SumFunctionOnSet(f, P) \in Int
    <3> HIDE DEF Over, P
    <3> QED BY <2>4, SumInt
  <2>6. SumFunctionOnSet(f, Over(t) \cup P)
          = SumFunctionOnSet(f, Over(t)) + SumFunctionOnSet(f, P)
    <3> HIDE DEF Over, P
    <3> QED BY <2>3, <2>4, SumUnion
  <2>7. SumFunctionOnSet(f, Over(s)) # SumFunctionOnSet(F, s)
    OBVIOUS
  <2> HIDE DEF Over, P, F, p, t
  <2> QED BY <2>1, <2>2, <2>3, <2>5, <2>6, <2>7
<1> QED BY <1>4, <1>5

\* A sum over other names of the same elements.
LEMMA SumRenamed ==
  ASSUME NEW S, IsFiniteSet(S), NEW f, NEW h, NEW name,
         \A x \in S : f[name[x]] \in Int /\ h[x] = f[name[x]],
         \A x, y \in S : name[x] = name[y] => x = y
  PROVE  /\ IsFiniteSet({name[x] : x \in S})
         /\ SumFunctionOnSet(h, S) = SumFunctionOnSet(f, {name[x] : x \in S})
<1> DEFINE Of(s) == {name[x] : x \in s}
<1>0. \A s \in SUBSET S : IsFiniteSet(Of(s))
  <2> SUFFICES ASSUME NEW s \in SUBSET S PROVE IsFiniteSet(Of(s))
    OBVIOUS
  <2> DEFINE e == [x \in s |-> name[x]]
  <2>1. IsFiniteSet(s)
    BY FS_Subset
  <2>2. e \in Surjection(s, Of(s))
    BY DEF Surjection
  <2> HIDE DEF e, Of
  <2> QED BY <2>1, <2>2, FS_Surjection
<1> DEFINE Bad == {s \in SUBSET S : SumFunctionOnSet(h, s) # SumFunctionOnSet(f, Of(s))}
<1> SUFFICES ASSUME Bad # {} PROVE FALSE
  BY <1>0
<1>1. Bad \subseteq SUBSET S
  OBVIOUS
<1>2. PICK s \in Bad : \A t \in Bad : t \subseteq s => t = s
  <2> HIDE DEF Bad
  <2> QED BY <1>1, SmallestSet
<1> DEFINE p == Pick(s)
<1>3. IsFiniteSet(s) /\ (s # {} => p \in s)
  BY FS_Subset DEF Pick
<1>4. CASE s = {}
  BY <1>4, SumEmpty
<1>5. CASE s # {}
  <2> DEFINE t == s \ {p}
  <2>1. t \in SUBSET S /\ SumFunctionOnSet(h, t) = SumFunctionOnSet(f, Of(t))
    BY <1>2, <1>3, <1>5
  <2>2. SumFunctionOnSet(h, s) = h[p] + SumFunctionOnSet(h, t)
    BY <1>3, <1>5, SumDef
  <2>3. Of(s) = Of(t) \cup {name[p]} /\ name[p] \notin Of(t)
    BY <1>3, <1>5
  <2>4. IsFiniteSet(Of(t)) /\ \A y \in Of(t) \cup {name[p]} : f[y] \in Int
    BY <1>0, <1>3, <1>5, <2>1
  <2>5. SumFunctionOnSet(f, Of(t) \cup {name[p]}) = f[name[p]] + SumFunctionOnSet(f, Of(t))
    <3> HIDE DEF Of
    <3> QED BY <2>3, <2>4, SumAdd
  <2>6. h[p] = f[name[p]] /\ SumFunctionOnSet(h, s) # SumFunctionOnSet(f, Of(s))
    BY <1>3, <1>5
  <2> HIDE DEF Of, p, t
  <2> QED BY <2>1, <2>2, <2>3, <2>5, <2>6
<1> QED BY <1>4, <1>5

\* The image of a finite set is finite, and as large if no two elements meet.
LEMMA Image ==
  ASSUME NEW S, IsFiniteSet(S), NEW name
  PROVE  /\ IsFiniteSet({name[x] : x \in S})
         /\ (\A x, y \in S : name[x] = name[y] => x = y)
              => Cardinality({name[x] : x \in S}) = Cardinality(S)
<1> DEFINE T == {name[x] : x \in S}
           e == [x \in S |-> name[x]]
<1>1. e \in Surjection(S, T)
  BY DEF Surjection
<1>2. (\A x, y \in S : name[x] = name[y] => x = y) => e \in Injection(S, T)
  BY DEF Injection, IsInjective
<1> HIDE DEF e, T
<1>3. IsFiniteSet(T) /\ (e \in Injection(S, T) => Cardinality(T) = Cardinality(S))
  BY <1>1, FS_Surjection
<1> QED BY <1>2, <1>3 DEF T

\* The sum of the same number for every element.
LEMMA SumConstant ==
  ASSUME NEW S, IsFiniteSet(S), NEW f, NEW c \in Int, \A x \in S : f[x] = c
  PROVE  SumFunctionOnSet(f, S) = c * Cardinality(S)
<1> DEFINE Bad == {s \in SUBSET S : SumFunctionOnSet(f, s) # c * Cardinality(s)}
<1> SUFFICES ASSUME Bad # {} PROVE FALSE
  OBVIOUS
<1>1. Bad \subseteq SUBSET S
  OBVIOUS
<1>2. PICK s \in Bad : \A t \in Bad : t \subseteq s => t = s
  <2> HIDE DEF Bad
  <2> QED BY <1>1, SmallestSet
<1> DEFINE p == Pick(s)
<1>3. IsFiniteSet(s) /\ (s # {} => p \in s)
  BY FS_Subset DEF Pick
<1>4. CASE s = {}
  BY <1>4, SumEmpty, FS_EmptySet
<1>5. CASE s # {}
  <2> DEFINE t == s \ {p}
  <2>1. t \in SUBSET S /\ SumFunctionOnSet(f, t) = c * Cardinality(t)
    BY <1>2, <1>3, <1>5
  <2>2. SumFunctionOnSet(f, s) = c + SumFunctionOnSet(f, t)
    BY <1>3, <1>5, SumDef
  <2>3. Cardinality(t) = Cardinality(s) - 1 /\ Cardinality(s) \in Nat
    BY <1>3, <1>5, FS_RemoveElement, FS_CardinalityType
  <2>4. SumFunctionOnSet(f, s) # c * Cardinality(s)
    OBVIOUS
  <2> HIDE DEF p, t
  <2>5. c * Cardinality(s) = c + c * (Cardinality(s) - 1)
    BY <2>3
  <2> QED BY <2>1, <2>2, <2>3, <2>4, <2>5
<1> QED BY <1>4, <1>5

\* The sum of an amount field over a set, as the sum of a function.
LEMMA AmountsOver ==
  ASSUME NEW S, NEW f, \A x \in S : f[x] = x.amount
  PROVE  MapThenSumSet(LAMBDA x : x.amount, S) = SumFunctionOnSet(f, S)
<1> DEFINE P(g) == g = [s \in SUBSET S |-> IF s = {} THEN 0
                          ELSE LET x == CHOOSE x \in s : TRUE IN x.amount + g[s \ {x}]]
<1>1. MapThenSumSet(LAMBDA x : x.amount, S) = (CHOOSE g : P(g))[S]
  BY DEF MapThenSumSet, MapThenFoldSet
<1>2. SumFunctionOnSet(f, S) = (CHOOSE g : Running(f, S, g))[S]
  BY DEF SumFunctionOnSet, FoldFunctionOnSet, MapThenFoldSet, Running
<1>3. ASSUME NEW g PROVE P(g) <=> Running(f, S, g)
  BY DEF Running
<1> HIDE DEF P
<1> QED BY <1>1, <1>2, <1>3
=============================================================================
