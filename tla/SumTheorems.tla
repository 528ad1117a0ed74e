---------------------------- MODULE SumTheorems ----------------------------
(***************************************************************************)
(* Sums of integers over finite sets, as the operators MapThenSumSet of    *)
(* the model compute them: an element of the set is chosen, its value is   *)
(* added to the sum of the others.                                         *)
(*                                                                         *)
(* The induction principles of the library are stated for operators; here  *)
(* induction is over the sets of subsets, from the well-foundedness of the *)
(* strict subset relation (SetInduction).  What a formula holds of is a    *)
(* set G, and a counterexample of it that is minimal does not exist.       *)
(***************************************************************************)
EXTENDS Integers, FiniteSets, FiniteSetTheorems, WellFoundedInduction, TLAPS

\* A set of subsets of a finite set that contains each subset whose strict
\* subsets it contains has them all.
LEMMA SetInduction ==
  ASSUME NEW S, IsFiniteSet(S), NEW G,
         \A T \in SUBSET S : (\A U \in SUBSET T : U # T => U \in G) => T \in G
  PROVE  \A T \in SUBSET S : T \in G
<1> DEFINE Bad == {T \in SUBSET S : T \notin G}
<1> SUFFICES ASSUME Bad # {} PROVE FALSE
  OBVIOUS
<1>1. IsWellFoundedOn(StrictSubsetOrdering(S), SUBSET S)
  <2>1. FiniteSubsetsOf(S) = SUBSET S
    BY FS_FiniteSubsetsOfFinite
  <2>2. IsWellFoundedOn(StrictSubsetOrdering(S), FiniteSubsetsOf(S))
    BY ONLY FS_StrictSubsetOrderingWellFounded
  <2> QED BY ONLY <2>1, <2>2, Zenon
<1>2. PICK T \in Bad : \A U \in Bad : <<U, T>> \notin StrictSubsetOrdering(S)
  <2> HIDE DEF Bad
  <2>1. Bad \subseteq SUBSET S
    BY DEF Bad
  <2> QED BY <1>1, <2>1, WFMin
<1>3. PICK U \in SUBSET T : U # T /\ U \notin G
  BY <1>2
<1>4. U \in Bad /\ <<U, T>> \in StrictSubsetOrdering(S)
  BY <1>2, <1>3 DEF StrictSubsetOrdering
<1> QED BY <1>2, <1>4

-----------------------------------------------------------------------------
(* The function that a recursive definition of a sum stands for.           *)

Chosen(s) == CHOOSE x \in s : TRUE
Others(s) == s \ {Chosen(s)}

\* g gives the sum of f over each subset of S.
IsSum(g, f, S) ==
  g = [s \in SUBSET S |-> IF s = {} THEN 0 ELSE f[Chosen(s)] + g[Others(s)]]

\* The sum of f over S.
Total(f, S) == (CHOOSE g : IsSum(g, f, S))[S]

\* The chosen element is one, and taking it away leaves less.
LEMMA ChosenIsOne ==
  ASSUME NEW s, s # {}
  PROVE  Chosen(s) \in s /\ Others(s) \subseteq s /\ Others(s) # s
BY DEF Chosen, Others

\* Two such functions agree where both are defined.
LEMMA SumIsUnique ==
  ASSUME NEW S, NEW T, NEW V, IsFiniteSet(V), V \subseteq S, V \subseteq T,
         NEW f, NEW g, NEW h, IsSum(g, f, S), IsSum(h, f, T)
  PROVE  g[V] = h[V]
<1> DEFINE G == {W \in SUBSET V : g[W] = h[W]}
<1>1. ASSUME NEW W \in SUBSET V, \A U \in SUBSET W : U # W => U \in G
      PROVE  W \in G
  <2>1. g[W] = IF W = {} THEN 0 ELSE f[Chosen(W)] + g[Others(W)]
    BY DEF IsSum
  <2>2. h[W] = IF W = {} THEN 0 ELSE f[Chosen(W)] + h[Others(W)]
    BY DEF IsSum
  <2>3. W # {} => g[Others(W)] = h[Others(W)]
    BY <1>1, ChosenIsOne
  <2> QED BY <2>1, <2>2, <2>3
<1> HIDE DEF G
<1>2. V \in G
  BY <1>1, SetInduction
<1> QED BY <1>2 DEF G

\* There is such a function over a finite set, and its values are integers.
LEMMA SumExists ==
  ASSUME NEW S, IsFiniteSet(S), NEW f \in [S -> Int]
  PROVE  \E g \in [SUBSET S -> Int] : IsSum(g, f, S)
<1> DEFINE SumsOver(T) == {g \in [SUBSET T -> Int] : IsSum(g, f, T)}
           G == {T \in SUBSET S : SumsOver(T) # {}}
<1>1. ASSUME NEW T \in SUBSET S, \A U \in SUBSET T : U # T => U \in G
      PROVE  T \in G
  <2> DEFINE Of(U) == (CHOOSE g : g \in SumsOver(U))[U]
             h == [s \in SUBSET T |->
                    IF s = {} THEN 0 ELSE f[Chosen(s)] + Of(Others(s))]
  <2>1. ASSUME NEW U \in SUBSET T, U # T
        PROVE  /\ Of(U) \in Int
               /\ Of(U) = IF U = {} THEN 0 ELSE f[Chosen(U)] + Of(Others(U))
    <3> DEFINE g == CHOOSE k : k \in SumsOver(U)
    <3>1. g \in SumsOver(U)
      BY <1>1, <2>1
    <3>2. g[U] \in Int /\ g[U] = IF U = {} THEN 0 ELSE f[Chosen(U)] + g[Others(U)]
      <4> HIDE DEF g
      <4> QED BY <3>1 DEF IsSum
    <3>3. ASSUME U # {} PROVE g[Others(U)] = Of(Others(U))
      <4> DEFINE k == CHOOSE j : j \in SumsOver(Others(U))
      <4>1. Others(U) \subseteq U /\ Others(U) # T /\ Others(U) \in SUBSET T
        BY <2>1, <3>3, ChosenIsOne
      <4>2. k \in SumsOver(Others(U))
        BY <1>1, <4>1
      <4>3. IsFiniteSet(Others(U))
        BY <4>1, FS_Subset
      <4>4. IsSum(g, f, U) /\ IsSum(k, f, Others(U))
        BY <3>1, <4>2
      <4> HIDE DEF g, k
      <4>5. g[Others(U)] = k[Others(U)]
        BY <4>1, <4>3, <4>4, SumIsUnique
      <4> QED BY <4>5 DEF k
    <3> QED BY <3>2, <3>3
  <2>2. ASSUME NEW s \in SUBSET T, s # {}
        PROVE  /\ Others(s) \in SUBSET T /\ Others(s) # T
               /\ Of(Others(s)) \in Int /\ f[Chosen(s)] \in Int
    <3>1. Others(s) \in SUBSET T /\ Others(s) # T /\ Chosen(s) \in S
      BY <2>2, ChosenIsOne
    <3> QED BY <2>1, <3>1
  <2> HIDE DEF Of
  <2>3. h \in [SUBSET T -> Int]
    BY <2>2
  <2>4. ASSUME NEW s \in SUBSET T, s # {} PROVE h[Others(s)] = Of(Others(s))
    BY <2>1, <2>2, <2>4
  <2>5. IsSum(h, f, T)
    BY <2>4 DEF IsSum
  <2>6. h \in SumsOver(T)
    BY <2>3, <2>5
  <2> QED BY <2>6
<1> HIDE DEF G
<1>2. S \in G
  BY <1>1, SetInduction
<1> QED BY <1>2 DEF G

-----------------------------------------------------------------------------
(* Sums.                                                                   *)

\* The sum over a subset does not depend on the function it is read from.
LEMMA TotalIs ==
  ASSUME NEW S, IsFiniteSet(S), NEW f, NEW g, IsSum(g, f, S), NEW U \in SUBSET S
  PROVE  Total(f, U) = g[U]
<1> DEFINE k == CHOOSE j : IsSum(j, f, U)
<1>1. IsSum([s \in SUBSET U |-> g[s]], f, U)
  <2>1. ASSUME NEW s \in SUBSET U
        PROVE  g[s] = IF s = {} THEN 0 ELSE f[Chosen(s)] + g[Others(s)]
    BY DEF IsSum
  <2>2. ASSUME NEW s \in SUBSET U, s # {} PROVE Others(s) \in SUBSET U
    BY <2>2, ChosenIsOne
  <2> QED BY <2>1, <2>2 DEF IsSum
<1>2. IsSum(k, f, U)
  BY <1>1
<1>3. IsFiniteSet(U)
  BY FS_Subset
<1> HIDE DEF k
<1>4. k[U] = g[U]
  BY <1>2, <1>3, SumIsUnique
<1> QED BY <1>4 DEF Total, k

\* A sum is an integer, and that of a chosen element and the others.
LEMMA TotalStep ==
  ASSUME NEW S, IsFiniteSet(S), NEW f \in [S -> Int], NEW U \in SUBSET S
  PROVE  /\ Total(f, U) \in Int
         /\ Total(f, U) = IF U = {} THEN 0 ELSE f[Chosen(U)] + Total(f, Others(U))
<1>1. PICK g \in [SUBSET S -> Int] : IsSum(g, f, S)
  BY SumExists
<1>2. U # {} => Others(U) \in SUBSET S
  BY ChosenIsOne
<1>3. /\ Total(f, U) = g[U]
      /\ U # {} => Total(f, Others(U)) = g[Others(U)]
  BY <1>1, <1>2, TotalIs
<1>4. g[U] = IF U = {} THEN 0 ELSE f[Chosen(U)] + g[Others(U)]
  BY <1>1 DEF IsSum
<1> QED BY <1>1, <1>3, <1>4

\* Any element may be the one that is taken away.
LEMMA TotalRemove ==
  ASSUME NEW S, IsFiniteSet(S), NEW f \in [S -> Int], NEW U \in SUBSET S, NEW x \in U
  PROVE  Total(f, U) = f[x] + Total(f, U \ {x})
<1> DEFINE G == {T \in SUBSET S : \A y \in T : Total(f, T) = f[y] + Total(f, T \ {y})}
<1>1. ASSUME NEW T \in SUBSET S, \A V \in SUBSET T : V # T => V \in G
      PROVE  T \in G
  <2> SUFFICES ASSUME NEW y \in T PROVE Total(f, T) = f[y] + Total(f, T \ {y})
    OBVIOUS
  <2> DEFINE c == Chosen(T)
  <2>1. c \in T /\ Others(T) = T \ {c}
    BY ChosenIsOne DEF Others
  <2>2. Total(f, T) = f[c] + Total(f, T \ {c})
    <3>1. Total(f, T) = f[Chosen(T)] + Total(f, Others(T))
      BY <2>1, TotalStep
    <3> QED BY <2>1, <3>1, Zenon
  <2> HIDE DEF c
  <2>3. CASE c # y
    <3>1. Total(f, T \ {c}) = f[y] + Total(f, (T \ {c}) \ {y})
      BY <1>1, <2>1, <2>3
    <3>2. Total(f, T \ {y}) = f[c] + Total(f, (T \ {y}) \ {c})
      BY <1>1, <2>1, <2>3
    <3>3. (T \ {c}) \ {y} = (T \ {y}) \ {c}
      OBVIOUS
    <3>4. /\ f[c] \in Int /\ f[y] \in Int
          /\ Total(f, (T \ {c}) \ {y}) \in Int
      BY <2>1, TotalStep
    <3> HIDE DEF G
    <3>5. Total(f, (T \ {y}) \ {c}) = Total(f, (T \ {c}) \ {y})
      BY <3>3, Zenon
    <3> QED BY ONLY <2>2, <3>1, <3>2, <3>4, <3>5
  <2> QED BY <2>2, <2>3
<1> HIDE DEF G
<1>2. U \in G
  BY <1>1, SetInduction
<1> QED BY <1>2 DEF G

\* The sum over nothing is 0.
LEMMA TotalEmpty == ASSUME NEW f PROVE Total(f, {}) = 0
<1>1. IsSum([s \in SUBSET {} |-> 0], f, {})
  BY DEF IsSum
<1>2. Total(f, {}) = [s \in SUBSET {} |-> 0][{}]
  BY <1>1, TotalIs, FS_EmptySet
<1> QED BY <1>2

\* Functions that agree on a set have the same sum over it.
LEMMA TotalSame ==
  ASSUME NEW S, IsFiniteSet(S), NEW f \in [S -> Int], NEW T, NEW h \in [T -> Int],
         IsFiniteSet(T), NEW U, U \subseteq S, U \subseteq T, \A x \in U : f[x] = h[x]
  PROVE  Total(f, U) = Total(h, U)
<1> DEFINE G == {V \in SUBSET U : Total(f, V) = Total(h, V)}
<1>1. ASSUME NEW V \in SUBSET U, \A W \in SUBSET V : W # V => W \in G
      PROVE  V \in G
  <2>1. Total(f, V) = IF V = {} THEN 0 ELSE f[Chosen(V)] + Total(f, Others(V))
    BY TotalStep
  <2>2. Total(h, V) = IF V = {} THEN 0 ELSE h[Chosen(V)] + Total(h, Others(V))
    BY TotalStep
  <2>3. V # {} => f[Chosen(V)] = h[Chosen(V)] /\ Total(f, Others(V)) = Total(h, Others(V))
    BY <1>1, ChosenIsOne
  <2> QED BY <2>1, <2>2, <2>3
<1> HIDE DEF G
<1>2. IsFiniteSet(U)
  BY FS_Subset
<1>3. U \in G
  BY <1>1, <1>2, SetInduction
<1> QED BY <1>3 DEF G

\* The sum over two sets without a common element is that of both sums.
LEMMA TotalUnion ==
  ASSUME NEW S, IsFiniteSet(S), NEW f \in [S -> Int],
         NEW A \in SUBSET S, NEW B \in SUBSET S, A \intersect B = {}
  PROVE  Total(f, A \union B) = Total(f, A) + Total(f, B)
<1> DEFINE G == {T \in SUBSET A : Total(f, T \union B) = Total(f, T) + Total(f, B)}
<1>1. ASSUME NEW T \in SUBSET A, \A V \in SUBSET T : V # T => V \in G
      PROVE  T \in G
  <2>1. CASE T = {}
    <3>1. Total(f, T) = 0 /\ Total(f, B) \in Int
      BY <2>1, TotalEmpty, TotalStep
    <3>2. T \union B = B
      BY <2>1
    <3>3. Total(f, T \union B) = Total(f, B)
      BY <3>2, Zenon
    <3>4. Total(f, T \union B) = Total(f, T) + Total(f, B)
      BY ONLY <3>1, <3>3
    <3> QED BY <3>4
  <2>2. CASE T # {}
    <3>1. PICK x \in T : TRUE
      BY <2>2
    <3>2. Total(f, (T \ {x}) \union B) = Total(f, T \ {x}) + Total(f, B)
      BY <1>1, <3>1
    <3>3. Total(f, T) = f[x] + Total(f, T \ {x})
      BY <3>1, TotalRemove
    <3>4. Total(f, T \union B) = f[x] + Total(f, (T \union B) \ {x})
      BY <3>1, TotalRemove
    <3>5. (T \union B) \ {x} = (T \ {x}) \union B
      BY <3>1
    <3>6. f[x] \in Int /\ Total(f, T \ {x}) \in Int /\ Total(f, B) \in Int
      BY <3>1, TotalStep
    <3>7. Total(f, (T \union B) \ {x}) = Total(f, (T \ {x}) \union B)
      BY <3>5, Zenon
    <3>8. Total(f, T \union B) = Total(f, T) + Total(f, B)
      BY ONLY <3>2, <3>3, <3>4, <3>6, <3>7
    <3> QED BY <3>8
  <2> QED BY <2>1, <2>2
<1> HIDE DEF G
<1>2. IsFiniteSet(A)
  BY FS_Subset
<1>3. A \in G
  BY <1>1, <1>2, SetInduction
<1> QED BY <1>3 DEF G

\* What is counted in parts is counted once: the sums over disjoint sets add up
\* to the sum over all of them.
LEMMA TotalPartition ==
  ASSUME NEW S, IsFiniteSet(S), NEW f \in [S -> Int],
         NEW K, IsFiniteSet(K), NEW P \in [K -> SUBSET S],
         \A j, k \in K : j # k => P[j] \intersect P[k] = {}
  PROVE  Total([k \in K |-> Total(f, P[k])], K) = Total(f, UNION {P[k] : k \in K})
<1> DEFINE sums == [k \in K |-> Total(f, P[k])]
           Covered(J) == UNION {P[k] : k \in J}
           G == {J \in SUBSET K : Total(sums, J) = Total(f, Covered(J))}
<1>1. sums \in [K -> Int]
  BY TotalStep
<1>2. ASSUME NEW J \in SUBSET K, \A V \in SUBSET J : V # J => V \in G
      PROVE  J \in G
  <2>1. CASE J = {}
    <3>1. Covered(J) = {}
      BY <2>1
    <3>2. Total(sums, J) = 0
      BY <2>1, TotalEmpty
    <3>3. Total(f, Covered(J)) = 0
      <4> HIDE DEF Covered
      <4> QED BY <3>1, TotalEmpty
    <3> QED BY <3>2, <3>3
  <2>2. CASE J # {}
    <3>1. PICK k \in J : TRUE
      BY <2>2
    <3>2. Total(sums, J \ {k}) = Total(f, Covered(J \ {k}))
      BY <1>2, <3>1
    <3>3. Total(sums, J) = sums[k] + Total(sums, J \ {k})
      <4> HIDE DEF sums
      <4> QED BY <1>1, <3>1, TotalRemove
    <3>4. sums[k] = Total(f, P[k])
      BY <3>1
    <3>5. /\ P[k] \in SUBSET S /\ Covered(J \ {k}) \in SUBSET S
          /\ P[k] \intersect Covered(J \ {k}) = {}
          /\ P[k] \union Covered(J \ {k}) = Covered(J)
      BY <3>1
    <3> HIDE DEF sums, Covered
    <3>6. Total(f, P[k] \union Covered(J \ {k}))
            = Total(f, P[k]) + Total(f, Covered(J \ {k}))
      <4> HIDE DEF G
      <4> DEFINE A == P[k]
                 B == Covered(J \ {k})
      <4>1. A \in SUBSET S /\ B \in SUBSET S /\ A \intersect B = {}
        BY <3>5
      <4> HIDE DEF A, B
      <4>2. Total(f, A \union B) = Total(f, A) + Total(f, B)
        BY <4>1, TotalUnion
      <4> QED BY <4>2 DEF A, B
    <3>7. Total(f, P[k] \union Covered(J \ {k})) = Total(f, Covered(J))
      BY <3>5, Zenon
    <3>8. Total(sums, J) = Total(f, Covered(J))
      BY ONLY <3>2, <3>3, <3>4, <3>6, <3>7
    <3> QED BY <3>8 DEF sums, Covered
  <2> QED BY <2>1, <2>2
<1> HIDE DEF G
<1>3. K \in G
  BY <1>2, SetInduction
<1> QED BY <1>3 DEF G

\* The number of elements is the sum of a one for each.
LEMMA TotalOfOnes ==
  ASSUME NEW S, IsFiniteSet(S), NEW U \in SUBSET S
  PROVE  Total([x \in S |-> 1], U) = Cardinality(U)
<1> DEFINE one == [x \in S |-> 1]
           G == {T \in SUBSET S : Total(one, T) = Cardinality(T)}
<1>1. one \in [S -> Int]
  OBVIOUS
<1>2. ASSUME NEW T \in SUBSET S, \A V \in SUBSET T : V # T => V \in G
      PROVE  T \in G
  <2>1. CASE T = {}
    BY <2>1, TotalEmpty, FS_EmptySet
  <2>2. CASE T # {}
    <3>1. PICK x \in T : TRUE
      BY <2>2
    <3>2. Total(one, T \ {x}) = Cardinality(T \ {x})
      BY <1>2, <3>1
    <3>3. one[x] = 1
      BY <3>1
    <3>4. Total(one, T) = one[x] + Total(one, T \ {x})
      <4> HIDE DEF one
      <4> QED BY <1>1, <3>1, TotalRemove
    <3>5. IsFiniteSet(T)
      BY FS_Subset
    <3>6. Cardinality(T) \in Nat /\ Cardinality(T \ {x}) = Cardinality(T) - 1
      BY <3>1, <3>5, FS_CardinalityType, FS_RemoveElement
    <3>7. Total(one, T) = Cardinality(T)
      BY ONLY <3>2, <3>3, <3>4, <3>6
    <3> QED BY <3>7
  <2> QED BY <2>1, <2>2
<1> HIDE DEF G
<1>3. U \in G
  BY <1>2, SetInduction
<1> QED BY <1>3 DEF G

\* A sum of multiples is the same multiples of the sums.
LEMMA TotalLinear ==
  ASSUME NEW S, IsFiniteSet(S), NEW p \in [S -> Int], NEW a \in [S -> Int],
         NEW d \in Int, NEW e \in Int, NEW U \in SUBSET S
  PROVE  Total([x \in S |-> d * p[x] - e * a[x]], U) = d * Total(p, U) - e * Total(a, U)
<1> DEFINE w == [x \in S |-> d * p[x] - e * a[x]]
           G == {T \in SUBSET S : Total(w, T) = d * Total(p, T) - e * Total(a, T)}
<1>1. w \in [S -> Int]
  OBVIOUS
<1>2. ASSUME NEW T \in SUBSET S, \A V \in SUBSET T : V # T => V \in G
      PROVE  T \in G
  <2>1. CASE T = {}
    <3>1. Total(w, T) = 0 /\ Total(p, T) = 0 /\ Total(a, T) = 0
      BY <2>1, TotalEmpty
    <3> QED BY <3>1
  <2>2. CASE T # {}
    <3>1. PICK x \in T : TRUE
      BY <2>2
    <3>2. Total(w, T \ {x}) = d * Total(p, T \ {x}) - e * Total(a, T \ {x})
      BY <1>2, <3>1
    <3>3. w[x] = d * p[x] - e * a[x]
      BY <3>1
    <3>4. Total(w, T) = w[x] + Total(w, T \ {x})
      <4> HIDE DEF w
      <4> QED BY <1>1, <3>1, TotalRemove
    <3>5. Total(p, T) = p[x] + Total(p, T \ {x}) /\ Total(a, T) = a[x] + Total(a, T \ {x})
      BY <3>1, TotalRemove
    <3>6. /\ p[x] \in Int /\ Total(p, T \ {x}) \in Int
          /\ a[x] \in Int /\ Total(a, T \ {x}) \in Int
      BY <3>1, TotalStep
    <3>7. /\ d * Total(p, T) = d * p[x] + d * Total(p, T \ {x})
          /\ e * Total(a, T) = e * a[x] + e * Total(a, T \ {x})
      BY ONLY <3>5, <3>6, d \in Int, e \in Int
    <3>8. Total(w, T) = d * Total(p, T) - e * Total(a, T)
      BY ONLY <3>2, <3>3, <3>4, <3>6, <3>7, d \in Int, e \in Int
    <3> QED BY <3>8
  <2> QED BY <2>1, <2>2
<1> HIDE DEF G
<1>3. U \in G
  BY <1>2, SetInduction
<1> QED BY <1>3 DEF G

\* The sum of numbers within a bound is within that bound for each of them.
LEMMA TotalBound ==
  ASSUME NEW S, IsFiniteSet(S), NEW e \in Nat, NEW w \in [S -> -e..e], NEW U \in SUBSET S
  PROVE  /\ Total(w, U) <= e * Cardinality(U)
         /\ -(e * Cardinality(U)) <= Total(w, U)
<1> DEFINE Within(T) == /\ Total(w, T) <= e * Cardinality(T)
                        /\ -(e * Cardinality(T)) <= Total(w, T)
           G == {T \in SUBSET S : Within(T)}
<1>1. w \in [S -> Int]
  OBVIOUS
<1>2. ASSUME NEW T \in SUBSET S, \A V \in SUBSET T : V # T => V \in G
      PROVE  T \in G
  <2>1. CASE T = {}
    <3>1. Total(w, T) = 0 /\ Cardinality(T) = 0
      BY <2>1, TotalEmpty, FS_EmptySet
    <3> QED BY <3>1
  <2>2. CASE T # {}
    <3>1. PICK x \in T : TRUE
      BY <2>2
    <3>2. Within(T \ {x})
      BY <1>2, <3>1
    <3>3. Total(w, T) = w[x] + Total(w, T \ {x}) /\ Total(w, T \ {x}) \in Int
      BY <1>1, <3>1, TotalRemove, TotalStep
    <3>4. w[x] \in Int /\ w[x] <= e /\ -e <= w[x]
      BY <3>1
    <3>5. IsFiniteSet(T)
      BY FS_Subset
    <3>6. Cardinality(T) \in Nat /\ Cardinality(T \ {x}) = Cardinality(T) - 1
      BY <3>1, <3>5, FS_CardinalityType, FS_RemoveElement
    <3>7. e * Cardinality(T) = e * Cardinality(T \ {x}) + e
      BY ONLY <3>6, e \in Nat
    <3>8. Within(T)
      BY ONLY <3>2, <3>3, <3>4, <3>6, <3>7, e \in Nat
    <3> QED BY <3>8
  <2> QED BY <2>1, <2>2
<1> HIDE DEF G
<1>3. U \in G
  BY <1>2, SetInduction
<1> QED BY <1>3 DEF G
=============================================================================
