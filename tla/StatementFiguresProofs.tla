----------------------- MODULE StatementFiguresProofs -----------------------
(***************************************************************************)
(* The figures are right, for all statements, documents and years.         *)
(*                                                                         *)
(* What is stored passed the schemas (StoredInv), so that the lines of     *)
(* completed statements are finitely many, with dates and whole amounts.   *)
(* Of such lines: the ranges of the months are disjoint and cover the      *)
(* years (CurrentIsMonth), the buckets of a column partition a month       *)
(* (GroupByIs), a sum over a partition is the sum of its parts             *)
(* (SumTheorems), and a share is off by half a tenth (TenthsError), or, if *)
(* it is positive, right about what is more (PositiveIsMore).              *)
(***************************************************************************)
EXTENDS StatementFigures, SumTheorems

-----------------------------------------------------------------------------
(* The sums of the model are sums.                                         *)

IsAmounts(L) == IsFiniteSet(L) /\ \A l \in L : l.amount \in Int

AmountIn(L) == [l \in L |-> l.amount]

\* AmountOf is the sum of the amounts, over any part of a set of lines.
LEMMA AmountIsTotal ==
  ASSUME NEW L, IsAmounts(L), NEW U \in SUBSET L
  PROVE  AmountOf(U) = Total(AmountIn(L), U) /\ AmountOf(U) \in Int
<1> DEFINE Step(g) == [s \in SUBSET U |-> IF s = {} THEN 0 ELSE
                         (CHOOSE x \in s : TRUE).amount + g[s \ {CHOOSE x \in s : TRUE}]]
           iter == CHOOSE g : g = Step(g)
<1>1. IsFiniteSet(U) /\ IsFiniteSet(L)
      /\ AmountIn(L) \in [L -> Int] /\ AmountIn(U) \in [U -> Int]
  BY FS_Subset DEF IsAmounts, AmountIn
<1>2. ASSUME NEW g PROVE IsSum(g, AmountIn(U), U) <=> g = Step(g)
  <2>1. \A s \in SUBSET U : s # {} => (CHOOSE x \in s : TRUE) \in U
    OBVIOUS
  <2> QED BY <2>1 DEF IsSum, AmountIn, Chosen, Others
<1>3. AmountOf(U) = iter[U]
  BY DEF AmountOf, MapThenSumSet, MapThenFoldSet
<1>4. IsSum(iter, AmountIn(U), U)
  <2>1. \E g : g = Step(g)
    <3>1. \E g : IsSum(g, AmountIn(U), U)
      BY <1>1, SumExists
    <3> HIDE DEF Step
    <3> QED BY <1>2, <3>1
  <2> HIDE DEF Step
  <2>2. iter = Step(iter)
    BY <2>1
  <2> QED BY <1>2, <2>2
<1> HIDE DEF iter
<1>5. iter[U] = Total(AmountIn(U), U)
  BY <1>1, <1>4, TotalIs
<1>6. Total(AmountIn(U), U) = Total(AmountIn(L), U)
  <2>1. \A l \in U : AmountIn(U)[l] = AmountIn(L)[l]
    BY DEF AmountIn
  <2> QED BY <1>1, <2>1, TotalSame
<1>7. Total(AmountIn(L), U) \in Int
  BY <1>1, TotalStep
<1> QED BY <1>3, <1>5, <1>6, <1>7

-----------------------------------------------------------------------------
(* Months.                                                                 *)

CalendarMonths == [year : Int, month : 1..12]

\* The month before and the month after are inverse to each other.
LEMMA ShiftBack ==
  ASSUME NEW m \in CalendarMonths
  PROVE  /\ ShiftMonth(m, -1) \in CalendarMonths
         /\ ShiftMonth(m, 1) \in CalendarMonths
         /\ ShiftMonth(ShiftMonth(m, -1), 1) = m
<1> DEFINE y == m.year
           n == m.month
<1>1. y \in Int /\ n \in 1..12 /\ m = [year |-> y, month |-> n]
  BY DEF CalendarMonths
<1>2. /\ (y * 12 + n - 2) \div 12 = IF n = 1 THEN y - 1 ELSE y
      /\ (y * 12 + n - 2) % 12 = IF n = 1 THEN 11 ELSE n - 2
      /\ (y * 12 + n) \div 12 = IF n = 12 THEN y + 1 ELSE y
      /\ (y * 12 + n) % 12 = IF n = 12 THEN 0 ELSE n
  <2> HIDE DEF y, n
  <2> QED BY <1>1
<1>3. ShiftMonth(m, -1) = IF n = 1 THEN [year |-> y - 1, month |-> 12]
                          ELSE [year |-> y, month |-> n - 1]
  <2>1. y * 12 + n - 1 + (-1) = y * 12 + n - 2
    BY <1>1
  <2> QED BY <1>1, <1>2, <2>1 DEF ShiftMonth
<1>4. ShiftMonth(m, 1) = IF n = 12 THEN [year |-> y + 1, month |-> 1]
                         ELSE [year |-> y, month |-> n + 1]
  <2>1. y * 12 + n - 1 + 1 = y * 12 + n
    BY <1>1
  <2> QED BY <1>1, <1>2, <2>1 DEF ShiftMonth
<1>5. CASE n = 1
  <2>1. /\ (y - 1) * 12 + 12 - 1 + 1 = y * 12
        /\ (y * 12) \div 12 = y /\ (y * 12) % 12 = 0
    <3> HIDE DEF y, n
    <3> QED BY <1>1
  <2> QED BY <1>1, <1>3, <1>4, <1>5, <2>1 DEF ShiftMonth, CalendarMonths
<1>6. CASE n # 1
  <2>1. /\ y * 12 + (n - 1) - 1 + 1 = y * 12 + (n - 1)
        /\ (y * 12 + (n - 1)) \div 12 = y /\ (y * 12 + (n - 1)) % 12 = n - 1
    <3> HIDE DEF y, n
    <3> QED BY <1>1, <1>6
  <2> QED BY <1>1, <1>3, <1>4, <1>6, <2>1 DEF ShiftMonth, CalendarMonths
<1> QED BY <1>5, <1>6

IsDate(d) == d.year \in Int /\ d.month \in 1..12 /\ d.day \in Nat \ {0}

\* A date is in the current range of its own month and in no other's.
LEMMA CurrentIsMonth ==
  ASSUME NEW m \in CalendarMonths, NEW d, IsDate(d)
  PROVE  InRange(d, GetMonthlyAnalyticsRanges(m).current)
           <=> d.year = m.year /\ d.month = m.month
<1> DEFINE y == m.year
           n == m.month
<1>1. y \in Int /\ n \in 1..12
  BY DEF CalendarMonths
<1>2. /\ (y * 12 + n) \div 12 = IF n = 12 THEN y + 1 ELSE y
      /\ (y * 12 + n) % 12 = IF n = 12 THEN 0 ELSE n
  <2> HIDE DEF y, n
  <2> QED BY <1>1
<1>3. y * 12 + n - 1 + 1 = y * 12 + n
  BY <1>1
<1>4. MonthStart(ShiftMonth(m, 1)) =
        [year |-> IF n = 12 THEN y + 1 ELSE y, month |-> IF n = 12 THEN 1 ELSE n + 1,
         day |-> 1]
  BY <1>1, <1>2, <1>3 DEF MonthStart, ShiftMonth
<1> QED BY <1>1, <1>4 DEF GetMonthlyAnalyticsRanges, InRange, Before, MonthStart, IsDate

\* The range a month is compared with is that of the month before.
LEMMA PreviousIsCurrent ==
  ASSUME NEW m \in CalendarMonths
  PROVE  GetMonthlyAnalyticsRanges(m).previous
           = GetMonthlyAnalyticsRanges(ShiftMonth(m, -1)).current
BY ShiftBack DEF GetMonthlyAnalyticsRanges

-----------------------------------------------------------------------------
(* Shares and changes.                                                     *)

\* Rounding to tenths is off by half a tenth at most: |2 (d t - 1000 n)| <= |d|.
LEMMA TenthsError ==
  ASSUME NEW n \in Int, NEW d \in Int, d # 0, NEW up \in BOOLEAN
  PROVE  /\ Tenths(n, d, up) \in Int
         /\ 2 * (d * Tenths(n, d, up)) - 2000 * n \in -AbsoluteOf(d)..AbsoluteOf(d)
<1> DEFINE b == AbsoluteOf(d)
           top == IF d < 0 THEN -1000 * n ELSE 1000 * n
           q == top \div b
           r == top % b
           t == Tenths(n, d, up)
<1>1. b \in Nat \ {0} /\ top \in Int
  BY DEF AbsoluteOf
<1>2. q \in Int /\ r \in 0..(b - 1) /\ top = b * q + r
  <2> HIDE DEF b, top
  <2> QED BY <1>1
<1>3. t = IF 2 * r > b \/ (2 * r = b /\ up) THEN q + 1 ELSE q
  BY DEF Tenths
<1> HIDE DEF q, r, t
<1>4. t \in Int /\ 2 * (b * t - top) \in -b..b
  <2>1. CASE t = q
    <3>1. b * t - top = -r /\ 2 * r <= b
      BY <1>1, <1>2, <1>3, <2>1
    <3> QED BY <1>1, <1>2, <2>1, <3>1
  <2>2. CASE t = q + 1
    <3>1. b * t = b * q + b
      BY ONLY <1>1, <1>2, <2>2
    <3>2. b * t - top = b - r
      BY <1>1, <1>2, <3>1
    <3>3. 2 * r >= b \/ q + 1 = q
      BY <1>1, <1>2, <1>3, <2>2
    <3> QED BY <1>1, <1>2, <2>2, <3>2, <3>3
  <2> QED BY <1>3, <2>1, <2>2
<1>5. 2 * (d * t) - 2000 * n \in {2 * (b * t - top), -(2 * (b * t - top))}
  <2>1. CASE d < 0
    <3>1. b = -d /\ top = -1000 * n
      BY <2>1 DEF AbsoluteOf
    <3>2. b * t = -(d * t)
      BY ONLY <1>4, <3>1, d \in Int
    <3> HIDE DEF b, top
    <3> QED BY <1>1, <1>4, <3>1, <3>2
  <2>2. CASE d > 0
    <3>1. b = d /\ top = 1000 * n
      BY <2>2 DEF AbsoluteOf
    <3>2. b * t = d * t
      BY ONLY <3>1
    <3> HIDE DEF b, top
    <3> QED BY <1>1, <1>4, <3>1, <3>2
  <2> QED BY <2>1, <2>2
<1> HIDE DEF b, top
<1>6. 2 * (d * t) - 2000 * n \in -b..b
  BY <1>1, <1>4, <1>5
<1> QED BY <1>4, <1>6 DEF b, t

\* A change that rounds to something positive is one.
LEMMA PositiveIsMore ==
  ASSUME NEW c \in Int, NEW p \in Int, NEW up \in BOOLEAN,
         ChangePercentage(c, p, up) # Null, ChangePercentage(c, p, up) > 0
  PROVE  p # 0 /\ c > p
<1>1. p # 0 /\ Tenths(c - p, AbsoluteOf(p), up) > 0
  BY DEF ChangePercentage
<1> DEFINE b == AbsoluteOf(p)
           t == Tenths(c - p, b, up)
           k == c - p
<1>2. b \in Nat \ {0} /\ AbsoluteOf(b) = b /\ k \in Int
  BY <1>1 DEF AbsoluteOf
<1>3. t \in Int /\ 2 * (b * t) - 2000 * k \in -b..b
  <2> HIDE DEF b, k
  <2>0. b \in Int /\ b # 0 /\ k \in Int
    BY <1>2
  <2>1. \A n, d \in Int : d # 0 =>
          /\ Tenths(n, d, up) \in Int
          /\ 2 * (d * Tenths(n, d, up)) - 2000 * n \in -AbsoluteOf(d)..AbsoluteOf(d)
    BY TenthsError
  <2>2. /\ Tenths(k, b, up) \in Int
        /\ 2 * (b * Tenths(k, b, up)) - 2000 * k \in -AbsoluteOf(b)..AbsoluteOf(b)
    BY ONLY <2>0, <2>1
  <2> QED BY <1>2, <2>2 DEF k
<1>4. t >= 1
  BY <1>1, <1>3
<1>5. b * t >= b
  BY ONLY <1>2, <1>3, <1>4
<1>6. k > 0
  <2> HIDE DEF b, t, k
  <2> QED BY <1>2, <1>3, <1>5
<1> QED BY <1>1, <1>6

\* A share and a change are numbers, or Null.
LEMMA PercentageType ==
  ASSUME NEW c \in Int, NEW p \in Int, NEW up \in BOOLEAN
  PROVE  /\ Percentage(c, p, up) \in Int \union {Null}
         /\ ChangePercentage(c, p, up) \in Int \union {Null}
<1>1. p # 0 => Tenths(c, p, up) \in Int
  BY TenthsError
<1>2. ASSUME p # 0 PROVE Tenths(c - p, AbsoluteOf(p), up) \in Int
  <2>1. c - p \in Int /\ AbsoluteOf(p) \in Int /\ AbsoluteOf(p) # 0
    BY <1>2 DEF AbsoluteOf
  <2>2. \A n, d \in Int : d # 0 => Tenths(n, d, up) \in Int
    BY TenthsError
  <2> QED BY ONLY <2>1, <2>2
<1> QED BY <1>1, <1>2 DEF Percentage, ChangePercentage

-----------------------------------------------------------------------------
(* Figures.                                                                *)

Columns == {"category", "merchant"}
Group(L, column, name) == {line \in L : line[column] = name}

\* The parts of a set of lines have amounts too.
LEMMA PartsHaveAmounts ==
  ASSUME NEW L, IsAmounts(L), NEW U \in SUBSET L
  PROVE  /\ IsAmounts(U) /\ AmountOf(U) \in Int
         /\ IsFiniteSet(U) /\ Cardinality(U) \in Nat
<1>1. IsFiniteSet(U)
  BY FS_Subset DEF IsAmounts
<1> QED BY <1>1, FS_CardinalityType, AmountIsTotal DEF IsAmounts

\* A bucket has the amount and the number of the lines of its name.
LEMMA GroupByIs ==
  ASSUME NEW L, IsAmounts(L), NEW column, NEW b \in GroupBy(L, column)
  PROVE  /\ b = [name |-> b.name, amount |-> b.amount, count |-> b.count]
         /\ b.name \in {line[column] : line \in L}
         /\ b.amount = AmountOf(Group(L, column, b.name)) /\ b.amount \in Int
         /\ b.count = Cardinality(Group(L, column, b.name)) /\ b.count \in Nat
<1>1. PICK name \in {line[column] : line \in L} :
        b = [name |-> name, amount |-> AmountOf(Group(L, column, name)),
             count |-> Cardinality(Group(L, column, name))]
  BY DEF GroupBy, Group
<1>2. Group(L, column, name) \in SUBSET L
  BY DEF Group
<1> QED BY <1>1, <1>2, PartsHaveAmounts

\* Every name has a bucket, and only one.
LEMMA GroupByAll ==
  ASSUME NEW L, NEW column
  PROVE  /\ \A line \in L : \E b \in GroupBy(L, column) : b.name = line[column]
         /\ \A b, c \in GroupBy(L, column) : b.name = c.name => b = c
<1> DEFINE Bucket(name) ==
             [name |-> name, amount |-> AmountOf(Group(L, column, name)),
              count |-> Cardinality(Group(L, column, name))]
<1>1. GroupBy(L, column) = {Bucket(name) : name \in {line[column] : line \in L}}
  BY Zenon DEF GroupBy, Group
<1>2. \A name : Bucket(name).name = name
  OBVIOUS
<1> HIDE DEF Bucket
<1> QED BY <1>1, <1>2

IsBuckets(B) ==
  \A b \in B : /\ b = [name |-> b.name, amount |-> b.amount, count |-> b.count]
               /\ b.amount \in Int /\ b.count \in Nat

\* A bucket of the answer is one of the month with its share, and what it is
\* compared with is the bucket of the same name of the month before.
LEMMA BuildResponseIs ==
  ASSUME NEW B, IsBuckets(B), NEW P, IsBuckets(P), NEW total \in Int, NEW up \in BOOLEAN,
         NEW r \in BuildResponse(B, P, total, up)
  PROVE  /\ \E b \in B : b.name = r.name /\ b.amount = r.amount /\ b.count = r.count
         /\ r.percentage = Percentage(r.amount, total, up)
         /\ \/ /\ \A p \in P : p.name # r.name
               /\ r.previousAmount = Null /\ r.amountChangePercentage = Null
            \/ \E p \in P :
                 /\ p.name = r.name /\ r.previousAmount = p.amount
                 /\ r.amountChangePercentage = ChangePercentage(r.amount, p.amount, up)
         /\ r = [name |-> r.name, amount |-> r.amount, count |-> r.count,
                 percentage |-> r.percentage, previousAmount |-> r.previousAmount,
                 amountChangePercentage |-> r.amountChangePercentage]
<1> DEFINE Prev(name) == {b.amount : b \in {p \in P : p.name = name}}
           One(name) == CHOOSE a \in Prev(name) : TRUE
<1>1. PICK b \in B :
        r = [name |-> b.name, amount |-> b.amount, count |-> b.count,
             percentage |-> Percentage(b.amount, total, up),
             previousAmount |-> IF Prev(b.name) = {} THEN Null ELSE One(b.name),
             amountChangePercentage |->
               IF Prev(b.name) = {} THEN Null
               ELSE ChangePercentage(b.amount, One(b.name), up)]
  BY Zenon DEF BuildResponse
<1>2. r.name = b.name /\ r.amount = b.amount /\ r.count = b.count
      /\ r.percentage = Percentage(b.amount, total, up)
  BY <1>1
<1>3. CASE Prev(b.name) = {}
  <2>1. \A p \in P : p.name # b.name
    BY <1>3
  <2>2. r.previousAmount = Null /\ r.amountChangePercentage = Null
    BY <1>1, <1>3
  <2> QED BY <1>1, <1>2, <2>1, <2>2
<1>4. CASE Prev(b.name) # {}
  <2>1. One(b.name) \in Prev(b.name)
    BY <1>4
  <2>2. PICK p \in P : p.name = b.name /\ p.amount = One(b.name)
    BY <2>1
  <2> HIDE DEF Prev, One
  <2>3. /\ r.previousAmount = p.amount
        /\ r.amountChangePercentage = ChangePercentage(b.amount, p.amount, up)
    BY <1>1, <1>4, <2>2
  <2> QED BY <1>1, <1>2, <2>2, <2>3
<1> QED BY <1>3, <1>4

\* Every bucket of the month is in the answer, under its name.
LEMMA BuildResponseAll ==
  ASSUME NEW B, NEW P, NEW total, NEW up
  PROVE  /\ \A b \in B : \E r \in BuildResponse(B, P, total, up) :
               r.name = b.name /\ r.amount = b.amount
         /\ (\A b, c \in B : b.name = c.name => b = c) =>
               \A r, s \in BuildResponse(B, P, total, up) : r.name = s.name => r = s
<1> DEFINE Prev(name) == {b.amount : b \in {p \in P : p.name = name}}
           One(name) == CHOOSE a \in Prev(name) : TRUE
           Response(b) ==
             [name |-> b.name, amount |-> b.amount, count |-> b.count,
              percentage |-> Percentage(b.amount, total, up),
              previousAmount |-> IF Prev(b.name) = {} THEN Null ELSE One(b.name),
              amountChangePercentage |->
                IF Prev(b.name) = {} THEN Null
                ELSE ChangePercentage(b.amount, One(b.name), up)]
<1>1. BuildResponse(B, P, total, up) = {Response(b) : b \in B}
  BY Zenon DEF BuildResponse
<1>2. \A b \in B : Response(b).name = b.name /\ Response(b).amount = b.amount
  OBVIOUS
<1> HIDE DEF Response
<1> QED BY <1>1, <1>2

-----------------------------------------------------------------------------
(* The buckets of a month.                                                 *)

CountIn(R) == [r \in R |-> r.count]
PercentageIn(R) == [r \in R |-> r.percentage]

\* The counts of some buckets are summed up.
LEMMA CountIsTotal ==
  ASSUME NEW R, IsFiniteSet(R), CountIn(R) \in [R -> Int]
  PROVE  MapThenSumSet(LAMBDA b : b.count, R) = Total(CountIn(R), R)
<1> DEFINE Step(g) == [s \in SUBSET R |-> IF s = {} THEN 0 ELSE
                         (CHOOSE x \in s : TRUE).count + g[s \ {CHOOSE x \in s : TRUE}]]
           iter == CHOOSE g : g = Step(g)
<1>1. ASSUME NEW g PROVE IsSum(g, CountIn(R), R) <=> g = Step(g)
  <2>1. \A s \in SUBSET R : s # {} => (CHOOSE x \in s : TRUE) \in R
    OBVIOUS
  <2> QED BY <2>1 DEF IsSum, CountIn, Chosen, Others
<1>2. MapThenSumSet(LAMBDA b : b.count, R) = iter[R]
  BY DEF MapThenSumSet, MapThenFoldSet
<1>3. \E g : IsSum(g, CountIn(R), R)
  BY SumExists
<1> HIDE DEF Step
<1>4. iter = Step(iter)
  BY <1>1, <1>3
<1> HIDE DEF iter
<1> QED BY <1>1, <1>2, <1>4, TotalIs

\* So are their shares.
LEMMA PercentageIsTotal ==
  ASSUME NEW R, IsFiniteSet(R), PercentageIn(R) \in [R -> Int]
  PROVE  MapThenSumSet(LAMBDA b : b.percentage, R) = Total(PercentageIn(R), R)
<1> DEFINE Step(g) == [s \in SUBSET R |-> IF s = {} THEN 0 ELSE
                         (CHOOSE x \in s : TRUE).percentage
                           + g[s \ {CHOOSE x \in s : TRUE}]]
           iter == CHOOSE g : g = Step(g)
<1>1. ASSUME NEW g PROVE IsSum(g, PercentageIn(R), R) <=> g = Step(g)
  <2>1. \A s \in SUBSET R : s # {} => (CHOOSE x \in s : TRUE) \in R
    OBVIOUS
  <2> QED BY <2>1 DEF IsSum, PercentageIn, Chosen, Others
<1>2. MapThenSumSet(LAMBDA b : b.percentage, R) = iter[R]
  BY DEF MapThenSumSet, MapThenFoldSet
<1>3. \E g : IsSum(g, PercentageIn(R), R)
  BY SumExists
<1> HIDE DEF Step
<1>4. iter = Step(iter)
  BY <1>1, <1>3
<1> HIDE DEF iter
<1> QED BY <1>1, <1>2, <1>4, TotalIs

Response(F, column, P, up) == BuildResponse(GroupBy(F, column), P, AmountOf(F), up)

\* Buckets of lines are buckets.
LEMMA GroupsAreBuckets ==
  ASSUME NEW F, IsAmounts(F), NEW column PROVE IsBuckets(GroupBy(F, column))
BY GroupByIs DEF IsBuckets

\* R has one bucket for every name in the column, with the lines of that name.
Covers(R, F, column) ==
  /\ \A r \in R :
       /\ r.name \in {line[column] : line \in F}
       /\ r.amount = AmountOf(Group(F, column, r.name)) /\ r.amount \in Int
       /\ r.count = Cardinality(Group(F, column, r.name)) /\ r.count \in Nat
  /\ \A line \in F : \E r \in R : r.name = line[column]
  /\ \A r, s \in R : r.name = s.name => r = s
  /\ IsFiniteSet(R)

\* Each line is in the bucket of its name, and no bucket is empty.
LEMMA ResponseOfLines ==
  ASSUME NEW F, IsAmounts(F), NEW column, NEW P, IsBuckets(P), NEW up \in BOOLEAN
  PROVE  Covers(Response(F, column, P, up), F, column)
<1> DEFINE R == Response(F, column, P, up)
<1>0. AmountOf(F) \in Int /\ IsBuckets(GroupBy(F, column))
  BY PartsHaveAmounts, GroupsAreBuckets
<1>1. \A r \in R : \E b \in GroupBy(F, column) :
         b.name = r.name /\ b.amount = r.amount /\ b.count = r.count
  BY <1>0, BuildResponseIs DEF Response
<1>2. ASSUME NEW r \in R
      PROVE  /\ r.name \in {line[column] : line \in F}
             /\ r.amount = AmountOf(Group(F, column, r.name)) /\ r.amount \in Int
             /\ r.count = Cardinality(Group(F, column, r.name)) /\ r.count \in Nat
  <2>1. PICK b \in GroupBy(F, column) :
          b.name = r.name /\ b.amount = r.amount /\ b.count = r.count
    BY <1>1
  <2>2. /\ b.name \in {line[column] : line \in F}
        /\ b.amount = AmountOf(Group(F, column, b.name)) /\ b.amount \in Int
        /\ b.count = Cardinality(Group(F, column, b.name)) /\ b.count \in Nat
    BY GroupByIs
  <2> HIDE DEF R
  <2> QED BY <2>1, <2>2, Zenon
<1>3. \A line \in F : \E r \in R : r.name = line[column]
  BY BuildResponseAll, GroupByAll DEF Response
<1>4. \A r, s \in R : r.name = s.name => r = s
  BY BuildResponseAll, GroupByAll DEF Response
<1> HIDE DEF R
<1>5. IsFiniteSet(R)
  <2> DEFINE f == [line \in F |-> CHOOSE r \in R : r.name = line[column]]
  <2>1. f \in [F -> R]
    BY <1>3
  <2>2. \A r \in R : \E line \in F : f[line] = r
    <3> SUFFICES ASSUME NEW r \in R PROVE \E line \in F : f[line] = r
      OBVIOUS
    <3>1. PICK line \in F : line[column] = r.name
      BY <1>2
    <3>2. f[line] \in R /\ f[line].name = line[column]
      BY <1>3
    <3> QED BY <1>4, <3>1, <3>2
  <2> HIDE DEF f
  <2>3. f \in Surjection(F, R)
    BY <2>1, <2>2 DEF Surjection
  <2> QED BY <2>3, FS_Surjection DEF IsAmounts
<1>6. Covers(R, F, column)
  BY <1>2, <1>3, <1>4, <1>5 DEF Covers
<1> QED BY <1>6 DEF R

\* Amounts and counts of the buckets are those of the lines, and their shares
\* are off by half a tenth each.
LEMMA BucketsAddUp ==
  ASSUME NEW F, IsAmounts(F), NEW column, NEW P, IsBuckets(P), NEW up \in BOOLEAN
  PROVE  LET R == Response(F, column, P, up) IN
         /\ MapThenSumSet(LAMBDA b : b.amount, R) = AmountOf(F)
         /\ MapThenSumSet(LAMBDA b : b.count, R) = Cardinality(F)
         /\ AmountOf(F) # 0 =>
              2 * AbsoluteOf(MapThenSumSet(LAMBDA b : b.percentage, R) - 1000)
                <= Cardinality(R)
<1> DEFINE R == Response(F, column, P, up)
           d == AmountOf(F)
           Part == [r \in R |-> Group(F, column, r.name)]
           one == [line \in F |-> 1]
<1>0. Covers(R, F, column)
  BY ResponseOfLines
<1>2. ASSUME NEW r \in R PROVE r.percentage = Percentage(r.amount, d, up)
  <2>1. d \in Int /\ IsBuckets(GroupBy(F, column))
    BY PartsHaveAmounts, GroupsAreBuckets
  <2> QED BY <2>1, BuildResponseIs DEF Response
<1>3. d \in Int /\ IsFiniteSet(F) /\ AmountIn(F) \in [F -> Int] /\ one \in [F -> Int]
  BY PartsHaveAmounts DEF IsAmounts, AmountIn
<1> HIDE DEF R, d
<1>1. /\ \A r \in R :
           /\ r.amount = AmountOf(Group(F, column, r.name)) /\ r.amount \in Int
           /\ r.count = Cardinality(Group(F, column, r.name)) /\ r.count \in Nat
      /\ \A line \in F : \E r \in R : r.name = line[column]
      /\ \A r, s \in R : r.name = s.name => r = s
      /\ IsFiniteSet(R)
  BY <1>0 DEF Covers
<1>4. /\ Part \in [R -> SUBSET F]
      /\ \A q, r \in R : q # r => Part[q] \intersect Part[r] = {}
      /\ UNION {Part[r] : r \in R} = F
  BY <1>1 DEF Group
<1>10. ASSUME NEW f \in [F -> Int]
      PROVE  Total([r \in R |-> Total(f, Part[r])], R) = Total(f, F)
  <2>1. IsFiniteSet(F) /\ IsFiniteSet(R)
    BY <1>1, <1>3
  <2> HIDE DEF Part
  <2>2. Total([r \in R |-> Total(f, Part[r])], R) = Total(f, UNION {Part[r] : r \in R})
    BY ONLY <2>1, <1>4, f \in [F -> Int], TotalPartition
  <2> QED BY <1>4, <2>2, Zenon
<1>5. IsAmounts(R) /\ AmountOf(R) = Total(AmountIn(R), R)
  <2>1. IsAmounts(R)
    BY <1>1 DEF IsAmounts
  <2> QED BY <2>1, AmountIsTotal
<1> HIDE DEF one
<1>6. AmountOf(R) = d
  <2>1. Total([r \in R |-> Total(AmountIn(F), Part[r])], R) = Total(AmountIn(F), F)
    BY <1>3, <1>10
  <2>2. ASSUME NEW r \in R PROVE Total(AmountIn(F), Part[r]) = r.amount
    <3>1. Part[r] = Group(F, column, r.name) /\ Part[r] \in SUBSET F
      BY <1>4
    <3>2. Total(AmountIn(F), Part[r]) = AmountOf(Part[r])
      BY <3>1, AmountIsTotal
    <3> QED BY <1>1, <3>1, <3>2
  <2>3. [r \in R |-> Total(AmountIn(F), Part[r])] = AmountIn(R)
    <3> HIDE DEF Part
    <3> QED BY <2>2 DEF AmountIn
  <2>4. Total(AmountIn(F), F) = d
    BY AmountIsTotal DEF d
  <2> HIDE DEF Part
  <2> QED BY <1>5, <2>1, <2>3, <2>4
<1>7. MapThenSumSet(LAMBDA b : b.count, R) = Cardinality(F)
  <2>1. Total([r \in R |-> Total(one, Part[r])], R) = Total(one, F)
    BY <1>3, <1>10
  <2>2. ASSUME NEW r \in R PROVE Total(one, Part[r]) = r.count
    <3>1. Part[r] = Group(F, column, r.name) /\ Part[r] \in SUBSET F
      BY <1>4
    <3>2. Total(one, Part[r]) = Cardinality(Part[r])
      BY <1>3, <3>1, TotalOfOnes DEF one
    <3> QED BY <1>1, <3>1, <3>2
  <2>3. [r \in R |-> Total(one, Part[r])] = CountIn(R)
    <3> HIDE DEF Part
    <3> QED BY <2>2 DEF CountIn
  <2>4. Total(one, F) = Cardinality(F)
    BY <1>3, TotalOfOnes DEF one
  <2>5. CountIn(R) \in [R -> Int]
    BY <1>1 DEF CountIn
  <2>6. MapThenSumSet(LAMBDA b : b.count, R) = Total(CountIn(R), R)
    BY <1>1, <2>5, CountIsTotal
  <2> HIDE DEF Part
  <2> QED BY <2>1, <2>3, <2>4, <2>6
<1>8. ASSUME d # 0
      PROVE  2 * AbsoluteOf(MapThenSumSet(LAMBDA b : b.percentage, R) - 1000)
               <= Cardinality(R)
  <2> DEFINE p == PercentageIn(R)
             a == AmountIn(R)
             e == AbsoluteOf(d)
             w == [r \in R |-> (2 * d) * p[r] - 2000 * a[r]]
             t == Total(p, R)
             c == Cardinality(R)
  <2>1. ASSUME NEW r \in R
        PROVE  p[r] \in Int /\ a[r] \in Int /\ 2 * (d * p[r]) - 2000 * a[r] \in -e..e
    <3>1. p[r] = Tenths(r.amount, d, up) /\ a[r] = r.amount /\ r.amount \in Int
      BY <1>1, <1>2, <1>8 DEF Percentage, PercentageIn, AmountIn
    <3>2. \A n \in Int : /\ Tenths(n, d, up) \in Int
                         /\ 2 * (d * Tenths(n, d, up)) - 2000 * n \in -e..e
      BY <1>3, <1>8, TenthsError
    <3> QED BY <3>1, <3>2
  <2>2. e \in Nat /\ e # 0 /\ c \in Nat
    BY <1>1, <1>3, <1>8, FS_CardinalityType DEF AbsoluteOf
  <2>3. p \in [R -> Int] /\ a \in [R -> Int]
    <3>1. p = [r \in R |-> p[r]] /\ a = [r \in R |-> a[r]]
      BY DEF PercentageIn, AmountIn
    <3> HIDE DEF p, a
    <3> QED BY <2>1, <3>1
  <2>4. t \in Int
    BY <1>1, <2>3, TotalStep
  <2> HIDE DEF p, a, e, c, t
  <2>5. w \in [R -> -e..e]
    <3>1. ASSUME NEW r \in R PROVE (2 * d) * p[r] = 2 * (d * p[r])
      BY <1>3, <2>1
    <3> QED BY <2>1, <3>1
  <2>6. Total(w, R) = (2 * d) * t - 2000 * Total(a, R)
    BY <1>1, <1>3, <2>3, TotalLinear DEF t
  <2> HIDE DEF w
  <2>7. Total(w, R) <= e * c /\ -(e * c) <= Total(w, R)
    BY <1>1, <2>2, <2>5, TotalBound DEF c
  <2>8. Total(a, R) = d
    BY <1>5, <1>6 DEF a
  <2>9. (2 * d) * t - 2000 * d = d * (2 * t - 2000)
    BY ONLY <1>3, <2>4
  <2>10. d * (2 * t - 2000) <= e * c /\ -(e * c) <= d * (2 * t - 2000)
    BY ONLY <2>6, <2>7, <2>8, <2>9
  <2>11. 2 * t - 2000 <= c /\ -c <= 2 * t - 2000
    <3> DEFINE x == 2 * t - 2000
    <3>1. x \in Int
      BY <2>4
    <3>2. d * x <= e * c /\ -(e * c) <= d * x
      BY <2>10
    <3>3. d * x = e * x \/ d * x = -(e * x)
      <4>1. e = d \/ e = -d
        BY <1>3 DEF e, AbsoluteOf
      <4> HIDE DEF x
      <4> QED BY ONLY <1>3, <2>2, <3>1, <4>1
    <3> HIDE DEF x
    <3>4. e * x <= e * c /\ -(e * c) <= e * x
      <4>1. e * x \in Int /\ e * c \in Int
        BY ONLY <2>2, <3>1
      <4> QED BY ONLY <3>2, <3>3, <4>1
    <3>5. x <= c
      <4> SUFFICES ASSUME x >= c + 1 PROVE FALSE
        BY <2>2, <3>1
      <4>1. e * x >= e * (c + 1)
        BY ONLY <2>2, <3>1, x >= c + 1
      <4> QED BY ONLY <2>2, <3>1, <3>4, <4>1
    <3>6. -c <= x
      <4> SUFFICES ASSUME x <= -c - 1 PROVE FALSE
        BY <2>2, <3>1
      <4>1. e * x <= e * (-c - 1)
        BY ONLY <2>2, <3>1, x <= -c - 1
      <4>2. e * (-c - 1) = -(e * c) - e
        BY ONLY <2>2
      <4> QED BY ONLY <2>2, <3>1, <3>4, <4>1, <4>2
    <3> QED BY <3>5, <3>6 DEF x
  <2>12. MapThenSumSet(LAMBDA b : b.percentage, R) = t
    BY <1>1, <2>3, PercentageIsTotal DEF p, t
  <2> QED BY <2>2, <2>4, <2>11, <2>12 DEF AbsoluteOf, c
<1>9. MapThenSumSet(LAMBDA b : b.amount, R) = AmountOf(R)
  BY DEF AmountOf
<1> QED BY <1>6, <1>7, <1>8, <1>9 DEF R, d

-----------------------------------------------------------------------------
(* The figures of a month.                                                 *)

InMonth(L, m) == {line \in L : line.date.year = m.year /\ line.date.month = m.month}

AreLines(L) == IsAmounts(L) /\ \A line \in L : IsDate(line.date)

\* What findMonthlyAggregate reads for a month are the lines of that month.
LEMMA AggregateIs ==
  ASSUME NEW L, AreLines(L), NEW m \in CalendarMonths
  PROVE  FindMonthlyAggregate(L, GetMonthlyAnalyticsRanges(m).current)
           = [totalAmount |-> AmountOf(InMonth(L, m)),
              transactionCount |-> Cardinality(InMonth(L, m)),
              categories |-> GroupBy(InMonth(L, m), "category"),
              merchants |-> GroupBy(InMonth(L, m), "merchant")]
<1> DEFINE range == GetMonthlyAnalyticsRanges(m).current
           found == {line \in L : InRange(line.date, range)}
<1>1. found = InMonth(L, m)
  <2>1. ASSUME NEW line \in L
        PROVE  InRange(line.date, range) <=> line.date.year = m.year /\ line.date.month = m.month
    BY CurrentIsMonth DEF AreLines
  <2> HIDE DEF range
  <2> QED BY <2>1 DEF InMonth
<1>2. FindMonthlyAggregate(L, range)
        = [totalAmount |-> AmountOf(found), transactionCount |-> Cardinality(found),
           categories |-> GroupBy(found, "category"), merchants |-> GroupBy(found, "merchant")]
  BY DEF FindMonthlyAggregate
<1> HIDE DEF found
<1> QED BY <1>1, <1>2

\* a are figures of the lines of a month and of the month before.
AreFigures(a, L, m, up) ==
  LET now == InMonth(L, m)
      before == InMonth(L, ShiftMonth(m, -1))
  IN  /\ a.month = m
      /\ a.totalAmount = AmountOf(now)
      /\ a.transactionCount = Cardinality(now)
      /\ a.categories = Response(now, "category", GroupBy(before, "category"), up)
      /\ a.merchants = Response(now, "merchant", GroupBy(before, "merchant"), up)
      /\ a.previousMonth =
           IF Cardinality(before) = 0 THEN Null
           ELSE [totalAmount |-> AmountOf(before),
                 transactionCount |-> Cardinality(before),
                 amountChangePercentage |->
                   ChangePercentage(AmountOf(now), AmountOf(before), up),
                 transactionCountChangePercentage |->
                   ChangePercentage(Cardinality(now), Cardinality(before), up)]

\* A month is answered with the figures of its lines and of the month before.
LEMMA FiguresAre ==
  ASSUME NEW L, AreLines(L), NEW m \in CalendarMonths, NEW up
  PROVE  AreFigures(MonthlyAnalyticsOf(L, m, up), L, m, up)
<1> DEFINE now == InMonth(L, m)
           before == InMonth(L, ShiftMonth(m, -1))
           cur == FindMonthlyAggregate(L, GetMonthlyAnalyticsRanges(m).current)
           pre == FindMonthlyAggregate(L, GetMonthlyAnalyticsRanges(m).previous)
<1>1. cur = [totalAmount |-> AmountOf(now), transactionCount |-> Cardinality(now),
             categories |-> GroupBy(now, "category"), merchants |-> GroupBy(now, "merchant")]
  BY AggregateIs
<1>2. pre = [totalAmount |-> AmountOf(before), transactionCount |-> Cardinality(before),
             categories |-> GroupBy(before, "category"),
             merchants |-> GroupBy(before, "merchant")]
  <2>1. ShiftMonth(m, -1) \in CalendarMonths
    BY ShiftBack
  <2> QED BY <2>1, AggregateIs, PreviousIsCurrent
<1>3. MonthlyAnalyticsOf(L, m, up) = BuildMonthlyAnalytics(m, cur, pre, up)
  BY DEF MonthlyAnalyticsOf
<1> HIDE DEF now, before, cur, pre
<1> USE DEF BuildMonthlyAnalytics
<1>4. /\ BuildMonthlyAnalytics(m, cur, pre, up).categories
           = BuildResponse(GroupBy(now, "category"), GroupBy(before, "category"),
                           AmountOf(now), up)
      /\ BuildMonthlyAnalytics(m, cur, pre, up).merchants
           = BuildResponse(GroupBy(now, "merchant"), GroupBy(before, "merchant"),
                           AmountOf(now), up)
  BY <1>1, <1>2
<1>5. /\ BuildMonthlyAnalytics(m, cur, pre, up).month = m
      /\ BuildMonthlyAnalytics(m, cur, pre, up).totalAmount = AmountOf(now)
      /\ BuildMonthlyAnalytics(m, cur, pre, up).transactionCount = Cardinality(now)
  BY <1>1
<1>6. BuildMonthlyAnalytics(m, cur, pre, up).previousMonth =
        IF Cardinality(before) = 0 THEN Null
        ELSE [totalAmount |-> AmountOf(before),
              transactionCount |-> Cardinality(before),
              amountChangePercentage |->
                ChangePercentage(AmountOf(now), AmountOf(before), up),
              transactionCountChangePercentage |->
                ChangePercentage(Cardinality(now), Cardinality(before), up)]
  BY <1>1, <1>2 DEF PreviousMonth
<1> QED BY <1>3, <1>4, <1>5, <1>6 DEF AreFigures, Response, now, before

\* The lines of a month are some of the lines.
LEMMA MonthHasAmounts ==
  ASSUME NEW L, AreLines(L), NEW m
  PROVE  /\ IsAmounts(InMonth(L, m)) /\ AmountOf(InMonth(L, m)) \in Int
         /\ IsFiniteSet(InMonth(L, m)) /\ Cardinality(InMonth(L, m)) \in Nat
         /\ IsBuckets(GroupBy(InMonth(L, m), "category"))
         /\ IsBuckets(GroupBy(InMonth(L, m), "merchant"))
<1>1. InMonth(L, m) \in SUBSET L
  BY DEF InMonth
<1> QED BY <1>1, PartsHaveAmounts, GroupsAreBuckets DEF AreLines

-----------------------------------------------------------------------------
(* What is stored.                                                         *)

\* A row can be summed up, and has the names of a bucket.
IsRow(line) ==
  /\ IsDate(line.date)
  /\ line.amount \in Int
  /\ {line.category, line.merchant} \subseteq BucketNames \ {Absent}
  /\ line.subcategory \in SubcategoriesOf[line.category] \union {NoSubcategory}

\* The rows of a statement, by line number.
AreRows(rows) ==
  /\ rows # <<>>
  /\ IsFiniteSet(DOMAIN rows)
  /\ \A n \in DOMAIN rows :
       /\ IsRow(rows[n])
       /\ n \in 1..MaxTransactions /\ rows[n].lineNumber = n

\* The rows are the lines of a document, each line one row.
HasLines(rows, document) ==
  /\ Cardinality(DOMAIN rows) = Len(document)
  /\ \A i \in DOMAIN document : \E n \in DOMAIN rows : rows[n] = document[i]

\* A date that is its own DateUtc is one of the calendar.
LEMMA ValidDateExists ==
  ASSUME NEW d, d.year \in FourDigits, d.month \in 1..12, d.day \in 1..31,
         IsValidCalendarDate(d)
  PROVE  IsDate(d) /\ d.year >= 1 /\ d.day \in 1..DaysIn(d.year, d.month)
<1> DEFINE y == IF d.year \in 0..99 THEN 1900 + d.year ELSE d.year
           n == DaysIn(y, d.month)
<1>0. d.year \in Nat
  <2>1. FourDigits \subseteq Nat
    BY DEF FourDigits
  <2> QED BY <2>1
<1>1. n \in Int
  BY DEF DaysIn
<1>2. d = IF d.day <= n THEN [year |-> y, month |-> d.month, day |-> d.day]
          ELSE [year |-> y, month |-> d.month + 1, day |-> d.day - n]
  BY DEF IsValidCalendarDate, DateUtc
<1> HIDE DEF n
<1>3. d.year = y /\ d.day <= n
  BY <1>1, <1>2
<1>4. d.year \notin 0..99 /\ d.year >= 1
  BY <1>0, <1>3
<1>5. n = DaysIn(d.year, d.month)
  BY <1>4 DEF n
<1> QED BY <1>0, <1>1, <1>3, <1>4, <1>5 DEF IsDate

\* A sequence of lines that can be summed up, whose numbers are valid and differ.
AreAccepted(document) ==
  /\ Len(document) \in Nat \ {0} /\ DOMAIN document = 1..Len(document)
  /\ \A i \in DOMAIN document :
       IsRow(document[i]) /\ document[i].lineNumber \in 1..MaxTransactions
  /\ \A i, j \in DOMAIN document :
       document[i].lineNumber = document[j].lineNumber => i = j

HasUnstorable(document) ==
  \E i \in DOMAIN document : document[i].merchant \in UnstorableNames

\* What passes the schemas can be summed up, its numbers differ, and only a
\* merchant keeps it from being inserted.
LEMMA ParsedIsAccepted ==
  ASSUME NEW document \in Documents, ParseOcrToolInput(document) # Rejected
  PROVE  /\ AreAccepted(ParseOcrToolInput(document))
         /\ Insertable(ParseOcrToolInput(document))
              \/ HasUnstorable(ParseOcrToolInput(document))
<1> DEFINE r == WithoutNashi(document)
<1>1. /\ r = ParseOcrToolInput(document)
      /\ OcrToolInputSchema(document) /\ OcrResultSchema(r)
  BY DEF ParseOcrToolInput
<1>2. IsAnswer(document)
  BY <1>1, FiguresAssumption DEF OcrToolInputSchema
<1>3. /\ DOMAIN r = DOMAIN document
      /\ DOMAIN document = 1..Len(document) /\ Len(document) \in Nat
      /\ Len(r) = Len(document)
  BY <1>2 DEF IsAnswer, WithoutNashi
<1>4. ASSUME NEW i \in DOMAIN document
      PROVE  /\ r[i].merchant = document[i].merchant /\ r[i].category = document[i].category
  BY <1>2 DEF IsAnswer, WithoutNashi, OcrFields
<1> HIDE DEF r
<1>5. ASSUME NEW i \in DOMAIN r
      PROVE  /\ IsRow(r[i]) /\ r[i].date.year >= 1
             /\ r[i].date.day \in 1..DaysIn(r[i].date.year, r[i].date.month)
             /\ r[i].lineNumber > 0 /\ r[i].amount # 0
             /\ r[i].lineNumber \in 1..MaxTransactions
  <2>1. /\ ValidBase(r[i])
        /\ r[i].subcategory \in SubcategoriesOf[r[i].category] \union {NoSubcategory}
    BY <1>1 DEF OcrResultSchema
  <2>2. /\ IsDate(r[i].date) /\ r[i].date.year >= 1
        /\ r[i].date.day \in 1..DaysIn(r[i].date.year, r[i].date.month)
    BY <2>1, ValidDateExists DEF ValidBase
  <2>3. /\ r[i].amount \in Int /\ r[i].amount # 0
        /\ r[i].lineNumber > 0 /\ r[i].lineNumber \in 1..MaxTransactions
        /\ r[i].category \in DOMAIN SubcategoriesOf
    BY <2>1, OcrAssumption DEF ValidBase
  <2>4. Absent \notin {r[i].merchant, r[i].category}
    BY <1>2, <1>3, <1>4 DEF IsAnswer
  <2>5. r[i].merchant \in BucketNames
    BY <1>1, <1>3, <1>4 DEF BucketNames, OcrToolInputSchema
  <2>6. r[i].category \in BucketNames
    BY <2>3 DEF BucketNames
  <2> QED BY <2>1, <2>2, <2>3, <2>4, <2>5, <2>6 DEF IsRow
<1>6. Len(r) # 0
  BY <1>1 DEF OcrResultSchema, ValidLength
<1>7. \A i, j \in DOMAIN r : r[i].lineNumber = r[j].lineNumber => i = j
  BY <1>1 DEF OcrResultSchema, ValidLineNumbers
<1>8. AreAccepted(r)
  BY <1>3, <1>5, <1>6, <1>7 DEF AreAccepted
<1>9. Insertable(r) \/ HasUnstorable(r)
  BY <1>5 DEF Insertable, HasUnstorable
<1> QED BY <1>1, <1>8, <1>9

\* Lines whose numbers differ are upserted to a row each.
LEMMA UpsertsAreRows ==
  ASSUME NEW document, AreAccepted(document)
  PROVE  AreRows(Upserted(document)) /\ HasLines(Upserted(document), document)
<1> DEFINE rows == Upserted(document)
           numbers == {document[i].lineNumber : i \in DOMAIN document}
           number == [i \in DOMAIN document |-> document[i].lineNumber]
<1>1. DOMAIN rows = numbers
  BY DEF Upserted
<1>2. ASSUME NEW i \in DOMAIN document PROVE rows[document[i].lineNumber] = document[i]
  <2> DEFINE same == {j \in DOMAIN document : document[j].lineNumber = document[i].lineNumber}
  <2>1. same = {i} /\ i \in Int
    BY DEF AreAccepted
  <2> HIDE DEF same
  <2>2. Max(same) = i
    BY <2>1 DEF Max
  <2> QED BY <2>2 DEF Upserted, same
<1> HIDE DEF rows
<1>3. \A n \in numbers : \E i \in DOMAIN document :
        n = document[i].lineNumber /\ rows[n] = document[i]
  BY <1>2
<1>4. \A n \in DOMAIN rows :
        /\ IsRow(rows[n])
        /\ n \in 1..MaxTransactions /\ rows[n].lineNumber = n
  BY <1>1, <1>3 DEF AreAccepted
<1>5. IsFiniteSet(numbers) /\ Cardinality(numbers) = Len(document)
  <2>1. number \in Bijection(1..Len(document), numbers)
    <3>1. DOMAIN document = 1..Len(document)
      BY DEF AreAccepted
    <3>2. number \in [1..Len(document) -> numbers]
      BY <3>1
    <3>3. \A i, j \in 1..Len(document) : number[i] = number[j] => i = j
      BY <3>1 DEF AreAccepted
    <3>4. \A n \in numbers : \E i \in 1..Len(document) : number[i] = n
      BY <3>1
    <3> HIDE DEF number, numbers
    <3> QED BY <3>2, <3>3, <3>4 DEF Bijection, Injection, Surjection, IsInjective
  <2>2. /\ IsFiniteSet(1..Len(document)) /\ Cardinality(1..Len(document)) = Len(document)
    <3> DEFINE k == Len(document)
    <3>1. k \in Nat
      BY DEF AreAccepted
    <3> HIDE DEF k
    <3>2. IsFiniteSet(1..k) /\ Cardinality(1..k) = k
      BY <3>1, FS_Interval
    <3> QED BY <3>2 DEF k
  <2> HIDE DEF number, numbers
  <2> QED BY <2>1, <2>2, FS_Bijection DEF ExistsBijection
<1>6. rows # <<>>
  <2>1. 1 \in DOMAIN document
    BY DEF AreAccepted
  <2>2. document[1].lineNumber \in DOMAIN rows
    BY <1>1, <2>1
  <2>3. \A n : n \notin DOMAIN <<>>
    OBVIOUS
  <2> QED BY <2>2, <2>3
<1>7. \A i \in DOMAIN document : \E n \in DOMAIN rows : rows[n] = document[i]
  BY <1>1, <1>2
<1> HIDE DEF numbers
<1> QED BY <1>1, <1>4, <1>5, <1>6, <1>7 DEF AreRows, HasLines, rows

\* The variables are functions, whose rows and insights were validated.
StoredInv ==
  /\ TypeOK
  /\ NoLineIsLost
  /\ OnlyNulIsRefused
  /\ lines = [s \in Statements |-> lines[s]]
  /\ answer = [s \in Statements |-> answer[s]]
  /\ \A s \in Statements : lines[s] # <<>> => AreRows(lines[s])
  /\ cache = [m \in InsightMonths |-> cache[m]]
  /\ \A m \in InsightMonths :
       cache[m] # NoInsights => Acceptable(cache[m].insights, cache[m].fingerprint)
  /\ reply # NoInsights =>
       /\ reply.month \in InsightMonths
       /\ Acceptable(reply.insights, InputOf(reply.month))

\* The lines of completed statements are lines of the figures.
LEMMA CompletedAreLines ==
  ASSUME StoredInv
  PROVE  /\ AreLines(Completed)
         /\ \A line \in Completed :
              {line.category, line.merchant} \subseteq BucketNames \ {Absent}
<1> DEFINE done == {s \in Statements : status[s] = "COMPLETED"}
           RowOf(s, i) ==
             [statement |-> s, date |-> lines[s][i].date, category |-> lines[s][i].category,
              merchant |-> lines[s][i].merchant, amount |-> lines[s][i].amount,
              lineNumber |-> lines[s][i].lineNumber]
           RowsOf(s) == {RowOf(s, i) : i \in DOMAIN lines[s]}
<1>1. Completed = UNION {RowsOf(s) : s \in done}
  BY Zenon DEF Completed
<1>2. ASSUME NEW s \in done
      PROVE  IsFiniteSet(DOMAIN lines[s]) /\ \A i \in DOMAIN lines[s] : IsRow(lines[s][i])
  BY DEF StoredInv, TypeOK, AreRows
<1>3. \A s, i : /\ RowOf(s, i).date = lines[s][i].date
                /\ RowOf(s, i).amount = lines[s][i].amount
                /\ RowOf(s, i).category = lines[s][i].category
                /\ RowOf(s, i).merchant = lines[s][i].merchant
  OBVIOUS
<1> HIDE DEF RowOf
<1>4. \A line \in Completed :
        /\ line.amount \in Int /\ IsDate(line.date)
        /\ {line.category, line.merchant} \subseteq BucketNames \ {Absent}
  BY <1>1, <1>2, <1>3 DEF IsRow
<1>5. ASSUME NEW s \in done PROVE IsFiniteSet(RowsOf(s))
  <2> DEFINE f == [i \in DOMAIN lines[s] |-> RowOf(s, i)]
  <2>1. f \in Surjection(DOMAIN lines[s], RowsOf(s))
    BY DEF Surjection
  <2> HIDE DEF f
  <2> QED BY <1>2, <2>1, FS_Surjection
<1>6. IsFiniteSet({RowsOf(s) : s \in done})
  <2> DEFINE f == [s \in done |-> RowsOf(s)]
  <2>1. f \in Surjection(done, {RowsOf(s) : s \in done})
    BY DEF Surjection
  <2>2. IsFiniteSet(done)
    BY FiguresAssumption, FS_Subset
  <2> HIDE DEF f
  <2> QED BY <2>1, <2>2, FS_Surjection
<1>7. IsFiniteSet(Completed)
  <2> DEFINE all == {RowsOf(s) : s \in done}
  <2>1. \A T \in all : IsFiniteSet(T)
    BY <1>5
  <2>2. IsFiniteSet(all)
    BY <1>6
  <2> HIDE DEF all
  <2>3. IsFiniteSet(UNION all)
    BY <2>1, <2>2, FS_UNION
  <2> QED BY <1>1, <2>3 DEF all
<1> QED BY <1>4, <1>7 DEF AreLines, IsAmounts

HaveNames(L) == \A line \in L : {line.category, line.merchant} \subseteq BucketNames

\* The buckets of the answer have the type of buckets.
LEMMA ResponseType ==
  ASSUME NEW F, IsAmounts(F), HaveNames(F), NEW column \in Columns, NEW P, IsBuckets(P),
         NEW up \in BOOLEAN
  PROVE  Response(F, column, P, up) \subseteq Buckets
<1> SUFFICES ASSUME NEW r \in Response(F, column, P, up) PROVE r \in Buckets
  OBVIOUS
<1>1. /\ r.name \in {line[column] : line \in F}
      /\ r.amount \in Int /\ r.count \in Nat
  <2>1. Covers(Response(F, column, P, up), F, column)
    BY ResponseOfLines
  <2> QED BY <2>1 DEF Covers
<1>2. r.name \in BucketNames
  BY <1>1 DEF HaveNames, Columns
<1>3. AmountOf(F) \in Int /\ IsBuckets(GroupBy(F, column))
  BY PartsHaveAmounts, GroupsAreBuckets
<1>4. /\ r.percentage = Percentage(r.amount, AmountOf(F), up)
      /\ \/ r.previousAmount = Null /\ r.amountChangePercentage = Null
         \/ \E p \in P :
              /\ r.previousAmount = p.amount
              /\ r.amountChangePercentage = ChangePercentage(r.amount, p.amount, up)
      /\ r = [name |-> r.name, amount |-> r.amount, count |-> r.count,
              percentage |-> r.percentage, previousAmount |-> r.previousAmount,
              amountChangePercentage |-> r.amountChangePercentage]
  BY <1>3, BuildResponseIs DEF Response
<1>5. r.percentage \in Int \union {Null}
  BY <1>1, <1>3, <1>4, PercentageType
<1>6. r.previousAmount \in Int \union {Null} /\ r.amountChangePercentage \in Int \union {Null}
  BY <1>1, <1>4, PercentageType DEF IsBuckets
<1> QED BY <1>1, <1>2, <1>4, <1>5, <1>6 DEF Buckets

\* What the fingerprint is taken of has the type of an input.
LEMMA InputType ==
  ASSUME NEW L, AreLines(L), HaveNames(L), NEW m \in InsightMonths, NEW up \in BOOLEAN
  PROVE  CreateCompactInsightsInput(MonthlyAnalyticsOf(L, m, up)) \in CompactInputs
<1> DEFINE now == InMonth(L, m)
           before == InMonth(L, ShiftMonth(m, -1))
           a == MonthlyAnalyticsOf(L, m, up)
           input == CreateCompactInsightsInput(a)
<1>1. m \in CalendarMonths
  BY FiguresAssumption DEF CalendarMonths
<1>2. /\ a.month = m
      /\ a.totalAmount = AmountOf(now) /\ a.transactionCount = Cardinality(now)
      /\ a.categories = Response(now, "category", GroupBy(before, "category"), up)
      /\ a.merchants = Response(now, "merchant", GroupBy(before, "merchant"), up)
      /\ a.previousMonth =
           IF Cardinality(before) = 0 THEN Null
           ELSE [totalAmount |-> AmountOf(before),
                 transactionCount |-> Cardinality(before),
                 amountChangePercentage |->
                   ChangePercentage(AmountOf(now), AmountOf(before), up),
                 transactionCountChangePercentage |->
                   ChangePercentage(Cardinality(now), Cardinality(before), up)]
  <2>1. AreFigures(MonthlyAnalyticsOf(L, m, up), L, m, up)
    BY <1>1, FiguresAre
  <2> QED BY <2>1 DEF AreFigures
<1>3. /\ IsAmounts(now) /\ AmountOf(now) \in Int /\ Cardinality(now) \in Nat
      /\ AmountOf(before) \in Int /\ Cardinality(before) \in Nat
      /\ IsBuckets(GroupBy(before, "category")) /\ IsBuckets(GroupBy(before, "merchant"))
  BY MonthHasAmounts
<1>4. HaveNames(now)
  BY DEF HaveNames, InMonth
<1> HIDE DEF now, before, a
<1>5. a.categories \subseteq Buckets /\ a.merchants \subseteq Buckets
  BY <1>2, <1>3, <1>4, ResponseType DEF Columns
<1>6. input = [month |-> a.month,
               current |-> [totalAmount |-> a.totalAmount,
                            transactionCount |-> a.transactionCount,
                            categories |-> a.categories, merchants |-> a.merchants],
               previous |->
                 IF a.previousMonth = Null THEN Null
                 ELSE [totalAmount |-> a.previousMonth.totalAmount,
                       transactionCount |-> a.previousMonth.transactionCount]]
  BY DEF CreateCompactInsightsInput
<1>7. input.previous \in [totalAmount : Int, transactionCount : Nat] \union {Null}
  <2>1. CASE a.previousMonth = Null
    BY <1>6, <2>1
  <2>2. CASE a.previousMonth # Null
    <3>1. /\ a.previousMonth.totalAmount = AmountOf(before)
          /\ a.previousMonth.transactionCount = Cardinality(before)
      BY <1>2, <2>2
    <3> QED BY <1>3, <1>6, <2>2, <3>1
  <2> QED BY <2>1, <2>2
<1> QED BY <1>2, <1>3, <1>5, <1>6, <1>7 DEF CompactInputs, a

\* The figures change with the statements and their lines only.
LEMMA InputStays ==
  ASSUME NEW m, UNCHANGED <<status, lines, tieUp>>
  PROVE  InputOf(m)' = InputOf(m)
<1>1. Completed' = Completed
  BY DEF Completed
<1> QED BY <1>1 DEF InputOf, AnalyticsOf

-----------------------------------------------------------------------------
(* The steps.                                                              *)

\* Nothing is stored at the start.
LEMMA InitStored == Init => StoredInv
BY OcrAssumption DEF Init, StoredInv, TypeOK, NoLineIsLost, OnlyNulIsRefused

\* A job stores what passed the schemas, or nothing.
LEMMA JobStores ==
  ASSUME StoredInv, NEW s \in Statements, NEW document \in Documents,
         RejectDocument(s, document) \/ SaveTransactionsAndComplete(s, document)
  PROVE  StoredInv'
<1> DEFINE r == ParseOcrToolInput(document)
<1>1. CASE RejectDocument(s, document)
  <2>1. /\ status' = [status EXCEPT ![s] = "FAILED"]
        /\ answer' = [answer EXCEPT ![s] = <<>>]
        /\ status[s] # "COMPLETED"
        /\ reply' = NoInsights /\ UNCHANGED <<lines, cache, tieUp>>
    BY <1>1 DEF RejectDocument, InWork
  <2>2. /\ answer' = [q \in Statements |-> answer'[q]]
        /\ \A q \in Statements : q # s => answer'[q] = answer[q] /\ status'[q] = status[q]
        /\ status'[s] = "FAILED"
    BY <2>1 DEF StoredInv, TypeOK
  <2>3. TypeOK'
    BY <2>1, <2>2 DEF StoredInv, TypeOK
  <2>4. NoLineIsLost' /\ OnlyNulIsRefused'
    <3>1. lines' = lines
      BY <2>1
    <3>2. \A q \in Statements :
            status'[q] \in {"COMPLETED", "REFUSED"} =>
              status'[q] = status[q] /\ answer'[q] = answer[q]
      BY <2>2
    <3> QED BY <3>1, <3>2 DEF StoredInv, NoLineIsLost, OnlyNulIsRefused
  <2> QED BY <2>1, <2>2, <2>3, <2>4 DEF StoredInv
<1>2. CASE SaveTransactionsAndComplete(s, document) /\ Insertable(r)
  <2> DEFINE rows == Upserted(r)
  <2>1. AreRows(rows) /\ HasLines(rows, r)
    BY <1>2, ParsedIsAccepted, UpsertsAreRows DEF SaveTransactionsAndComplete
  <2>2. /\ status' = [status EXCEPT ![s] = "COMPLETED"]
        /\ answer' = [answer EXCEPT ![s] = r]
        /\ lines' = [lines EXCEPT ![s] = rows]
        /\ reply' = NoInsights /\ UNCHANGED <<cache, tieUp>>
    BY <1>2 DEF SaveTransactionsAndComplete
  <2> HIDE DEF r, rows
  <2>3. /\ lines' = [q \in Statements |-> lines'[q]]
        /\ answer' = [q \in Statements |-> answer'[q]]
        /\ \A q \in Statements : lines'[q] = IF q = s THEN rows ELSE lines[q]
        /\ \A q \in Statements : answer'[q] = IF q = s THEN r ELSE answer[q]
        /\ \A q \in Statements : status'[q] = IF q = s THEN "COMPLETED" ELSE status[q]
    BY <2>2 DEF StoredInv, TypeOK
  <2>4. \A q \in Statements : lines'[q] # <<>> => AreRows(lines'[q])
    BY <2>1, <2>3 DEF StoredInv
  <2>5. rows # <<>>
        /\ \A n \in DOMAIN rows :
             /\ n \in 1..MaxTransactions /\ rows[n].lineNumber = n
             /\ rows[n].subcategory \in
                  SubcategoriesOf[rows[n].category] \union {NoSubcategory}
    BY <2>1 DEF AreRows, IsRow
  <2>6. TypeOK'
    BY <2>2, <2>3, <2>5 DEF StoredInv, TypeOK
  <2>7. NoLineIsLost' /\ OnlyNulIsRefused'
    BY <2>1, <2>3 DEF StoredInv, NoLineIsLost, OnlyNulIsRefused, HasLines
  <2> QED BY <2>2, <2>3, <2>4, <2>6, <2>7 DEF StoredInv
<1>3. CASE SaveTransactionsAndComplete(s, document) /\ ~ Insertable(r)
  <2>1. HasUnstorable(r)
    BY <1>3, ParsedIsAccepted DEF SaveTransactionsAndComplete
  <2>2. /\ status' = [status EXCEPT ![s] = "REFUSED"]
        /\ answer' = [answer EXCEPT ![s] = r]
        /\ status[s] # "COMPLETED"
        /\ reply' = NoInsights /\ UNCHANGED <<lines, cache, tieUp>>
    BY <1>3 DEF SaveTransactionsAndComplete, InWork
  <2> HIDE DEF r
  <2>3. /\ answer' = [q \in Statements |-> answer'[q]]
        /\ \A q \in Statements : q # s => answer'[q] = answer[q] /\ status'[q] = status[q]
        /\ status'[s] = "REFUSED" /\ answer'[s] = r
    BY <2>2 DEF StoredInv, TypeOK
  <2>4. TypeOK'
    BY <2>2, <2>3 DEF StoredInv, TypeOK
  <2>5. NoLineIsLost' /\ OnlyNulIsRefused'
    <3>1. lines' = lines
      BY <2>2
    <3>2. NoLineIsLost'
      BY <2>3, <3>1 DEF StoredInv, NoLineIsLost
    <3>3. OnlyNulIsRefused'
      BY <2>1, <2>3, <3>1 DEF StoredInv, OnlyNulIsRefused, HasUnstorable
    <3> QED BY <3>2, <3>3
  <2> QED BY <2>2, <2>3, <2>4, <2>5 DEF StoredInv
<1> QED BY <1>1, <1>2, <1>3

\* A request for insights caches and answers what was validated.
LEMMA RequestStores ==
  ASSUME StoredInv, NEW month \in InsightMonths,
         \/ AnswerFromCache(month)
         \/ \E document \in InsightsDocuments :
              Generate(month, document) \/ RejectInsights(month, document)
  PROVE  StoredInv'
<1> USE DEF StoredInv
<1>1. UNCHANGED <<status, answer, lines, tieUp>>
  BY DEF AnswerFromCache, Generate, RejectInsights
<1>2. \A m : InputOf(m)' = InputOf(m)
  BY <1>1, InputStays
<1>3. /\ NoLineIsLost' /\ OnlyNulIsRefused'
      /\ lines' = [s \in Statements |-> lines'[s]]
      /\ answer' = [s \in Statements |-> answer'[s]]
      /\ \A s \in Statements : lines'[s] # <<>> => AreRows(lines'[s])
  BY <1>1 DEF NoLineIsLost, OnlyNulIsRefused
<1>4. CASE AnswerFromCache(month)
  <2>1. /\ UNCHANGED cache /\ cache[month] # NoInsights
        /\ reply'.month = month /\ reply'.insights = cache[month].insights
        /\ Acceptable(cache[month].insights, InputOf(month))
    BY <1>4 DEF AnswerFromCache, Found
  <2>2. TypeOK'
    BY <1>1, <2>1 DEF TypeOK
  <2> QED BY <1>2, <1>3, <2>1, <2>2
<1>5. ASSUME NEW document \in InsightsDocuments, Generate(month, document)
      PROVE  StoredInv'
  <2> DEFINE row == [fingerprint |-> InputOf(month), insights |-> document]
  <2>1. /\ cache' = [cache EXCEPT ![month] = row]
        /\ reply'.month = month /\ reply'.insights = document
        /\ Acceptable(document, InputOf(month))
    BY <1>5 DEF Generate, GetAnalyticsFingerprint
  <2>2. row # NoInsights
    <3>1. AreLines(Completed) /\ HaveNames(Completed)
      BY CompletedAreLines DEF HaveNames
    <3>2. tieUp \in BOOLEAN
      BY DEF TypeOK
    <3>3. InputOf(month) \in CompactInputs
      BY <3>1, <3>2, InputType DEF InputOf, AnalyticsOf
    <3> QED BY <3>3, FiguresAssumption DEF CachedRows
  <2>3. row.fingerprint = InputOf(month) /\ row.insights = document
    OBVIOUS
  <2> HIDE DEF row
  <2>4. /\ cache' = [m \in InsightMonths |-> cache'[m]]
        /\ \A m \in InsightMonths : cache'[m] = IF m = month THEN row ELSE cache[m]
    BY <2>1
  <2>5. TypeOK'
    BY <1>1, <2>1, <2>2, <2>3, <2>4 DEF TypeOK
  <2> QED BY <1>2, <1>3, <2>1, <2>3, <2>4, <2>5
<1>6. ASSUME NEW document \in InsightsDocuments, RejectInsights(month, document)
      PROVE  StoredInv'
  <2>1. UNCHANGED cache /\ reply' = NoInsights
    BY <1>6 DEF RejectInsights
  <2> QED BY <1>1, <1>3, <2>1 DEF TypeOK
<1> QED BY <1>4, <1>5, <1>6

\* The invariant.
LEMMA StoredIsValid == Spec => []StoredInv
<1>1. ASSUME StoredInv, [Next]_vars PROVE StoredInv'
  <2>1. CASE UNCHANGED vars
    <3>1. \A m : InputOf(m)' = InputOf(m)
      BY <2>1, InputStays DEF vars
    <3> QED BY <1>1, <2>1, <3>1 DEF vars, StoredInv, TypeOK, NoLineIsLost, OnlyNulIsRefused
  <2>2. CASE Next
    BY <1>1, <2>2, JobStores, RequestStores DEF Next
  <2> QED BY <1>1, <2>1, <2>2
<1> QED BY <1>1, InitStored, PTL DEF Spec

-----------------------------------------------------------------------------
(* The months.                                                             *)

MonthAmounts(L, M) ==
  [m \in M |-> FindMonthlyAggregate(L, GetMonthlyAnalyticsRanges(m).current).totalAmount]

\* The totals of the months are summed up.
LEMMA MonthAmountIsTotal ==
  ASSUME NEW L, NEW M, IsFiniteSet(M), MonthAmounts(L, M) \in [M -> Int]
  PROVE  MapThenSumSet(LAMBDA m :
           FindMonthlyAggregate(L, GetMonthlyAnalyticsRanges(m).current).totalAmount, M)
           = Total(MonthAmounts(L, M), M)
<1> DEFINE Amount(m) ==
             FindMonthlyAggregate(L, GetMonthlyAnalyticsRanges(m).current).totalAmount
           Step(g) == [s \in SUBSET M |-> IF s = {} THEN 0 ELSE
                         Amount(CHOOSE x \in s : TRUE) + g[s \ {CHOOSE x \in s : TRUE}]]
           iter == CHOOSE g : g = Step(g)
<1>1. ASSUME NEW g PROVE IsSum(g, MonthAmounts(L, M), M) <=> g = Step(g)
  <2>1. \A s \in SUBSET M : s # {} => (CHOOSE x \in s : TRUE) \in M
    OBVIOUS
  <2> QED BY <2>1 DEF IsSum, MonthAmounts, Chosen, Others
<1>2. MapThenSumSet(LAMBDA m :
        FindMonthlyAggregate(L, GetMonthlyAnalyticsRanges(m).current).totalAmount, M) = iter[M]
  BY DEF MapThenSumSet, MapThenFoldSet
<1>3. \E g : IsSum(g, MonthAmounts(L, M), M)
  BY SumExists
<1> HIDE DEF Step
<1>4. iter = Step(iter)
  BY <1>1, <1>3
<1> HIDE DEF iter
<1> QED BY <1>1, <1>2, <1>4, TotalIs

\* There are finitely many months in the years.
LEMMA MonthsAreFinite == IsFiniteSet(Months) /\ Months \subseteq CalendarMonths
<1> DEFINE f == [p \in Years \X (1..12) |-> [year |-> p[1], month |-> p[2]]]
<1>1. IsFiniteSet(1..12) /\ IsFiniteSet(Years) /\ Years \subseteq Nat
  <2>1. IsFiniteSet(1..12)
    BY FS_Interval, 1 \in Int, 12 \in Int
  <2> QED BY <2>1, FiguresAssumption
<1>2. IsFiniteSet(Years \X (1..12))
  BY <1>1, FS_Product
<1>3. f \in Surjection(Years \X (1..12), Months)
  <2>1. f \in [Years \X (1..12) -> Months]
    BY DEF Months
  <2>2. ASSUME NEW m \in Months PROVE \E p \in Years \X (1..12) : f[p] = m
    <3>1. <<m.year, m.month>> \in Years \X (1..12) /\ f[<<m.year, m.month>>] = m
      BY DEF Months
    <3> QED BY <3>1
  <2> HIDE DEF f
  <2> QED BY <2>1, <2>2 DEF Surjection
<1> HIDE DEF f
<1>4. IsFiniteSet(Months)
  BY <1>2, <1>3, FS_Surjection
<1> QED BY <1>1, <1>4 DEF Months, CalendarMonths

\* The months of some years have the lines dated in these years, each once.
LEMMA MonthsPartition ==
  ASSUME NEW L, AreLines(L)
  PROVE  /\ \A line \in {l \in L : l.date.year \in Years} :
              Cardinality({m \in Months :
                InRange(line.date, GetMonthlyAnalyticsRanges(m).current)}) = 1
         /\ MapThenSumSet(LAMBDA m :
              FindMonthlyAggregate(L, GetMonthlyAnalyticsRanges(m).current).totalAmount, Months)
              = AmountOf({l \in L : l.date.year \in Years})
<1> DEFINE dated == {l \in L : l.date.year \in Years}
           Part == [m \in Months |-> InMonth(L, m)]
           a == AmountIn(L)
<1>1. ASSUME NEW line \in dated
      PROVE  Cardinality({m \in Months :
               InRange(line.date, GetMonthlyAnalyticsRanges(m).current)}) = 1
  <2> DEFINE own == [year |-> line.date.year, month |-> line.date.month]
  <2>1. own \in Months /\ IsDate(line.date)
    BY DEF AreLines, IsDate, Months
  <2>2. ASSUME NEW m \in Months
        PROVE  InRange(line.date, GetMonthlyAnalyticsRanges(m).current) <=> m = own
    <3>1. m \in CalendarMonths
      BY MonthsAreFinite
    <3>2. InRange(line.date, GetMonthlyAnalyticsRanges(m).current)
            <=> line.date.year = m.year /\ line.date.month = m.month
      BY <2>1, <3>1, CurrentIsMonth
    <3>3. m = [year |-> m.year, month |-> m.month]
      BY DEF Months
    <3> QED BY <3>2, <3>3
  <2> HIDE DEF own
  <2>3. {m \in Months : InRange(line.date, GetMonthlyAnalyticsRanges(m).current)} = {own}
    BY <2>1, <2>2
  <2> QED BY <2>3, FS_Singleton
<1>2. a \in [L -> Int] /\ IsFiniteSet(L)
  BY DEF AreLines, IsAmounts, AmountIn
<1>3. /\ Part \in [Months -> SUBSET L]
      /\ \A j, k \in Months : j # k => Part[j] \intersect Part[k] = {}
      /\ UNION {Part[m] : m \in Months} = dated
  <2>1. \A m \in Months : m.year \in Years /\ m = [year |-> m.year, month |-> m.month]
    BY DEF Months
  <2>2. ASSUME NEW line \in dated PROVE \E m \in Months : line \in InMonth(L, m)
    <3>1. [year |-> line.date.year, month |-> line.date.month] \in Months
      BY DEF AreLines, IsDate, Months
    <3> QED BY <3>1 DEF InMonth
  <2>3. \A m \in Months : InMonth(L, m) \subseteq dated
    BY <2>1 DEF InMonth
  <2>4. \A j, k \in Months : j # k => InMonth(L, j) \intersect InMonth(L, k) = {}
    BY <2>1 DEF InMonth
  <2> HIDE DEF dated
  <2>5. \A m \in Months : InMonth(L, m) \subseteq L
    BY DEF InMonth
  <2> QED BY <2>2, <2>3, <2>4, <2>5
<1>4. ASSUME NEW m \in Months
      PROVE  /\ MonthAmounts(L, Months)[m] = AmountOf(InMonth(L, m))
             /\ AmountOf(InMonth(L, m)) = Total(a, Part[m])
             /\ AmountOf(InMonth(L, m)) \in Int
  <2>1. m \in CalendarMonths
    BY MonthsAreFinite
  <2>2. MonthAmounts(L, Months)[m] = AmountOf(InMonth(L, m))
    <3> DEFINE figures == FindMonthlyAggregate(L, GetMonthlyAnalyticsRanges(m).current)
    <3>1. figures.totalAmount = AmountOf(InMonth(L, m))
      <4>1. figures = [totalAmount |-> AmountOf(InMonth(L, m)),
                       transactionCount |-> Cardinality(InMonth(L, m)),
                       categories |-> GroupBy(InMonth(L, m), "category"),
                       merchants |-> GroupBy(InMonth(L, m), "merchant")]
        BY <2>1, AggregateIs
      <4> HIDE DEF figures
      <4> QED BY <4>1
    <3>2. MonthAmounts(L, Months)[m] = figures.totalAmount
      BY DEF MonthAmounts
    <3> QED BY <3>1, <3>2
  <2>3. InMonth(L, m) \in SUBSET L /\ Part[m] = InMonth(L, m)
    BY DEF InMonth
  <2> QED BY <2>2, <2>3, AmountIsTotal DEF AreLines
<1> HIDE DEF Part, a
<1>5. MonthAmounts(L, Months) = [m \in Months |-> Total(a, Part[m])]
      /\ MonthAmounts(L, Months) \in [Months -> Int]
  <2>1. MonthAmounts(L, Months) = [m \in Months |-> MonthAmounts(L, Months)[m]]
    BY DEF MonthAmounts
  <2> QED BY <1>4, <2>1
<1>6. Total([m \in Months |-> Total(a, Part[m])], Months)
        = Total(a, UNION {Part[m] : m \in Months})
  BY ONLY <1>2, <1>3, MonthsAreFinite, TotalPartition
<1>7. Total(a, dated) = AmountOf(dated)
  <2>1. dated \in SUBSET L
    OBVIOUS
  <2> QED BY <2>1, AmountIsTotal DEF AreLines, a
<1>8. MapThenSumSet(LAMBDA m :
        FindMonthlyAggregate(L, GetMonthlyAnalyticsRanges(m).current).totalAmount, Months)
        = Total(MonthAmounts(L, Months), Months)
  BY <1>5, MonthsAreFinite, MonthAmountIsTotal
<1>9. Total(MonthAmounts(L, Months), Months) = AmountOf(dated)
  <2> HIDE DEF dated
  <2> QED BY <1>3, <1>5, <1>6, <1>7
<1> QED BY <1>1, <1>8, <1>9

-----------------------------------------------------------------------------
(* Months and buckets agree.                                               *)

\* What is said of a bucket and of the buckets of the month before.
AgreesWith(b, earlier) ==
  IF b.name \in NamesOf(earlier)
  THEN \E p \in earlier : p.name = b.name /\ p.amount = b.previousAmount
  ELSE b.previousAmount = Null /\ b.amountChangePercentage = Null

\* A bucket is compared with the one the month before is answered with.
LEMMA BucketsAgree ==
  ASSUME NEW F, IsAmounts(F), NEW G, IsAmounts(G), NEW column, NEW P, IsBuckets(P),
         NEW up \in BOOLEAN,
         NEW b \in Response(F, column, GroupBy(G, column), up)
  PROVE  AgreesWith(b, Response(G, column, P, up))
<1> DEFINE earlier == Response(G, column, P, up)
           groups == GroupBy(G, column)
<1>1. /\ AmountOf(F) \in Int /\ AmountOf(G) \in Int
      /\ IsBuckets(GroupBy(F, column)) /\ IsBuckets(groups)
  BY PartsHaveAmounts, GroupsAreBuckets
<1>2. \/ /\ \A p \in groups : p.name # b.name
         /\ b.previousAmount = Null /\ b.amountChangePercentage = Null
      \/ \E p \in groups : p.name = b.name /\ b.previousAmount = p.amount
  BY <1>1, BuildResponseIs DEF Response
<1>3. \A r \in earlier : \E p \in groups : p.name = r.name
  BY <1>1, BuildResponseIs DEF Response
<1>4. \A p \in groups : \E r \in earlier : r.name = p.name /\ r.amount = p.amount
  BY BuildResponseAll DEF Response
<1> HIDE DEF groups, earlier
<1>5. AgreesWith(b, earlier)
  BY <1>2, <1>3, <1>4 DEF AgreesWith, NamesOf
<1> QED BY <1>5 DEF earlier

\* The totals of a month before with transactions are some.
LEMMA PreviousIsSome ==
  ASSUME NEW L, AreLines(L), NEW m \in CalendarMonths, NEW up \in BOOLEAN,
         Cardinality(InMonth(L, ShiftMonth(m, -1))) # 0
  PROVE  LET previous == MonthlyAnalyticsOf(L, m, up).previousMonth IN
         /\ previous # Null
         /\ previous.totalAmount = AmountOf(InMonth(L, ShiftMonth(m, -1)))
         /\ previous.transactionCount = Cardinality(InMonth(L, ShiftMonth(m, -1)))
<1> DEFINE now == InMonth(L, m)
           before == InMonth(L, ShiftMonth(m, -1))
           previous == MonthlyAnalyticsOf(L, m, up).previousMonth
           change == ChangePercentage(AmountOf(now), AmountOf(before), up)
           countChange == ChangePercentage(Cardinality(now), Cardinality(before), up)
<1>1. previous = [totalAmount |-> AmountOf(before), transactionCount |-> Cardinality(before),
                  amountChangePercentage |-> change,
                  transactionCountChangePercentage |-> countChange]
  <2>1. AreFigures(MonthlyAnalyticsOf(L, m, up), L, m, up)
    BY FiguresAre
  <2> QED BY <2>1 DEF AreFigures
<1>2. /\ AmountOf(now) \in Int /\ Cardinality(now) \in Nat
      /\ AmountOf(before) \in Int /\ Cardinality(before) \in Nat
  BY MonthHasAmounts
<1>3. change \in Int \union {Null} /\ countChange \in Int \union {Null}
  BY <1>2, PercentageType
<1> HIDE DEF now, before, previous, change, countChange
<1>4. previous \in PreviousTotals
  BY <1>1, <1>2, <1>3 DEF PreviousTotals
<1>5. previous # Null
  BY <1>4, NullAssumption
<1> QED BY <1>1, <1>5 DEF before, previous

-----------------------------------------------------------------------------
(* An increase.                                                            *)

\* A bucket with an increase has lines of its name whose amounts are more than
\* those of the month before.
LEMMA IncreaseIsMore ==
  ASSUME NEW F, IsAmounts(F), NEW G, IsAmounts(G), NEW column, NEW up \in BOOLEAN, NEW name,
         HasIncrease(Response(F, column, GroupBy(G, column), up), name)
  PROVE  /\ AmountOf(Group(G, column, name)) # 0
         /\ AmountOf(Group(F, column, name)) > AmountOf(Group(G, column, name))
<1> DEFINE R == Response(F, column, GroupBy(G, column), up)
<1>1. PICK b \in R : /\ b.name = name
                     /\ b.previousAmount # Null
                     /\ b.amountChangePercentage # Null
                     /\ b.amountChangePercentage > 0
  BY DEF HasIncrease
<1>2. AmountOf(F) \in Int /\ IsBuckets(GroupBy(F, column)) /\ IsBuckets(GroupBy(G, column))
  BY PartsHaveAmounts, GroupsAreBuckets
<1>3. \/ b.previousAmount = Null
      \/ \E p \in GroupBy(G, column) :
           /\ p.name = name
           /\ b.amountChangePercentage = ChangePercentage(b.amount, p.amount, up)
  BY <1>1, <1>2, BuildResponseIs DEF Response
<1>4. PICK p \in GroupBy(G, column) :
        /\ p.name = name
        /\ b.amountChangePercentage = ChangePercentage(b.amount, p.amount, up)
  BY <1>1, <1>3
<1>5. p.amount = AmountOf(Group(G, column, name)) /\ p.amount \in Int
  BY <1>4, GroupByIs
<1>6. b.amount = AmountOf(Group(F, column, name)) /\ b.amount \in Int
  <2>1. Covers(R, F, column)
    BY <1>2, ResponseOfLines
  <2> HIDE DEF R
  <2> QED BY <1>1, <2>1 DEF Covers
<1>7. p.amount # 0 /\ b.amount > p.amount
  <2>1. \A c, q \in Int :
          (ChangePercentage(c, q, up) # Null /\ ChangePercentage(c, q, up) > 0)
            => q # 0 /\ c > q
    BY PositiveIsMore
  <2> QED BY <1>1, <1>4, <1>5, <1>6, <2>1
<1> QED BY <1>5, <1>6, <1>7

-----------------------------------------------------------------------------
(* The theorems.                                                           *)

\* What is stored has its type: of at most MaxTransactions rows, of which only
\* a completed statement has some, each subcategory belongs to its category.
THEOREM FiguresTypes == Spec => []TypeOK
<1>1. StoredInv => TypeOK
  BY DEF StoredInv
<1> QED BY <1>1, StoredIsValid, PTL

\* saveTransactionsAndComplete completes a statement with every line of what
\* parseOcrToolInput accepted: its upserts overwrite none of them.
THEOREM EveryLineIsSaved == Spec => []NoLineIsLost
<1>1. StoredInv => NoLineIsLost
  BY DEF StoredInv
<1> QED BY <1>1, StoredIsValid, PTL

\* Of what parseOcrToolInput accepts the database refuses only lines that
\* have a merchant with a U+0000.
THEOREM RefusedForNul == Spec => []OnlyNulIsRefused
<1>1. StoredInv => OnlyNulIsRefused
  BY DEF StoredInv
<1> QED BY <1>1, StoredIsValid, PTL

\* The ranges of getMonthlyAnalyticsRanges put every line of the years in one
\* month, and the totals of the months make up the total of the lines.
THEOREM LinesCountOnce == Spec => []EachLineCountsOnce
<1>1. StoredInv => EachLineCountsOnce
  BY CompletedAreLines, MonthsPartition DEF EachLineCountsOnce
<1> QED BY <1>1, StoredIsValid, PTL

\* buildMonthlyAnalytics compares a month with what the month before is
\* answered with.
THEOREM NeighboursAgree == Spec => []MonthsAgree
<1>1. ASSUME StoredInv PROVE MonthsAgree
  <2>1. AreLines(Completed) /\ tieUp \in BOOLEAN
    BY <1>1, CompletedAreLines DEF StoredInv, TypeOK
  <2>2. ASSUME NEW m \in Months, ShiftMonth(m, -1) \in Months
        PROVE  LET now == AnalyticsOf(m)
                   before == AnalyticsOf(ShiftMonth(m, -1))
               IN  /\ IF before.transactionCount = 0
                      THEN now.previousMonth = Null
                      ELSE /\ now.previousMonth # Null
                           /\ now.previousMonth.totalAmount = before.totalAmount
                           /\ now.previousMonth.transactionCount = before.transactionCount
                   /\ \A b \in now.categories : AgreesWith(b, before.categories)
                   /\ \A b \in now.merchants : AgreesWith(b, before.merchants)
    <3> DEFINE k == ShiftMonth(m, -1)
               F == InMonth(Completed, m)
               G == InMonth(Completed, k)
               H == InMonth(Completed, ShiftMonth(k, -1))
               now == MonthlyAnalyticsOf(Completed, m, tieUp)
               before == MonthlyAnalyticsOf(Completed, k, tieUp)
    <3>1. m \in CalendarMonths /\ k \in CalendarMonths
      BY <2>2, MonthsAreFinite
    <3>2. /\ IsAmounts(F) /\ IsAmounts(G)
          /\ IsBuckets(GroupBy(H, "category")) /\ IsBuckets(GroupBy(H, "merchant"))
      BY <2>1, MonthHasAmounts
    <3>0. /\ AreFigures(now, Completed, m, tieUp)
          /\ AreFigures(before, Completed, k, tieUp)
      <4> HIDE DEF k
      <4> QED BY <2>1, <3>1, FiguresAre
    <3> HIDE DEF now, before
    <3>3. /\ now.categories = Response(F, "category", GroupBy(G, "category"), tieUp)
          /\ now.merchants = Response(F, "merchant", GroupBy(G, "merchant"), tieUp)
      BY <3>0 DEF AreFigures
    <3>4. /\ before.totalAmount = AmountOf(G) /\ before.transactionCount = Cardinality(G)
          /\ before.categories = Response(G, "category", GroupBy(H, "category"), tieUp)
          /\ before.merchants = Response(G, "merchant", GroupBy(H, "merchant"), tieUp)
      BY <3>0 DEF AreFigures
    <3>5. Cardinality(G) = 0 => now.previousMonth = Null
      BY <3>0 DEF AreFigures
    <3>6. Cardinality(G) # 0 =>
            /\ now.previousMonth # Null
            /\ now.previousMonth.totalAmount = AmountOf(G)
            /\ now.previousMonth.transactionCount = Cardinality(G)
      BY <2>1, <3>1, PreviousIsSome DEF now
    <3>7. AnalyticsOf(m) = now /\ AnalyticsOf(k) = before
      BY DEF AnalyticsOf, now, before
    <3> HIDE DEF k, F, G, H, now, before
    <3>8. /\ \A b \in now.categories : AgreesWith(b, before.categories)
          /\ \A b \in now.merchants : AgreesWith(b, before.merchants)
      BY <2>1, <3>2, <3>3, <3>4, BucketsAgree
    <3> QED BY <3>4, <3>5, <3>6, <3>7, <3>8 DEF k
  <2> QED BY <2>2 DEF MonthsAgree, AgreesWith
<1> QED BY <1>1, StoredIsValid, PTL

\* The buckets of buildMonthlyAnalytics make up the totals, and their rounded
\* shares 100 % but for half a tenth each, whatever the amounts are.
THEOREM SharesMakeUpTheTotal == Spec => []SharesAddUp
<1>1. ASSUME StoredInv PROVE SharesAddUp
  <2>1. AreLines(Completed) /\ tieUp \in BOOLEAN
    BY <1>1, CompletedAreLines DEF StoredInv, TypeOK
  <2>2. ASSUME NEW m \in Months, NEW buckets \in {AnalyticsOf(m).categories,
                                                  AnalyticsOf(m).merchants}
        PROVE  /\ MapThenSumSet(LAMBDA b : b.amount, buckets) = AnalyticsOf(m).totalAmount
               /\ MapThenSumSet(LAMBDA b : b.count, buckets)
                    = AnalyticsOf(m).transactionCount
               /\ AnalyticsOf(m).totalAmount # 0 =>
                    2 * AbsoluteOf(MapThenSumSet(LAMBDA b : b.percentage, buckets) - 1000)
                      <= Cardinality(buckets)
    <3> DEFINE F == InMonth(Completed, m)
               G == InMonth(Completed, ShiftMonth(m, -1))
               a == MonthlyAnalyticsOf(Completed, m, tieUp)
    <3>1. m \in CalendarMonths
      BY MonthsAreFinite
    <3>2. /\ IsAmounts(F)
          /\ IsBuckets(GroupBy(G, "category")) /\ IsBuckets(GroupBy(G, "merchant"))
      BY <2>1, MonthHasAmounts
    <3>0. AreFigures(a, Completed, m, tieUp)
      BY <2>1, <3>1, FiguresAre
    <3> HIDE DEF a
    <3>3. /\ a.totalAmount = AmountOf(F) /\ a.transactionCount = Cardinality(F)
          /\ a.categories = Response(F, "category", GroupBy(G, "category"), tieUp)
          /\ a.merchants = Response(F, "merchant", GroupBy(G, "merchant"), tieUp)
      BY <3>0 DEF AreFigures
    <3>4. AnalyticsOf(m) = a
      BY DEF AnalyticsOf, a
    <3> HIDE DEF F, G
    <3>5. PICK column, P : /\ IsBuckets(P)
                           /\ buckets = Response(F, column, P, tieUp)
      BY <3>2, <3>3, <3>4
    <3> QED BY <2>1, <3>2, <3>3, <3>4, <3>5, BucketsAddUp
  <2> QED BY <2>2 DEF SharesAddUp
<1> QED BY <1>1, StoredIsValid, PTL

\* An insight that passes parseAndValidateInsights and speaks of an increase
\* is right about the lines.
THEOREM IncreasesAreReal == Spec => []IncreaseIsReal
<1>1. ASSUME StoredInv, reply # NoInsights, NEW i \in DOMAIN reply.insights,
             reply.insights[i].type \in {"CATEGORY_INCREASE", "MERCHANT_INCREASE"}
      PROVE  LET insight == reply.insights[i]
                 Named(month) ==
                   {line \in InMonth(Completed, month) :
                      line.category = insight.category \/ line.merchant = insight.merchant}
             IN  /\ AmountOf(Named(ShiftMonth(reply.month, -1))) # 0
                 /\ AmountOf(Named(reply.month))
                      > AmountOf(Named(ShiftMonth(reply.month, -1)))
  <2> DEFINE insight == reply.insights[i]
             m == reply.month
             k == ShiftMonth(m, -1)
             F == InMonth(Completed, m)
             G == InMonth(Completed, k)
             input == InputOf(m)
             Named(month) ==
               {line \in InMonth(Completed, month) :
                  line.category = insight.category \/ line.merchant = insight.merchant}
  <2>1. AreLines(Completed) /\ tieUp \in BOOLEAN
    BY <1>1, CompletedAreLines DEF StoredInv, TypeOK
  <2>2. /\ m \in InsightMonths /\ InsightSchema(insight) /\ ValidInsight(insight, input)
    BY <1>1 DEF StoredInv, Acceptable, InsightsDocumentSchema
  <2>3. m \in CalendarMonths
    BY <2>2, FiguresAssumption DEF CalendarMonths
  <2>4. IsAmounts(F) /\ IsAmounts(G)
    BY <2>1, MonthHasAmounts
  <2>5. /\ input.current.categories = Response(F, "category", GroupBy(G, "category"), tieUp)
        /\ input.current.merchants = Response(F, "merchant", GroupBy(G, "merchant"), tieUp)
    <3> DEFINE a == MonthlyAnalyticsOf(Completed, m, tieUp)
    <3>0. AreFigures(a, Completed, m, tieUp)
      <4> HIDE DEF m
      <4> QED BY <2>1, <2>3, FiguresAre
    <3> HIDE DEF a
    <3>1. /\ a.categories = Response(F, "category", GroupBy(G, "category"), tieUp)
          /\ a.merchants = Response(F, "merchant", GroupBy(G, "merchant"), tieUp)
      BY <3>0 DEF AreFigures
    <3>2. input = CreateCompactInsightsInput(a)
      BY DEF InputOf, AnalyticsOf, a
    <3> HIDE DEF a, F, G, input
    <3> QED BY <3>1, <3>2 DEF CreateCompactInsightsInput
  <2>6. \A line \in Completed : line.category # Absent /\ line.merchant # Absent
    BY <1>1, CompletedAreLines
  <2> HIDE DEF input, insight
  <2>7. CASE insight.type = "CATEGORY_INCREASE"
    <3>1. /\ insight.merchant = Absent
          /\ HasIncrease(input.current.categories, insight.category)
      BY <2>2, <2>7 DEF InsightSchema, ValidInsight
    <3>2. \A month : Named(month) = Group(InMonth(Completed, month), "category",
                                          insight.category)
      BY <2>6, <3>1 DEF Group, InMonth
    <3> HIDE DEF Named
    <3>3. /\ AmountOf(Group(G, "category", insight.category)) # 0
          /\ AmountOf(Group(F, "category", insight.category))
               > AmountOf(Group(G, "category", insight.category))
      <4> HIDE DEF F, G
      <4> QED BY <2>1, <2>4, <2>5, <3>1, IncreaseIsMore
    <3> QED BY <3>2, <3>3 DEF Named, insight
  <2>8. CASE insight.type = "MERCHANT_INCREASE"
    <3>1. /\ insight.category = Absent
          /\ HasIncrease(input.current.merchants, insight.merchant)
      BY <2>2, <2>8 DEF InsightSchema, ValidInsight
    <3>2. \A month : Named(month) = Group(InMonth(Completed, month), "merchant",
                                          insight.merchant)
      BY <2>6, <3>1 DEF Group, InMonth
    <3> HIDE DEF Named
    <3>3. /\ AmountOf(Group(G, "merchant", insight.merchant)) # 0
          /\ AmountOf(Group(F, "merchant", insight.merchant))
               > AmountOf(Group(G, "merchant", insight.merchant))
      <4> HIDE DEF F, G
      <4> QED BY <2>1, <2>4, <2>5, <3>1, IncreaseIsMore
    <3> QED BY <3>2, <3>3 DEF Named, insight
  <2> QED BY <1>1, <2>7, <2>8 DEF insight
<1>2. StoredInv => IncreaseIsReal
  BY <1>1 DEF IncreaseIsReal, InMonth
<1> QED BY <1>2, StoredIsValid, PTL

\* What is cached under the fingerprint of the figures passes for them again.
THEOREM FoundIsValid == Spec => []FoundIsUsable
<1>1. StoredInv => FoundIsUsable
  BY DEF StoredInv, FoundIsUsable, Found, GetAnalyticsFingerprint
<1> QED BY <1>1, StoredIsValid, PTL
=============================================================================
