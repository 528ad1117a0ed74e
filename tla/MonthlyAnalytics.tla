--------------------------- MODULE MonthlyAnalytics --------------------------
(***************************************************************************)
(* The figures of a month: the ranges of dates of src/analytics/monthly-   *)
(* analytics.ts, the sums of findMonthlyAggregate of src/database/         *)
(* statement-repository.ts over them, and the shares and changes that      *)
(* buildMonthlyAnalytics makes of two sums.                                *)
(*                                                                         *)
(* A month is a record [year, month].  The buckets of the code are sorted  *)
(* by amount and name; their names are unique, so a set of them says as    *)
(* much.  A percentage counts in tenths.  Where the value lies halfway     *)
(* between two tenths, the double that stands for it is above or below, so *)
(* that either may come out: tieUp says which, and holds for all values.   *)
(* mapAnalyticsInteger passes every sum on: figures beyond 2^53, on which  *)
(* it throws, take 90 million lines of the largest amount.                 *)
(***************************************************************************)
EXTENDS Integers, FiniteSets, FiniteSetsExt

CONSTANT Null

\* What is compared with: the totals of a month and their changes.
PreviousTotals ==
  [totalAmount : Int, transactionCount : Nat,
   amountChangePercentage : Int \union {Null},
   transactionCountChangePercentage : Int \union {Null}]

ASSUME NullAssumption == Null \notin Int \union PreviousTotals

\* Mutant of ShiftMonth: months counted from one.
ShiftFromOne(month, offset) ==
  LET monthIndex == month.year * 12 + month.month + offset IN
  [year |-> monthIndex \div 12, month |-> (monthIndex % 12) + 1]

ShiftMonth(month, offset) ==
  LET monthIndex == month.year * 12 + month.month - 1 + offset IN
  [year |-> monthIndex \div 12, month |-> (monthIndex % 12) + 1]

MonthStart(month) == [year |-> month.year, month |-> month.month, day |-> 1]

GetMonthlyAnalyticsRanges(month) ==
  [current |->
     [start |-> MonthStart(month), end |-> MonthStart(ShiftMonth(month, 1))],
   previous |->
     [start |-> MonthStart(ShiftMonth(month, -1)), end |-> MonthStart(month)]]

\* a < b for dates of SQL.
Before(a, b) ==
  \/ a.year < b.year
  \/ a.year = b.year /\ a.month < b.month
  \/ a.year = b.year /\ a.month = b.month /\ a.day < b.day

InRange(date, range) == ~ Before(date, range.start) /\ Before(date, range.end)

-----------------------------------------------------------------------------
\* Sums over a set of lines, each with a date, a category, a merchant and an
\* amount.

AmountOf(lines) == MapThenSumSet(LAMBDA line : line.amount, lines)

\* GROUP BY of a column: one bucket for each name in it.
GroupBy(lines, column) ==
  LET Group(name) == {line \in lines : line[column] = name} IN
  {[name |-> name, amount |-> AmountOf(Group(name)), count |-> Cardinality(Group(name))]
    : name \in {line[column] : line \in lines}}

FindMonthlyAggregate(lines, range) ==
  LET found == {line \in lines : InRange(line.date, range)} IN
  [totalAmount |-> AmountOf(found),
   transactionCount |-> Cardinality(found),
   categories |-> GroupBy(found, "category"),
   merchants |-> GroupBy(found, "merchant")]

-----------------------------------------------------------------------------
AbsoluteOf(n) == IF n < 0 THEN -n ELSE n

\* The quotient of n and d # 0 in tenths of a percent, rounded to the nearest.
Tenths(n, d, tieUp) ==
  LET top == IF d < 0 THEN -1000 * n ELSE 1000 * n
      bottom == AbsoluteOf(d)
      down == top \div bottom
      rest == 2 * (top % bottom)
  IN  IF rest > bottom \/ (rest = bottom /\ tieUp) THEN down + 1 ELSE down

\* Mutant of Percentage: the share of the absolute total.
PercentageOfAbsolute(amount, total, tieUp) ==
  IF total = 0 THEN Null ELSE Tenths(amount, AbsoluteOf(total), tieUp)

Percentage(amount, total, tieUp) ==
  IF total = 0 THEN Null ELSE Tenths(amount, total, tieUp)

\* Mutant of ChangePercentage: the change in parts of a signed amount.
ChangeOfSigned(current, previous, tieUp) ==
  IF previous = 0 THEN Null ELSE Tenths(current - previous, previous, tieUp)

ChangePercentage(current, previous, tieUp) ==
  IF previous = 0
  THEN Null
  ELSE Tenths(current - previous, AbsoluteOf(previous), tieUp)

\* buildCategoryResponse and buildMerchantResponse.
BuildResponse(buckets, previousBuckets, total, tieUp) ==
  LET PreviousOf(name) == {b.amount : b \in {p \in previousBuckets : p.name = name}}
  IN  {[name |-> b.name, amount |-> b.amount, count |-> b.count,
        percentage |-> Percentage(b.amount, total, tieUp),
        previousAmount |->
          IF PreviousOf(b.name) = {} THEN Null ELSE CHOOSE a \in PreviousOf(b.name) : TRUE,
        amountChangePercentage |->
          IF PreviousOf(b.name) = {}
          THEN Null
          ELSE ChangePercentage(b.amount, CHOOSE a \in PreviousOf(b.name) : TRUE, tieUp)]
        : b \in buckets}

\* Mutant of PreviousMonth: a month whose amounts cancel out counts as empty.
PreviousMonthOfAmount(current, previous, tieUp) ==
  IF previous.totalAmount = 0
  THEN Null
  ELSE [totalAmount |-> previous.totalAmount,
        transactionCount |-> previous.transactionCount,
        amountChangePercentage |->
          ChangePercentage(current.totalAmount, previous.totalAmount, tieUp),
        transactionCountChangePercentage |->
          ChangePercentage(current.transactionCount, previous.transactionCount, tieUp)]

\* previousMonth of the answer, null in a month that follows an empty one.
PreviousMonth(current, previous, tieUp) ==
  IF previous.transactionCount = 0
  THEN Null
  ELSE [totalAmount |-> previous.totalAmount,
        transactionCount |-> previous.transactionCount,
        amountChangePercentage |->
          ChangePercentage(current.totalAmount, previous.totalAmount, tieUp),
        transactionCountChangePercentage |->
          ChangePercentage(current.transactionCount, previous.transactionCount, tieUp)]

BuildMonthlyAnalytics(month, current, previous, tieUp) ==
  [month |-> month,
   totalAmount |-> current.totalAmount,
   transactionCount |-> current.transactionCount,
   previousMonth |-> PreviousMonth(current, previous, tieUp),
   categories |->
     BuildResponse(current.categories, previous.categories, current.totalAmount, tieUp),
   merchants |->
     BuildResponse(current.merchants, previous.merchants, current.totalAmount, tieUp)]

\* The answer of GET /analytics/monthly over the lines of completed statements.
MonthlyAnalyticsOf(lines, month, tieUp) ==
  LET ranges == GetMonthlyAnalyticsRanges(month) IN
  BuildMonthlyAnalytics(month,
    FindMonthlyAggregate(lines, ranges.current),
    FindMonthlyAggregate(lines, ranges.previous), tieUp)
=============================================================================
