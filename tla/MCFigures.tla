------------------------------ MODULE MCFigures ------------------------------
(***************************************************************************)
(* Instances of StatementFigures.                                          *)
(***************************************************************************)
EXTENDS StatementFigures, TLC

CONSTANTS Food, Travel, Eatout, M1, M2, M3

MCSubcategoriesOf == (Food :> {Eatout}) @@ (Travel :> {})

Symmetry == Permutations(Statements)

Date(y, m, d) == [year |-> y, month |-> m, day |-> d]
Line(date, subject, amount, number) ==
  [date |-> date, merchant |-> subject[1], amount |-> amount, category |-> subject[2],
   subcategory |-> subject[3], lineNumber |-> number]

Eat == <<M1, Food, Eatout>>
Trip == <<M2, Travel, Nashi>>
Odd == <<M2, Travel, Eatout>>

\* December and January, their first and last days.
GoodDates == {Date(2000, 12, 31), Date(2001, 1, 1), Date(2001, 1, 31)}

\* One line each: refunds, an amount whose change by one is half a tenth of
\* a percent, and the categories with and without subcategories.
SingleLines ==
  {<<Line(d, subject, amount, 1)>>
    : d \in GoodDates, subject \in {Eat, Trip}, amount \in {-1, 1, 2000}}

\* Two lines, in an order of its own.
Pairs ==
  {<<Line(Date(2000, 12, 31), Eat, -1, 2), Line(Date(2001, 2, 1), Trip, 3, 1)>>,
   <<Line(Date(2000, 11, 30), Trip, 1, 1), Line(Date(2000, 12, 1), Trip, -1, 2)>>,
   <<Line(Date(2000, 2, 29), Trip, 7, 1), Line(Date(2001, 1, 1), <<M1, Travel, Nashi>>, 5, 2)>>}

\* A merchant that passes and cannot be stored.
NulDocument == <<Line(Date(2001, 1, 1), <<M3, Food, Eatout>>, 1, 1)>>

\* What must not pass, and dates at the edges of the calendar.
OddDocuments ==
  {Malformed, <<>>,
   <<Line(Date(2001, 2, 29), Eat, 1, 1)>>,
   <<Line(Date(1900, 2, 29), Eat, 1, 1)>>,
   <<Line(Date(2001, 4, 31), Eat, 1, 1)>>,
   <<Line(Date(0, 1, 1), Eat, 1, 1)>>,
   <<Line(Date(99, 1, 1), Eat, 1, 1)>>,
   <<Line(Date(2000, 13, 1), Eat, 1, 1)>>,
   <<Line(Date(2001, 1, 1), Eat, 0, 1)>>,
   <<Line(Date(2001, 1, 1), Eat, MaxAmount + 1, 1)>>,
   <<Line(Date(2001, 1, 1), Eat, 1, 0)>>,
   <<Line(Date(2001, 1, 1), <<Blank, Food, Eatout>>, 1, 1)>>,
   <<Line(Date(2001, 1, 1), <<M1, Food, Nashi>>, 1, 1)>>,
   <<Line(Date(2001, 1, 1), Odd, 1, 1)>>,
   <<Line(Date(2001, 1, 1), Eat, 1, 1), Line(Date(2001, 1, 1), Trip, 1, 1)>>,
   <<Line(Date(2001, 1, 1), Eat, 1, 1), Line(Date(2001, 1, 1), Trip, 1, 2),
     Line(Date(2001, 1, 31), Eat, 1, 1)>>}

MCDocuments == SingleLines \union Pairs \union OddDocuments \union {NulDocument}

Insight(type, category, merchant) ==
  [type |-> type, category |-> category, merchant |-> merchant]
Told == {Insight("CATEGORY_INCREASE", Food, Absent),
         Insight("MERCHANT_INCREASE", Absent, M2),
         Insight("NOTABLE_SPENDING", Travel, M1),
         Insight("NOTABLE_SPENDING", Food, M2),
         Insight("NOTABLE_SPENDING", Absent, Absent)}
MCInsightsDocuments ==
  {<<t>> : t \in Told} \union
  {Unreadable, <<>>,
   <<Insight("CATEGORY_INCREASE", Food, Absent), Insight("MERCHANT_INCREASE", Absent, M2)>>,
   [i \in 1..MaxInsights + 1 |-> Insight("NOTABLE_SPENDING", Food, Absent)]}

MCInsightMonths == {[year |-> 2001, month |-> 1]}
=============================================================================
