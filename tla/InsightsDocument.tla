--------------------------- MODULE InsightsDocument --------------------------
(***************************************************************************)
(* What becomes of the figures of a month for the insights, and which      *)
(* documents of insights the API accepts for them: src/insights/monthly-   *)
(* insights.ts.                                                            *)
(*                                                                         *)
(* A document is a sequence of insights [type, category, merchant], of     *)
(* which category or merchant may be Absent, or Unreadable: it has another *)
(* shape, a text that is empty or too long, or the answer is not one use   *)
(* of the tool (getToolUse of src/ai/bedrock-insights.ts).  A name longer  *)
(* than 100 characters, which a merchant of a statement may have, is in    *)
(* LongNames.                                                              *)
(***************************************************************************)
EXTENDS MonthlyAnalytics, Sequences

CONSTANTS
  Absent,        \* a field an insight does not have
  Unreadable,    \* a document that is of no shape
  LongNames,     \* the names an insight cannot hold
  MaxInsights    \* 5 in the code

ASSUME InsightsDocumentAssumption == MaxInsights \in Nat \ {0}

\* createCompactInsightsInput: the figures without the changes of the totals.
CreateCompactInsightsInput(analytics) ==
  [month |-> analytics.month,
   current |->
     [totalAmount |-> analytics.totalAmount,
      transactionCount |-> analytics.transactionCount,
      categories |-> analytics.categories,
      merchants |-> analytics.merchants],
   previous |->
     IF analytics.previousMonth = Null
     THEN Null
     ELSE [totalAmount |-> analytics.previousMonth.totalAmount,
           transactionCount |-> analytics.previousMonth.transactionCount]]

\* Mutant of GetAnalyticsFingerprint: of the month alone, without what it is
\* compared with.
FingerprintOfMonth(input) ==
  LET Own(b) == [name |-> b.name, amount |-> b.amount, count |-> b.count] IN
  [month |-> input.month,
   totalAmount |-> input.current.totalAmount,
   transactionCount |-> input.current.transactionCount,
   categories |-> {Own(b) : b \in input.current.categories},
   merchants |-> {Own(b) : b \in input.current.merchants}]

\* canonicalizeInput and getAnalyticsFingerprint: a digest of the whole input
\* with its buckets in the order of their names.  Two inputs have the same
\* one only if they are equal (SHA-256 taken as injective).
GetAnalyticsFingerprint(input) == input

NamesOf(buckets) == {b.name : b \in buckets}

HasIncrease(buckets, name) ==
  \E b \in buckets :
    /\ b.name = name
    /\ b.previousAmount # Null
    /\ b.amountChangePercentage # Null
    /\ b.amountChangePercentage > 0

\* The schema of one insight.
InsightSchema(insight) ==
  /\ CASE insight.type = "CATEGORY_INCREASE" ->
            insight.category # Absent /\ insight.merchant = Absent
       [] insight.type = "MERCHANT_INCREASE" ->
            insight.merchant # Absent /\ insight.category = Absent
       [] insight.type = "NOTABLE_SPENDING" ->
            insight.category # Absent \/ insight.merchant # Absent
       [] OTHER -> FALSE
  /\ {insight.category, insight.merchant} \intersect LongNames = {}

InsightsDocumentSchema(document) ==
  /\ document # Unreadable
  /\ Len(document) <= MaxInsights
  /\ \A i \in DOMAIN document : InsightSchema(document[i])

\* What an insight says must be in the figures.
ValidInsight(insight, input) ==
  LET categories == input.current.categories
      merchants == input.current.merchants
  IN  CASE insight.type = "CATEGORY_INCREASE" ->
             /\ input.previous # Null
             /\ insight.category \in NamesOf(categories)
             /\ HasIncrease(categories, insight.category)
        [] insight.type = "MERCHANT_INCREASE" ->
             /\ input.previous # Null
             /\ insight.merchant \in NamesOf(merchants)
             /\ HasIncrease(merchants, insight.merchant)
        [] insight.type = "NOTABLE_SPENDING" ->
             /\ insight.category \in NamesOf(categories) \union {Absent}
             /\ insight.merchant \in NamesOf(merchants) \union {Absent}

\* parseAndValidateInsights does not throw.
Acceptable(document, input) ==
  /\ InsightsDocumentSchema(document)
  /\ \A i \in DOMAIN document : ValidInsight(document[i], input)
=============================================================================
