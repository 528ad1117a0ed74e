--------------------------- MODULE StatementFigures --------------------------
(***************************************************************************)
(* What becomes of the data: an OCR answer is parsed and its lines are     *)
(* saved with the statement (analyze-job-handler.ts and                    *)
(* saveTransactionsAndComplete), the lines are summed up by month, and the *)
(* figures of a month decide which insights it is answered with            *)
(* (monthly-insights-service.ts).  Each of the three is one step here:     *)
(* their interleavings are StatementSystem's and MonthlyInsights'.         *)
(***************************************************************************)
EXTENDS OcrResult, InsightsDocument

CONSTANTS
  Statements,
  Documents,     \* bound: the answers of the OCR
  InsightsDocuments, \* bound: the answers of the model to the figures
  Years,         \* bound: years whose figures are compared, 2000..2100 in the code
  InsightMonths, \* bound: the months for which insights are requested
  NoInsights

VARIABLES
  status,    \* status[s]: of statement s
  answer,    \* answer[s]: what the schemas made of the last OCR answer for s,
             \*   <<>> for none that passed (a history of what was to be saved)
  lines,     \* lines[s]: its rows of `transactions`, by line number
  cache,     \* cache[m]: the row of `monthly_insights` for month m
  reply,     \* the last answer to a request for insights
  tieUp      \* how doubles halfway between two tenths are rounded

vars == <<status, answer, lines, cache, reply, tieUp>>

Months == [year: Years, month: 1..12]

\* The shape of an answer of the tool; what its fields hold may be anything
\* but what stands for no field at all.
OcrFields == {"date", "merchant", "amount", "category", "subcategory", "lineNumber"}
IsAnswer(document) ==
  /\ document \in Seq({document[i] : i \in DOMAIN document})
  /\ \A i \in DOMAIN document :
       /\ DOMAIN document[i] = OcrFields
       /\ Absent \notin {document[i].merchant, document[i].category}

\* What a bucket of the figures is called.
BucketNames ==
  DOMAIN SubcategoriesOf \union
  UNION {{document[i].merchant : i \in DOMAIN document}
         : document \in Documents \ {Malformed}}

\* A row of `monthly_insights`: its insights, and the figures behind its
\* fingerprint.
Buckets ==
  [name : BucketNames, amount : Int, count : Nat, percentage : Int \union {Null},
   previousAmount : Int \union {Null}, amountChangePercentage : Int \union {Null}]
CompactInputs ==
  [month : InsightMonths,
   current : [totalAmount : Int, transactionCount : Nat,
              categories : SUBSET Buckets, merchants : SUBSET Buckets],
   previous : [totalAmount : Int, transactionCount : Nat] \union {Null}]
CachedRows == [fingerprint : CompactInputs, insights : InsightsDocuments]

ASSUME FiguresAssumption ==
  /\ IsFiniteSet(Statements)
  /\ \A document \in Documents \ {Malformed} : IsAnswer(document)
  /\ IsFiniteSet(Years) /\ Years \subseteq Nat
  /\ InsightMonths \subseteq [year : Nat, month : 1..12]
  /\ NoInsights \notin CachedRows

\* The rows the query of the figures reads, each with its statement.
Completed ==
  UNION {{[statement |-> s, date |-> lines[s][i].date, category |-> lines[s][i].category,
           merchant |-> lines[s][i].merchant, amount |-> lines[s][i].amount,
           lineNumber |-> lines[s][i].lineNumber] : i \in DOMAIN lines[s]}
         : s \in {t \in Statements : status[t] = "COMPLETED"}}

AnalyticsOf(month) == MonthlyAnalyticsOf(Completed, month, tieUp)
InputOf(month) == CreateCompactInsightsInput(AnalyticsOf(month))

Init ==
  /\ status = [s \in Statements |-> "PROCESSING"]
  /\ answer = [s \in Statements |-> <<>>]
  /\ lines = [s \in Statements |-> <<>>]
  /\ cache = [m \in InsightMonths |-> NoInsights]
  /\ reply = NoInsights
  /\ tieUp \in BOOLEAN

-----------------------------------------------------------------------------
\* A job is under way, for the first time or after a save that failed.
InWork(s) == status[s] \in {"PROCESSING", "REFUSED"}

\* The job of s with an answer of the OCR that does not pass: INVALID_OCR_RESPONSE.
RejectDocument(s, document) ==
  /\ InWork(s)
  /\ ParseOcrToolInput(document) = Rejected
  /\ status' = [status EXCEPT ![s] = "FAILED"]
  /\ answer' = [answer EXCEPT ![s] = <<>>]
  /\ reply' = NoInsights
  /\ UNCHANGED <<lines, cache, tieUp>>

\* The job of s with one that passes.  An INSERT that fails rolls all of it
\* back and leaves the row as it was, PROCESSING, and the job to be tried
\* again with another answer of the OCR: "REFUSED" here.
SaveTransactionsAndComplete(s, document) ==
  LET result == ParseOcrToolInput(document) IN
  /\ InWork(s)
  /\ result # Rejected
  /\ answer' = [answer EXCEPT ![s] = result]
  /\ IF Insertable(result)
     THEN /\ status' = [status EXCEPT ![s] = "COMPLETED"]
          /\ lines' = [lines EXCEPT ![s] = Upserted(result)]
     ELSE /\ status' = [status EXCEPT ![s] = "REFUSED"]
          /\ UNCHANGED lines
  /\ reply' = NoInsights
  /\ UNCHANGED <<cache, tieUp>>

\* The row of the month with the fingerprint of its figures, if it has one.
\* The target month, the model and the prompt are those of the row: they do
\* not change here.
Found(month) ==
  /\ cache[month] # NoInsights
  /\ cache[month].fingerprint = GetAnalyticsFingerprint(InputOf(month))

\* getCachedResponse: what is found is validated again.
AnswerFromCache(month) ==
  /\ Found(month)
  /\ Acceptable(cache[month].insights, InputOf(month))
  /\ reply' = [month |-> month, insights |-> cache[month].insights]
  /\ UNCHANGED <<status, answer, lines, cache, tieUp>>

\* Nothing of use is found: what Bedrock answers is validated and saved.
Generate(month, document) ==
  /\ ~ (Found(month) /\ Acceptable(cache[month].insights, InputOf(month)))
  /\ Acceptable(document, InputOf(month))
  /\ cache' = [cache EXCEPT ![month] =
       [fingerprint |-> GetAnalyticsFingerprint(InputOf(month)), insights |-> document]]
  /\ reply' = [month |-> month, insights |-> document]
  /\ UNCHANGED <<status, answer, lines, tieUp>>

\* What Bedrock answers does not pass: InvalidInsightsResponseError.
RejectInsights(month, document) ==
  /\ ~ (Found(month) /\ Acceptable(cache[month].insights, InputOf(month)))
  /\ ~ Acceptable(document, InputOf(month))
  /\ reply' = NoInsights
  /\ UNCHANGED <<status, answer, lines, cache, tieUp>>

Next ==
  \/ \E s \in Statements, document \in Documents :
       RejectDocument(s, document) \/ SaveTransactionsAndComplete(s, document)
  \/ \E month \in InsightMonths :
       \/ AnswerFromCache(month)
       \/ \E document \in InsightsDocuments :
            Generate(month, document) \/ RejectInsights(month, document)

Spec == Init /\ [][Next]_vars

-----------------------------------------------------------------------------
\* Types; and a statement has rows exactly if it is completed.
TypeOK ==
  /\ status \in [Statements -> {"PROCESSING", "REFUSED", "COMPLETED", "FAILED"}]
  /\ \A s \in Statements :
       /\ \A n \in DOMAIN lines[s] : n \in 1..MaxTransactions /\ lines[s][n].lineNumber = n
       /\ status[s] = "COMPLETED" <=> lines[s] # <<>>
       /\ \A i \in DOMAIN lines[s] :
            lines[s][i].subcategory \in
              SubcategoriesOf[lines[s][i].category] \union {NoSubcategory}
  /\ \A m \in InsightMonths :
       cache[m] # NoInsights => cache[m].insights \in InsightsDocuments
  /\ reply # NoInsights => cache[reply.month] # NoInsights
  /\ tieUp \in BOOLEAN

\* A completed statement has every line of the answer it was completed with:
\* the upserts have put no line in the place of another, so that no money
\* of the statement is missing from its figures.
NoLineIsLost ==
  \A s \in Statements :
    status[s] = "COMPLETED" =>
      /\ Cardinality(DOMAIN lines[s]) = Len(answer[s])
      /\ \A i \in DOMAIN answer[s] : \E n \in DOMAIN lines[s] : lines[s][n] = answer[s][i]

\* Of what passes the schemas the database refuses nothing but the text of a
\* merchant with a U+0000: dates, amounts and line numbers are such as the
\* table takes.  The handler takes a refusal for a failure of the database,
\* and tries such a job again, with another call of the OCR each time.
OnlyNulIsRefused ==
  \A s \in Statements :
    status[s] = "REFUSED" =>
      \E i \in DOMAIN answer[s] : answer[s][i].merchant \in UnstorableNames

\* Each line of a completed statement that is dated in one of the years counts
\* in the figures of one month and no other, over the ends of months and
\* years; and all months together have all the money.
EachLineCountsOnce ==
  LET completed == Completed
      dated == {line \in completed : line.date.year \in Years}
      FiguresOf(m) == FindMonthlyAggregate(completed, GetMonthlyAnalyticsRanges(m).current)
  IN  /\ \A line \in dated :
           Cardinality({m \in Months :
             InRange(line.date, GetMonthlyAnalyticsRanges(m).current)}) = 1
      /\ MapThenSumSet(LAMBDA m : FiguresOf(m).totalAmount, Months) = AmountOf(dated)

\* What the figures of a month are compared with are the figures the month
\* before is answered with: its totals unless it has no transaction, and the
\* amount of every bucket that it has too.
MonthsAgree ==
  LET figures == [m \in Months |-> AnalyticsOf(m)]
      Agree(buckets, earlier) ==
        \A b \in buckets :
          IF b.name \in NamesOf(earlier)
          THEN \E p \in earlier : p.name = b.name /\ p.amount = b.previousAmount
          ELSE b.previousAmount = Null /\ b.amountChangePercentage = Null
  IN  \A m \in Months :
        LET now == figures[m]
            before == figures[ShiftMonth(m, -1)]
        IN  ShiftMonth(m, -1) \in Months =>
              /\ IF before.transactionCount = 0
                 THEN now.previousMonth = Null
                 ELSE /\ now.previousMonth # Null
                      /\ now.previousMonth.totalAmount = before.totalAmount
                      /\ now.previousMonth.transactionCount = before.transactionCount
              /\ Agree(now.categories, before.categories)
              /\ Agree(now.merchants, before.merchants)

\* The buckets of a month make up its total, and their shares 100 %, but for
\* half a tenth of rounding each, whatever refunds there are.
SharesAddUp ==
  \A m \in Months :
    \A figures \in {AnalyticsOf(m)} :
      \A buckets \in {figures.categories, figures.merchants} :
        /\ MapThenSumSet(LAMBDA b : b.amount, buckets) = figures.totalAmount
        /\ MapThenSumSet(LAMBDA b : b.count, buckets) = figures.transactionCount
        /\ figures.totalAmount # 0 =>
             LET shares == MapThenSumSet(LAMBDA b : b.percentage, buckets) IN
             2 * AbsoluteOf(shares - 1000) <= Cardinality(buckets)

\* An insight that speaks of an increase, generated or from the cache, names
\* a category or merchant on which more was spent in the month than in the
\* month before, and not nothing then: in the lines themselves, refunds
\* included, whatever the percentages round to.
IncreaseIsReal ==
  reply # NoInsights =>
    \A i \in DOMAIN reply.insights :
      LET insight == reply.insights[i]
          In(month) ==
            {line \in Completed :
               line.date.year = month.year /\ line.date.month = month.month}
          Named(month) ==
            {line \in In(month) :
               line.category = insight.category \/ line.merchant = insight.merchant}
      IN  insight.type \in {"CATEGORY_INCREASE", "MERCHANT_INCREASE"} =>
            /\ AmountOf(Named(ShiftMonth(reply.month, -1))) # 0
            /\ AmountOf(Named(reply.month)) > AmountOf(Named(ShiftMonth(reply.month, -1)))

\* Insights that are cached under the fingerprint of the figures are valid
\* for them: the fingerprint covers all that the validation looks at, so that
\* a row that is found is used and never paid for again.
FoundIsUsable ==
  \A m \in InsightMonths : Found(m) => Acceptable(cache[m].insights, InputOf(m))
=============================================================================
