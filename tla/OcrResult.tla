------------------------------ MODULE OcrResult ------------------------------
(***************************************************************************)
(* What the worker accepts of an OCR answer: parseOcrToolInput of          *)
(* src/ai/ocr-schema.ts, with its two schemas; and what becomes of its     *)
(* lines in the table `transactions` of migration 002.                     *)
(*                                                                         *)
(* A document is a sequence of lines [date, merchant, amount, category,    *)
(* subcategory, lineNumber], or Malformed: it has another shape, or the    *)
(* answer is not one use of the OCR tool (getToolUse of bedrock-ocr.ts).   *)
(* A date is a record; merchantRaw and merchantName are one `merchant`,    *)
(* which is Blank if nothing is left of it after trim().                   *)
(***************************************************************************)
EXTENDS Integers, Sequences, FiniteSetsExt

CONSTANTS
  SubcategoriesOf,   \* subcategoriesByCategory: a function of the categories
  Nashi,             \* the subcategory of the tool that stands for none
  NoSubcategory,     \* null
  Blank,             \* a merchant without a name
  UnstorableNames,   \* merchants with a U+0000, which no `text` column takes
  MaxAmount,         \* 100_000_000 in the code
  MaxTransactions,   \* MAX_OCR_TRANSACTIONS, 100 in the code
  Malformed, Rejected

ASSUME OcrAssumption ==
  /\ MaxAmount \in Nat \ {0}
  /\ MaxTransactions \in Nat \ {0}
  /\ \A category \in DOMAIN SubcategoriesOf : Nashi \notin SubcategoriesOf[category]

\* The length of a month in the Gregorian calendar, of JavaScript's Date and
\* of PostgreSQL's date alike.
DaysIn(year, month) ==
  CASE month = 2 ->
         IF year % 4 = 0 /\ (year % 100 # 0 \/ year % 400 = 0) THEN 29 ELSE 28
    [] month \in {4, 6, 9, 11} -> 30
    [] OTHER -> 31

\* Date.UTC(year, month - 1, day): the years 0 to 99 stand for 1900 to 1999,
\* and the days that a month does not have run over into the next one.
DateUtc(date) ==
  LET year == IF date.year \in 0..99 THEN 1900 + date.year ELSE date.year
      length == DaysIn(year, date.month)
  IN  IF date.day <= length
      THEN [year |-> year, month |-> date.month, day |-> date.day]
      ELSE [year |-> year, month |-> date.month + 1, day |-> date.day - length]

\* Mutant of IsValidCalendarDate: any day that some month has.
IsParsableDate(date) == date.month \in 1..12 /\ date.day \in 1..31

IsValidCalendarDate(date) == DateUtc(date) = date

FourDigits == 0..9999

\* transactionBaseSchema without the categories.
ValidBase(line) ==
  /\ line.date.year \in FourDigits
  /\ line.date.month \in 1..12 /\ line.date.day \in 1..31
  /\ IsValidCalendarDate(line.date)
  /\ line.merchant # Blank
  /\ line.amount # 0
  /\ line.amount \in -MaxAmount..MaxAmount
  /\ line.category \in DOMAIN SubcategoriesOf
  /\ line.lineNumber \in 1..MaxTransactions

\* A category that has subcategories needs one of them, another needs Nashi.
ValidCategoryAndSubcategory(line) ==
  LET allowed == SubcategoriesOf[line.category] IN
  /\ line.subcategory \in allowed \union {Nashi}
  /\ allowed # {} => line.subcategory # Nashi

ValidLength(document) == Len(document) \in 1..MaxTransactions

\* Mutant of ValidLineNumbers: only neighbours are compared.
ValidNeighbours(document) ==
  \A i \in DOMAIN document :
    i + 1 \in DOMAIN document =>
      document[i].lineNumber # document[i + 1].lineNumber

ValidLineNumbers(document) ==
  \A i, j \in DOMAIN document :
    document[i].lineNumber = document[j].lineNumber => i = j

OcrToolInputSchema(document) ==
  /\ document # Malformed
  /\ ValidLength(document)
  /\ \A i \in DOMAIN document :
       ValidBase(document[i]) /\ ValidCategoryAndSubcategory(document[i])
  /\ ValidLineNumbers(document)

WithoutNashi(document) ==
  [i \in DOMAIN document |->
    IF document[i].subcategory = Nashi
    THEN [document[i] EXCEPT !.subcategory = NoSubcategory]
    ELSE document[i]]

OcrResultSchema(document) ==
  /\ ValidLength(document)
  /\ \A i \in DOMAIN document :
       /\ ValidBase(document[i])
       /\ document[i].subcategory \in
            SubcategoriesOf[document[i].category] \union {NoSubcategory}
  /\ ValidLineNumbers(document)

\* Mutant of ParseOcrToolInput: what the first schema passes is the result.
ParseAsGiven(document) == IF OcrToolInputSchema(document) THEN document ELSE Rejected

ParseOcrToolInput(document) ==
  IF OcrToolInputSchema(document) /\ OcrResultSchema(WithoutNashi(document))
  THEN WithoutNashi(document)
  ELSE Rejected

\* No INSERT of a line fails: its date exists, its texts can be stored, and
\* the CHECKs of the table hold.  That its number is taken is no failure.
Insertable(document) ==
  \A i \in DOMAIN document :
    /\ document[i].date.year >= 1
    /\ document[i].date.day \in
         1..DaysIn(document[i].date.year, document[i].date.month)
    /\ document[i].merchant \notin UnstorableNames
    /\ document[i].lineNumber > 0
    /\ document[i].amount # 0

\* The rows that the INSERTs leave, by line number: ON CONFLICT DO UPDATE
\* puts a line in place of an earlier one of its number.
Upserted(document) ==
  [n \in {document[i].lineNumber : i \in DOMAIN document} |->
    document[Max({i \in DOMAIN document : document[i].lineNumber = n})]]
=============================================================================
