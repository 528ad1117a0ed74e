CONSTANTS
  Food = food  Travel = travel  Eatout = eatout  M1 = m1  M2 = m2
  SubcategoriesOf <- MCSubcategoriesOf
  Nashi = nashi  NoSubcategory = noSubcategory  Blank = blank
  M3 = m3  UnstorableNames = {m3}
  MaxAmount = 2000  MaxTransactions = 3
  Malformed = malformed  Rejected = rejected
  Null = null  Absent = absent  Unreadable = unreadable
  LongNames = {m1}
  MaxInsights = 2
  Statements = {s1, s2, s3}
  Documents <- MCDocuments
  InsightsDocuments <- MCInsightsDocuments
  Years = {2000, 2001}
  InsightMonths <- MCInsightMonths
  NoInsights = noInsights
SPECIFICATION Spec
SYMMETRY Symmetry
INVARIANTS TypeOK NoLineIsLost OnlyNulIsRefused EachLineCountsOnce MonthsAgree
  SharesAddUp IncreaseIsReal FoundIsUsable
