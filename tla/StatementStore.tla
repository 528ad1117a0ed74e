--------------------------- MODULE StatementStore ---------------------------
(***************************************************************************)
(* The tables `statements` and `transactions` of PostgreSQL and the SQL of *)
(* src/database/statement-repository.ts.                                   *)
(*                                                                         *)
(* A single UPDATE commits by itself and is atomic, but its caller may not *)
(* learn what became of it: a call that fails (a lost connection, the 2 s  *)
(* query_timeout of the API's pool) leaves its statement in `orphans`, and *)
(* the server runs it later or never.  An UPDATE that meets a locked row   *)
(* waits, while the NOW() of its own transaction stands still: every       *)
(* statement that reads NOW() carries the time `at` it began.              *)
(*                                                                         *)
(* The one multi-statement transaction, saveTransactionsAndComplete, is    *)
(* run step by step by AnalyzeJob; it holds `lockedBy[s]` from its SELECT  *)
(* ... FOR UPDATE to its end.                                              *)
(***************************************************************************)
EXTENDS Environment, FiniteSets

CONSTANTS
  LineNumbers,  \* line numbers of a statement's transactions
  Attempts,     \* handler invocations; each is also its processing token
  NoAttempt,    \* NULL as a processing token, and the free row lock
  LeaseTime     \* PROCESSING_LEASE_SECONDS

ASSUME StoreAssumption ==
  /\ NoAttempt \notin Attempts
  /\ LeaseTime \in Nat \ {0}

VARIABLES
  row,       \* row[s]: the row of `statements`
  lines,     \* lines[s][n]: the attempt that wrote line n, as committed
  lockedBy,  \* lockedBy[s]: the attempt whose transaction locks the row
  orphans    \* autocommit statements whose caller has given up

storeVars == <<row, lines, lockedBy, orphans>>

Statuses ==
  {"ABSENT", "UPLOAD_PENDING", "UPLOADED", "QUEUED", "PROCESSING",
   "COMPLETED", "FAILED"}

Terminal == {"COMPLETED", "FAILED"}

\* The three codes of the OCR stage (UNSUPPORTED_IMAGE, INVALID_OCR_RESPONSE,
\* OCR_NON_RETRYABLE) lead to the same steps and are one value here.
FailureCodes == {"SOURCE_OBJECT_NOT_FOUND", "SOURCE_OBJECT_INVALID", "OCR_FAILED"}
NoFailure == "none"

Tokens == Attempts \union {NoAttempt}
NoLease == 0   \* NULL as a lease: a granted lease ends after time 0

Rows ==
  [status: Statuses, token: Tokens, lease: Nat,
   failure: FailureCodes \union {NoFailure}]

NoRow ==
  [status |-> "ABSENT", token |-> NoAttempt, lease |-> NoLease,
   failure |-> NoFailure]

NoLines == [n \in LineNumbers |-> NoAttempt]

AutocommitOps == {"claim", "markFailed", "markUploaded", "markQueued", "reset"}

Orphan(op, s, t, at, code) ==
  [op |-> op, stmt |-> s, token |-> t, at |-> at, code |-> code]

Orphans ==
  [op: AutocommitOps, stmt: Statements, token: Tokens, at: Nat,
   code: FailureCodes \union {NoFailure}]

StoreTypeOK ==
  /\ row \in [Statements -> Rows]
  /\ lines \in [Statements -> [LineNumbers -> Tokens]]
  /\ lockedBy \in [Statements -> Tokens]
  /\ orphans \subseteq Orphans

StoreInit ==
  /\ row = [s \in Statements |-> NoRow]
  /\ lines = [s \in Statements |-> NoLines]
  /\ lockedBy = [s \in Statements |-> NoAttempt]
  /\ orphans = {}

Unlocked(s) == lockedBy[s] = NoAttempt

-----------------------------------------------------------------------------
(* The WHERE clauses that are more than a status.                          *)

\* Mutant of Claimable: a lease that is still good does not keep others out.
ClaimableUnderLease(s, at) == row[s].status \in {"QUEUED", "PROCESSING"}

\* Mutant of Claimable: a failed statement may be tried again.
ClaimableAfterFailure(s, at) ==
  \/ row[s].status \in {"QUEUED", "FAILED"}
  \/ row[s].status = "PROCESSING" /\ row[s].lease < at

\* claimForProcessing: a queued statement, or one whose lease has run out.
Claimable(s, at) ==
  \/ row[s].status = "QUEUED"
  \/ row[s].status = "PROCESSING" /\ row[s].lease < at

\* Mutant of Owns: a lease is enough, whoever holds it.
OwnsWithoutToken(s, t, at) == row[s].status = "PROCESSING" /\ row[s].lease > at

\* markFailed and saveTransactionsAndComplete: the token matches and its
\* lease is still good at the NOW() of the transaction.
Owns(s, t, at) ==
  /\ row[s].status = "PROCESSING"
  /\ row[s].token = t
  /\ row[s].lease > at

-----------------------------------------------------------------------------
(* The table `statements` after each statement.  Where the WHERE clause    *)
(* matches no row the table is as it was.                                  *)

SetStatus(s, from, to) ==
  IF row[s].status = from THEN [row EXCEPT ![s].status = to] ELSE row

Create(s) ==
  [row EXCEPT ![s] = [NoRow EXCEPT !.status = "UPLOAD_PENDING"]]

MarkUploaded(s) == SetStatus(s, "UPLOAD_PENDING", "UPLOADED")

MarkQueued(s) == SetStatus(s, "UPLOADED", "QUEUED")

\* Mutant of ResetQueuedToUploaded: no test of the status.
ResetToUploaded(s) == [row EXCEPT ![s].status = "UPLOADED"]

ResetQueuedToUploaded(s) == SetStatus(s, "QUEUED", "UPLOADED")

\* Mutant of ClaimForProcessing: the lease is set back instead of forward.
ClaimForProcessingBackdated(s, t, at) ==
  IF Claimable(s, at)
  THEN [row EXCEPT ![s] = [@ EXCEPT !.status = "PROCESSING",
                                    !.token = t,
                                    !.lease = at - LeaseTime]]
  ELSE row

ClaimForProcessing(s, t, at) ==
  IF Claimable(s, at)
  THEN [row EXCEPT ![s] = [@ EXCEPT !.status = "PROCESSING",
                                    !.token = t,
                                    !.lease = at + LeaseTime]]
  ELSE row

\* Mutant of MarkFailed: the token is not compared.
MarkFailedOfAnyone(s, t, at, code) ==
  IF OwnsWithoutToken(s, t, at)
  THEN [row EXCEPT ![s] = [@ EXCEPT !.status = "FAILED",
                                    !.token = NoAttempt,
                                    !.lease = NoLease,
                                    !.failure = code]]
  ELSE row

MarkFailed(s, t, at, code) ==
  IF Owns(s, t, at)
  THEN [row EXCEPT ![s] = [@ EXCEPT !.status = "FAILED",
                                    !.token = NoAttempt,
                                    !.lease = NoLease,
                                    !.failure = code]]
  ELSE row

\* The completing UPDATE; the transaction that holds the row lock runs it.
CompletedRow(s) ==
  [row EXCEPT ![s] = [@ EXCEPT !.status = "COMPLETED",
                               !.token = NoAttempt,
                               !.lease = NoLease,
                               !.failure = NoFailure]]

\* The upserts of the lines an attempt recognised: a line that is already
\* there is overwritten, one that the attempt did not recognise is kept.
UpsertLines(s, t, recognised) ==
  [lines EXCEPT ![s] = [n \in LineNumbers |-> IF n \in recognised THEN t ELSE @[n]]]

-----------------------------------------------------------------------------
(* Statements without a caller.                                            *)

Effect(o) ==
  CASE o.op = "claim"        -> ClaimForProcessing(o.stmt, o.token, o.at)
    [] o.op = "markFailed"   -> MarkFailed(o.stmt, o.token, o.at, o.code)
    [] o.op = "markUploaded" -> MarkUploaded(o.stmt)
    [] o.op = "markQueued"   -> MarkQueued(o.stmt)
    [] o.op = "reset"        -> ResetQueuedToUploaded(o.stmt)

\* The server runs the statement all the same, as soon as the row is free.
RunOrphan(o) ==
  /\ Unlocked(o.stmt)
  /\ row' = Effect(o)
  /\ orphans' = orphans \ {o}
  /\ UNCHANGED <<lines, lockedBy>>

\* It never reached the server.
DropOrphan(o) ==
  /\ orphans' = orphans \ {o}
  /\ UNCHANGED <<row, lines, lockedBy>>
=============================================================================
