----------------------------- MODULE AnalyzeJob -----------------------------
(***************************************************************************)
(* The worker's handler of one analyze job                                 *)
(* (src/worker/analyze-job-handler.ts) with the calls that the loop of     *)
(* src/worker/analyze-worker.ts makes before and after it.                 *)
(*                                                                         *)
(* An attempt is one delivery of a message and the invocation of the       *)
(* handler for it; the UUID the handler draws as processing token is the   *)
(* attempt itself.  Attempts of any number of workers interleave at every  *)
(* await.  An attempt that ends without deleting its message is "left":    *)
(* it returned RETRY, threw, was cut off by the shutdown deadline or died  *)
(* with its process; nothing that happens later tells these apart.         *)
(*                                                                         *)
(*   unused -> received -> claiming -> fetching -> analyzing -> saving     *)
(*                             |           |           |          |        *)
(*                         unclaimed       +-> failing +       rollback    *)
(*                             |                 |                         *)
(*                             |              marking                      *)
(*                             +---> acking <----+------- (from saving)    *)
(*                                     |                                   *)
(*                                   acked            left <- everywhere   *)
(***************************************************************************)
EXTENDS StatementStore, JobQueue, ObjectStore

CONSTANT NoMessage

VARIABLES
  pc,       \* pc[t]: where the handler is
  job,      \* job[t]: the received job
  asOf,     \* asOf[t]: NOW() of the statement or transaction in progress
  result,   \* result[t]: the lines recognised by OCR and saved or to be saved
  verdict,  \* verdict[t]: the failure code it is about to record
  txn       \* txn[t]: its transaction, as far as the server is concerned

jobVars == <<pc, job, asOf, result, verdict, txn>>

HandlerStates ==
  {"unused", "received", "claiming", "unclaimed", "fetching", "analyzing",
   "failing", "marking", "saving", "rollback", "acking", "acked", "left"}

\* A transaction that is open: not yet checked, found to have lost the claim,
\* found to hold it, with the lines written, with the completing UPDATE done,
\* and with a COMMIT sent whose answer was lost.
OpenTxn == {"begun", "doomed", "checked", "written", "completed", "inDoubt"}

NoJob == [message |-> NoMessage, stmt |-> NoStatement, receipt |-> 0]

Jobs ==
  [message: Messages \union {NoMessage},
   stmt: Statements \union {NoStatement},
   receipt: 0..MaxReceive]

JobTypeOK ==
  /\ pc \in [Attempts -> HandlerStates]
  /\ job \in [Attempts -> Jobs]
  /\ asOf \in [Attempts -> Nat]
  /\ result \in [Attempts -> SUBSET LineNumbers]
  /\ verdict \in [Attempts -> FailureCodes \union {NoFailure}]
  /\ txn \in [Attempts -> OpenTxn \union {"none", "aborted", "committed"}]

JobInit ==
  /\ pc = [t \in Attempts |-> "unused"]
  /\ job = [t \in Attempts |-> NoJob]
  /\ asOf = [t \in Attempts |-> 0]
  /\ result = [t \in Attempts |-> {}]
  /\ verdict = [t \in Attempts |-> NoFailure]
  /\ txn = [t \in Attempts |-> "none"]

\* The statement an attempt works on.
Stmt(t) == job[t].stmt

\* Attempt t passes from one state of the handler to another.
Goto(t, from, to) == pc[t] = from /\ pc' = [pc EXCEPT ![t] = to]

\* A statement or a transaction of attempt t begins: NOW() is fixed.
ReadNow(t) == asOf' = [asOf EXCEPT ![t] = now]

\* It is over.
ForgetNow(t) == asOf' = [asOf EXCEPT ![t] = 0]

-----------------------------------------------------------------------------
(* Receiving.                                                              *)

Receive(t, m) ==
  /\ Goto(t, "unused", "received")
  /\ Deliver(m)
  /\ job' = [job EXCEPT ![t] =
       [message |-> m, stmt |-> message[m].stmt, receipt |-> message[m].receives + 1]]
  /\ UNCHANGED <<asOf, result, verdict, txn, storeVars, objectVars>>

ReceiveJob(t, m) == Visible(m) /\ Receive(t, m) /\ UNCHANGED envVars

\* At-least-once delivery: the message is delivered while it is invisible.
ReceiveDuplicate(t, m) ==
  /\ message[m].place = "queue"
  /\ ~Visible(m)
  /\ Receive(t, m)
  /\ Fault

-----------------------------------------------------------------------------
(* Claiming the statement.                                                 *)

SendClaim(t) ==
  /\ Goto(t, "received", "claiming")
  /\ ReadNow(t)
  /\ UNCHANGED <<job, result, verdict, txn, storeVars, message, objectVars, envVars>>

Claim(t) ==
  /\ pc[t] = "claiming"
  /\ Unlocked(Stmt(t))
  /\ row' = ClaimForProcessing(Stmt(t), t, asOf[t])
  /\ \/ Claimable(Stmt(t), asOf[t]) /\ Goto(t, "claiming", "fetching")
     \/ ~Claimable(Stmt(t), asOf[t]) /\ Goto(t, "claiming", "unclaimed")
  /\ ForgetNow(t)
  /\ UNCHANGED <<lines, lockedBy, orphans, job, result, verdict, txn,
                 message, objectVars, envVars>>

\* Mutant of ResolveUnclaimedJob: a job somebody else works on is acknowledged.
AcknowledgeUnclaimedJob(t) ==
  /\ Goto(t, "unclaimed", "acking")
  /\ UNCHANGED <<job, asOf, result, verdict, txn, storeVars, message, objectVars,
                 envVars>>

\* Nothing to claim: read the status again and acknowledge a job that is done.
ResolveUnclaimedJob(t) ==
  /\ \/ /\ Goto(t, "unclaimed", "acking")
        /\ row[Stmt(t)].status \in Terminal \union {"ABSENT"}
     \/ /\ Goto(t, "unclaimed", "left")
        /\ row[Stmt(t)].status \notin Terminal \union {"ABSENT"}
  /\ UNCHANGED <<job, asOf, result, verdict, txn, storeVars, message, objectVars,
                 envVars>>

-----------------------------------------------------------------------------
(* Reading and recognising the image.                                      *)

\* A permanent error of the stage `from`, with the code it is classified as.
\* (A retryable one is Abandon.)
FailPermanently(t, from, code) ==
  /\ Goto(t, from, "failing")
  /\ verdict' = [verdict EXCEPT ![t] = code]

FetchObject(t) ==
  /\ \/ /\ Goto(t, "fetching", "analyzing")
        /\ ObjectFound(Stmt(t)) /\ BodyMatches(Stmt(t))
        /\ UNCHANGED verdict
     \/ /\ FailPermanently(t, "fetching", "SOURCE_OBJECT_NOT_FOUND")
        /\ ~ObjectFound(Stmt(t))
     \/ /\ FailPermanently(t, "fetching", "SOURCE_OBJECT_INVALID")
        /\ ObjectFound(Stmt(t)) /\ ~BodyMatches(Stmt(t))
  /\ UNCHANGED <<job, asOf, result, txn, storeVars, message, objectVars, envVars>>

\* A valid answer of the OCR: at least one line, no number twice.
Recognised == (SUBSET LineNumbers) \ {{}}

\* Bedrock answers with lines, or the failure is permanent.
AnalyzeImage(t) ==
  /\ \/ /\ Goto(t, "analyzing", "saving")
        /\ \E found \in Recognised : result' = [result EXCEPT ![t] = found]
        /\ UNCHANGED verdict
     \/ FailPermanently(t, "analyzing", "OCR_FAILED") /\ UNCHANGED result
  /\ UNCHANGED <<job, asOf, txn, storeVars, message, objectVars, envVars>>

-----------------------------------------------------------------------------
(* Recording a permanent failure.                                          *)

SendMarkFailed(t) ==
  /\ Goto(t, "failing", "marking")
  /\ ReadNow(t)
  /\ UNCHANGED <<job, result, verdict, txn, storeVars, message, objectVars, envVars>>

\* Mutant of RecordFailure: the answer that no row matched is not looked at.
RecordFailureAnyway(t) ==
  /\ Goto(t, "marking", "acking")
  /\ Unlocked(Stmt(t))
  /\ row' = MarkFailed(Stmt(t), t, asOf[t], verdict[t])
  /\ ForgetNow(t)
  /\ verdict' = [verdict EXCEPT ![t] = NoFailure]
  /\ UNCHANGED <<lines, lockedBy, orphans, job, result, txn, message, objectVars,
                 envVars>>

RecordFailure(t) ==
  /\ pc[t] = "marking"
  /\ Unlocked(Stmt(t))
  /\ row' = MarkFailed(Stmt(t), t, asOf[t], verdict[t])
  /\ \/ Owns(Stmt(t), t, asOf[t]) /\ Goto(t, "marking", "acking")
     \/ ~Owns(Stmt(t), t, asOf[t]) /\ Goto(t, "marking", "left")
  /\ ForgetNow(t)
  /\ verdict' = [verdict EXCEPT ![t] = NoFailure]
  /\ UNCHANGED <<lines, lockedBy, orphans, job, result, txn, message, objectVars,
                 envVars>>

-----------------------------------------------------------------------------
(* saveTransactionsAndComplete.  What the transaction has written stays    *)
(* its own until it commits, so the upserts are still just `result` here.  *)

AdvanceTxn(t, from, to) ==
  /\ pc[t] = "saving"
  /\ txn[t] = from
  /\ txn' = [txn EXCEPT ![t] = to]

\* A check of the claim inside the transaction: on failure, roll back.
CheckClaim(t, from, to) ==
  \/ /\ AdvanceTxn(t, from, to)
     /\ Owns(Stmt(t), t, asOf[t])
     /\ UNCHANGED pc
  \/ /\ AdvanceTxn(t, from, "doomed")
     /\ ~Owns(Stmt(t), t, asOf[t])
     /\ Goto(t, "saving", "rollback")

Unlock(t) ==
  lockedBy' = [lockedBy EXCEPT ![Stmt(t)] = IF @ = t THEN NoAttempt ELSE @]

\* The server commits: statement and lines change together.
CommitTxn(t) ==
  /\ row' = CompletedRow(Stmt(t))
  /\ lines' = UpsertLines(Stmt(t), t, result[t])
  /\ Unlock(t)
  /\ txn' = [txn EXCEPT ![t] = "committed"]
  /\ ForgetNow(t)
  /\ UNCHANGED <<orphans, job, result, verdict, message, objectVars, envVars>>

\* The server aborts: nothing remains of the transaction.
AbortTxn(t) ==
  /\ txn[t] \in OpenTxn
  /\ Unlock(t)
  /\ txn' = [txn EXCEPT ![t] = "aborted"]
  /\ ForgetNow(t)
  /\ result' = [result EXCEPT ![t] = {}]
  /\ UNCHANGED <<row, lines, orphans, job, verdict, message, objectVars, envVars>>

BeginSave(t) ==
  /\ AdvanceTxn(t, "none", "begun")
  /\ ReadNow(t)
  /\ UNCHANGED <<pc, job, result, verdict, storeVars, message, objectVars, envVars>>

\* SELECT ... FOR UPDATE waits for the row and sees its newest version.
LockStatement(t) ==
  /\ CheckClaim(t, "begun", "checked")
  /\ Unlocked(Stmt(t))
  /\ lockedBy' = [lockedBy EXCEPT ![Stmt(t)] = t]
  /\ UNCHANGED <<row, lines, orphans, job, asOf, result, verdict, message,
                 objectVars, envVars>>

\* Mutant of WriteLines: the upserts run outside the transaction.
WriteLinesAtOnce(t) ==
  /\ AdvanceTxn(t, "checked", "written")
  /\ lines' = UpsertLines(Stmt(t), t, result[t])
  /\ UNCHANGED <<pc, job, asOf, result, verdict, row, lockedBy, orphans, message,
                 objectVars, envVars>>

WriteLines(t) ==
  /\ AdvanceTxn(t, "checked", "written")
  /\ UNCHANGED <<pc, job, asOf, result, verdict, storeVars, message, objectVars,
                 envVars>>

\* The completing UPDATE repeats the check, at the NOW() of the BEGIN.
CompleteStatement(t) ==
  /\ AdvanceTxn(t, "written", IF Owns(Stmt(t), t, asOf[t]) THEN "completed" ELSE "doomed")
  /\ pc' = [pc EXCEPT ![t] = IF Owns(Stmt(t), t, asOf[t]) THEN "saving" ELSE "rollback"]
  /\ UNCHANGED <<job, asOf, result, verdict, storeVars, message, objectVars, envVars>>

Commit(t) ==
  /\ txn[t] = "completed"
  /\ Goto(t, "saving", "acking")
  /\ CommitTxn(t)

\* The connection whose COMMIT is in doubt has nothing left to roll back.
Rollback(t) ==
  /\ Goto(t, "rollback", "left")
  /\ \/ txn[t] # "inDoubt" /\ AbortTxn(t)
     \/ /\ txn[t] = "inDoubt"
        /\ UNCHANGED <<job, asOf, result, verdict, txn, storeVars, message,
                       objectVars, envVars>>

\* A query of the transaction fails.  If it was the COMMIT, nobody knows
\* whether the server has committed, or still will.
SaveFails(t) ==
  /\ Goto(t, "saving", "rollback")
  /\ \/ txn[t] \in {"begun", "checked", "written"} /\ UNCHANGED txn
     \/ AdvanceTxn(t, "completed", "inDoubt")
  /\ Fault
  /\ UNCHANGED <<job, asOf, result, verdict, storeVars, message, objectVars>>

\* ROLLBACK fails too; the server finds out by itself.
RollbackFails(t) ==
  /\ Goto(t, "rollback", "left")
  /\ txn[t] # "inDoubt"
  /\ Fault
  /\ UNCHANGED <<job, asOf, result, verdict, txn, storeVars, message, objectVars>>

\* The server settles the transaction of an attempt that is gone.
AbortOrphanTxn(t) == pc[t] = "left" /\ AbortTxn(t) /\ UNCHANGED pc

CommitInDoubt(t) == txn[t] = "inDoubt" /\ CommitTxn(t) /\ UNCHANGED pc

-----------------------------------------------------------------------------
(* Deleting the message, and leaving it.                                   *)

DeleteJob(t) ==
  /\ Goto(t, "acking", "acked")
  /\ DeleteMessage(job[t].message, job[t].receipt)
  /\ UNCHANGED <<job, asOf, result, verdict, txn, storeVars, objectVars, envVars>>

\* The autocommit statement attempt t is waiting for.
CallInFlight(t) ==
  CASE pc[t] = "claiming" -> {Orphan("claim", Stmt(t), t, asOf[t], NoFailure)}
    [] pc[t] = "marking"  -> {Orphan("markFailed", Stmt(t), t, asOf[t], verdict[t])}
    [] OTHER              -> {}

\* A call fails and the handler answers RETRY or throws, the delete fails,
\* the shutdown deadline passes or the process dies.
Abandon(t) ==
  /\ pc[t] \notin {"unused", "acked", "left"}
  /\ pc' = [pc EXCEPT ![t] = "left"]
  /\ orphans' = orphans \union CallInFlight(t)
  /\ txn' = [txn EXCEPT ![t] = IF @ = "completed" THEN "inDoubt" ELSE @]
  /\ asOf' = [asOf EXCEPT ![t] = IF txn[t] = "none" THEN 0 ELSE @]
  /\ result' = [result EXCEPT ![t] = IF txn[t] = "none" THEN {} ELSE @]
  /\ verdict' = [verdict EXCEPT ![t] = NoFailure]
  /\ Fault
  /\ UNCHANGED <<row, lines, lockedBy, job, message, objectVars>>

-----------------------------------------------------------------------------
\* What the handler and the worker around it do by themselves.
JobStep(t) ==
  \/ SendClaim(t)
  \/ Claim(t)
  \/ ResolveUnclaimedJob(t)
  \/ FetchObject(t)
  \/ AnalyzeImage(t)
  \/ SendMarkFailed(t)
  \/ RecordFailure(t)
  \/ BeginSave(t)
  \/ LockStatement(t)
  \/ WriteLines(t)
  \/ CompleteStatement(t)
  \/ Commit(t)
  \/ Rollback(t)
  \/ DeleteJob(t)

\* What the database does for an attempt that does not wait for it.
TxnSettles(t) == AbortOrphanTxn(t) \/ CommitInDoubt(t)

\* What goes wrong.
JobFault(t) == Abandon(t) \/ SaveFails(t) \/ RollbackFails(t)
=============================================================================
