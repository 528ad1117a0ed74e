------------------------ MODULE StatementSystemProofs ------------------------
(***************************************************************************)
(* The safety of StatementSystem, for every value of the constants:        *)
(* SafetyInv is inductive, and with it come AckOnlySettled,                *)
(* LinesOfOneAttempt, TerminalIsFinal, OnlyTheHolderWrites and             *)
(* LeaseIsExclusive.                                                       *)
(*                                                                         *)
(* The argument turns on what one step can do to the row of one statement  *)
(* (RowMove): almost nothing, and to a locked row only a commit of the     *)
(* transaction that locks it.                                              *)
(***************************************************************************)
EXTENDS StatementSystemTypes

Early == {"ABSENT", "UPLOAD_PENDING", "UPLOADED", "QUEUED"}

\* Transaction t, which locks its row, commits.
CommitOf(t) == txn[t] \in {"completed", "inDoubt"} /\ CommitTxn(t)

\* What a step may do to the row of s.
RowMove(s) ==
  \/ row'[s] = row[s]
  \/ row[s].status \in Early /\ row'[s].status \notin Terminal \union {"ABSENT"}
  \/ /\ row[s].status = "PROCESSING"
     /\ Unlocked(s)
     /\ \/ row[s].lease < now /\ row'[s].status = "PROCESSING"
        \/ row'[s].status = "FAILED" /\ ActsFor(row[s].token)
  \/ /\ row[s].status = "PROCESSING"
     /\ row'[s].status = "COMPLETED"
     /\ \E t \in Attempts : Stmt(t) = s /\ CommitOf(t)

-----------------------------------------------------------------------------
(* The row after each operation of the store.                              *)

\* An UPDATE of the API moves a statement that no worker has taken.
LEMMA SetStatusMove ==
  ASSUME StoreTypeOK, NEW q \in Statements, NEW from \in Early,
         NEW to \in {"UPLOADED", "QUEUED"}, row' = SetStatus(q, from, to),
         NEW s \in Statements
  PROVE  RowMove(s)
BY DEF SetStatus, StoreTypeOK, Rows, RowMove, Early, Terminal

\* So do the INSERT and the three UPDATEs.
LEMMA ApiUpdateMove ==
  ASSUME StoreTypeOK, NEW q \in Statements,
         \/ row' = MarkUploaded(q)
         \/ row' = MarkQueued(q)
         \/ row' = ResetQueuedToUploaded(q)
         \/ row[q].status = "ABSENT" /\ row' = Create(q),
         NEW s \in Statements
  PROVE  RowMove(s)
<1>1. CASE row[q].status = "ABSENT" /\ row' = Create(q)
  BY <1>1 DEF Create, NoRow, StoreTypeOK, RowMove, Early, Terminal
<1>2. CASE row' \in {MarkUploaded(q), MarkQueued(q), ResetQueuedToUploaded(q)}
  BY <1>2, SetStatusMove DEF MarkUploaded, MarkQueued, ResetQueuedToUploaded, Early
<1> QED BY <1>1, <1>2

\* A claim moves a statement nobody has taken, or one whose lease has run out.
LEMMA ClaimMove ==
  ASSUME StoreTypeOK, EnvTypeOK, NEW q \in Statements, NEW t \in Tokens, NEW at \in Nat,
         at <= now, Unlocked(q), row' = ClaimForProcessing(q, t, at), NEW s \in Statements
  PROVE  RowMove(s)
<1>1. CASE ~Claimable(q, at)
  BY <1>1 DEF ClaimForProcessing, RowMove
<1>2. CASE Claimable(q, at) /\ s # q
  BY <1>2 DEF ClaimForProcessing, RowMove, StoreTypeOK
<1>3. CASE Claimable(q, at) /\ s = q
  <2>1. row'[q].status = "PROCESSING"
    BY <1>3 DEF ClaimForProcessing, StoreTypeOK, Rows
  <2>2. row[q].lease \in Nat
    BY DEF StoreTypeOK, Rows
  <2>3. \/ row[q].status = "QUEUED"
        \/ row[q].status = "PROCESSING" /\ row[q].lease < now
    BY <1>3, <2>2 DEF Claimable, EnvTypeOK
  <2> QED BY <1>3, <2>1, <2>3 DEF RowMove, Early, Terminal
<1> QED BY <1>1, <1>2, <1>3

\* A failure is recorded for a statement in PROCESSING by a step for its holder.
LEMMA FailMove ==
  ASSUME StoreTypeOK, NEW q \in Statements, NEW t, NEW at, NEW code, ActsFor(t),
         Unlocked(q), row' = MarkFailed(q, t, at, code), NEW s \in Statements
  PROVE  RowMove(s)
<1>1. CASE ~Owns(q, t, at)
  BY <1>1 DEF MarkFailed, RowMove
<1>2. CASE Owns(q, t, at) /\ s # q
  BY <1>2 DEF MarkFailed, RowMove, StoreTypeOK
<1>3. CASE Owns(q, t, at) /\ s = q
  <2>1. row'[q].status = "FAILED"
    BY <1>3 DEF MarkFailed, StoreTypeOK, Rows
  <2> QED BY <1>3, <2>1 DEF RowMove, Owns
<1> QED BY <1>1, <1>2, <1>3

\* A commit completes the statement of the transaction, which holds it.
LEMMA CommitMove ==
  ASSUME StoreTypeOK, SaverHoldsClaim, NEW t \in Attempts, CommitOf(t), NEW s \in Statements
  PROVE  RowMove(s)
<1>1. CASE s # Stmt(t)
  BY <1>1 DEF CommitOf, CommitTxn, CompletedRow, StoreTypeOK, RowMove
<1>2. CASE s = Stmt(t)
  <2>1. row[s].status = "PROCESSING"
    BY <1>2 DEF CommitOf, SaverHoldsClaim, SaveStates
  <2>2. row'[s].status = "COMPLETED"
    BY <1>2 DEF CommitOf, CommitTxn, CompletedRow, StoreTypeOK, Rows
  <2> QED BY <1>2, <2>1, <2>2 DEF RowMove
<1> QED BY <1>1, <1>2

-----------------------------------------------------------------------------
(* What a step does to rows and to locks.                                  *)

\* An orphan does to the row what its caller would have done.
LEMMA OrphanMove ==
  ASSUME TypeOK, ClockIsAhead, NEW o \in orphans, OrphanStep(o), NEW s \in Statements
  PROVE  RowMove(s)
<1> USE DEF TypeOK
<1>1. o \in Orphans /\ o.at <= now
  BY DEF StoreTypeOK, ClockIsAhead
<1>2. CASE DropOrphan(o)
  BY <1>2 DEF DropOrphan, RowMove
<1>3. CASE RunOrphan(o)
  <2>1. row' = Effect(o) /\ Unlocked(o.stmt)
    BY <1>3 DEF RunOrphan
  <2>2. CASE o.op = "claim"
    BY <1>1, <2>1, <2>2, ClaimMove DEF Effect, Orphans
  <2>3. CASE o.op = "markFailed"
    <3>1. ActsFor(o.token)
      BY <1>3 DEF ActsFor, RunOrphan
    <3> QED BY <1>1, <2>1, <2>3, <3>1, FailMove DEF Effect, Orphans
  <2>4. CASE o.op \in {"markUploaded", "markQueued", "reset"}
    BY <1>1, <2>1, <2>4, ApiUpdateMove DEF Effect, Orphans
  <2> QED BY <1>1, <2>2, <2>3, <2>4 DEF Orphans, AutocommitOps
<1> QED BY <1>2, <1>3 DEF OrphanStep

\* The steps that leave every row, and all lines, alone.
LEMMA SameRows ==
  ASSUME UNCHANGED row, NEW s \in Statements
  PROVE  RowMove(s)
BY DEF RowMove

\* No step does anything else to a row than RowMove says.
LEMMA NextMovesRows ==
  ASSUME TypeOK, WorkIsBound, ClockIsAhead, SaverHoldsClaim, [Next]_vars,
         NEW s \in Statements
  PROVE  RowMove(s)
<1> USE DEF storeVars, objectVars
<1>1. CASE UNCHANGED vars \/ Tick \/ \E m \in Messages : Redrive(m) \/ RetentionEnds(m)
  BY <1>1, SameRows DEF vars, Tick, Redrive, RetentionEnds
<1>2. ASSUME NEW o \in orphans, OrphanStep(o) PROVE RowMove(s)
  BY <1>2, OrphanMove
<1>3. ASSUME NEW q \in Statements, ClientStep(q) PROVE RowMove(s)
  <2>1. CASE CreateStatement(q)
    BY <2>1, ApiUpdateMove DEF CreateStatement, TypeOK
  <2>2. CASE UNCHANGED row
    BY <2>2, SameRows
  <2> QED BY <1>3, <2>1, <2>2
          DEF ClientStep, ChangeObject, Arrival, StartComplete, StartAnalyze, Start
<1>4. ASSUME NEW r \in Requests, RequestStep(r) \/ RequestFault(r) PROVE RowMove(s)
  <2>1. target[r] \in Statements
    BY DEF TypeOK, ApiTypeOK
  <2>2. CASE CompleteUpload(r) \/ Enqueue(r) \/ ResetStatement(r)
    BY <2>1, <2>2, ApiUpdateMove DEF CompleteUpload, Enqueue, ResetStatement, TypeOK
  <2>3. CASE UNCHANGED row
    BY <2>3, SameRows
  <2> QED BY <1>4, <2>2, <2>3
          DEF RequestStep, RequestFault, HeadObject, SendJob, SendFails, AbandonRequest
<1>5. ASSUME NEW t \in Attempts, WorkerStep(t) PROVE RowMove(s)
  <2>1. asOf[t] \in Nat /\ asOf[t] <= now /\ t \in Tokens
    BY DEF TypeOK, JobTypeOK, ClockIsAhead, Tokens
  <2>2. pc[t] # "unused" => Stmt(t) \in Statements
    BY DEF WorkIsBound
  <2>3. CASE Claim(t)
    BY <2>1, <2>2, <2>3, ClaimMove DEF Claim, TypeOK
  <2>4. CASE RecordFailure(t)
    <3>1. ActsFor(t)
      BY <2>4 DEF ActsFor, RecordFailure, Goto, TypeOK, JobTypeOK
    <3> QED BY <2>2, <2>4, <3>1, FailMove DEF RecordFailure, TypeOK
  <2>5. CASE CommitOf(t)
    BY <2>5, CommitMove DEF TypeOK
  <2>6. CASE UNCHANGED row
    BY <2>6, SameRows
  <2>7. CASE Commit(t) \/ TxnSettles(t) \/ Rollback(t)
    BY <2>5, <2>6, <2>7
    DEF Commit, TxnSettles, AbortOrphanTxn, CommitInDoubt, CommitOf, Rollback, AbortTxn
  <2>8. CASE \/ SendClaim(t) \/ ResolveUnclaimedJob(t) \/ FetchObject(t) \/ AnalyzeImage(t)
             \/ SendMarkFailed(t) \/ BeginSave(t) \/ LockStatement(t) \/ WriteLines(t)
             \/ CompleteStatement(t) \/ DeleteJob(t)
    BY <2>6, <2>8 DEF SendClaim, ResolveUnclaimedJob, FetchObject, FailPermanently,
        AnalyzeImage, SendMarkFailed, BeginSave, LockStatement, WriteLines, CompleteStatement, DeleteJob
  <2> QED BY <1>5, <2>3, <2>4, <2>7, <2>8 DEF WorkerStep, JobStep
<1>6. ASSUME NEW t \in Attempts,
             JobFault(t) \/ \E m \in Messages : ReceiveJob(t, m) \/ ReceiveDuplicate(t, m)
      PROVE  RowMove(s)
  BY <1>6, SameRows DEF JobFault, Abandon, SaveFails, RollbackFails, ReceiveJob,
     ReceiveDuplicate, Receive
<1>7. CASE Failure
  BY <1>1, <1>4, <1>6, <1>7 DEF Failure
<1>8. CASE Backend
  BY <1>1, <1>2, <1>4, <1>5, <1>6, <1>7, <1>8 DEF Backend, ApiStep, WorkerReceives
<1> QED BY <1>1, <1>3, <1>8 DEF Next

-----------------------------------------------------------------------------
(* What a step does to lines, to locks and to the other attempts.          *)

\* The step of attempt t, whatever it is.
ActionOf(t) ==
  \/ WorkerStep(t)
  \/ JobFault(t)
  \/ \E m \in Messages : ReceiveJob(t, m) \/ ReceiveDuplicate(t, m)

\* A step that is of no attempt leaves the attempts, the locks and the lines
\* alone, and so does an attempt what belongs to the others.
LEMMA NextByAttempt ==
  ASSUME TypeOK, [Next]_vars
  PROVE  \/ UNCHANGED <<jobVars, lockedBy, lines>>
         \/ \E t \in Attempts : ActionOf(t) /\ UNCHANGED apiVars
<1> USE DEF storeVars
<1>1. CASE UNCHANGED vars \/ Tick \/ \E m \in Messages : Redrive(m) \/ RetentionEnds(m)
  BY <1>1 DEF vars, Tick, Redrive, RetentionEnds
<1>2. ASSUME NEW o \in orphans, OrphanStep(o) PROVE UNCHANGED <<jobVars, lockedBy, lines>>
  BY <1>2 DEF OrphanStep, RunOrphan, DropOrphan
<1>3. ASSUME NEW q \in Statements, ClientStep(q) PROVE UNCHANGED <<jobVars, lockedBy, lines>>
  BY <1>3 DEF ClientStep, CreateStatement, ChangeObject, Arrival, StartComplete,
      StartAnalyze,
     Start
<1>4. ASSUME NEW r \in Requests, RequestStep(r) \/ RequestFault(r), UNCHANGED jobVars
      PROVE  UNCHANGED <<jobVars, lockedBy, lines>>
  BY <1>4 DEF RequestStep, RequestFault, HeadObject, CompleteUpload, Enqueue, SendJob,
     ResetStatement, SendFails, AbandonRequest
<1>5. CASE Failure
  BY <1>1, <1>4, <1>5 DEF Failure, ActionOf
<1>6. ASSUME NEW t \in Attempts, WorkerStep(t) PROVE ActionOf(t) /\ UNCHANGED apiVars
  BY <1>6 DEF WorkerStep, ActionOf
<1>7. CASE Backend
  BY <1>1, <1>2, <1>4, <1>5, <1>6, <1>7 DEF Backend, ApiStep, WorkerReceives, ActionOf
<1> QED BY <1>1, <1>3, <1>7 DEF Next

\* A step of one attempt is not seen by another, which keeps its row lock too.
LEMMA OthersUntouched ==
  ASSUME TypeOK, NEW t \in Attempts, ActionOf(t), NEW u \in Attempts \ {t}
  PROVE  /\ pc'[u] = pc[u] /\ job'[u] = job[u] /\ asOf'[u] = asOf[u]
         /\ result'[u] = result[u] /\ txn'[u] = txn[u]
         /\ \A s \in Statements : lockedBy[s] = u => lockedBy'[s] = u
<1> USE DEF TypeOK, JobTypeOK, StoreTypeOK, Goto, ReadNow, ForgetNow, AdvanceTxn, storeVars
<1>1. u # NoAttempt
  BY StoreAssumption
<1>2. CASE \/ SendClaim(t) \/ Claim(t) \/ ResolveUnclaimedJob(t) \/ FetchObject(t)
           \/ AnalyzeImage(t) \/ SendMarkFailed(t) \/ RecordFailure(t) \/ DeleteJob(t)
  BY <1>2 DEF SendClaim, Claim, ResolveUnclaimedJob, FetchObject, FailPermanently,
      AnalyzeImage, SendMarkFailed,
     RecordFailure, DeleteJob
<1>3. CASE BeginSave(t) \/ LockStatement(t) \/ WriteLines(t) \/ CompleteStatement(t)
  BY <1>1, <1>3 DEF BeginSave, LockStatement, WriteLines, CompleteStatement,
      CheckClaim, Unlocked
<1>4. CASE Commit(t) \/ Rollback(t) \/ TxnSettles(t)
  BY <1>4 DEF Commit, Rollback, TxnSettles, AbortOrphanTxn, CommitInDoubt, CommitTxn,
      AbortTxn,
     Unlock
<1>5. CASE JobFault(t)
  BY <1>5 DEF JobFault, Abandon, SaveFails, RollbackFails
<1>6. ASSUME NEW m \in Messages, Receive(t, m)
      PROVE  /\ pc'[u] = pc[u] /\ job'[u] = job[u]
             /\ UNCHANGED <<asOf, result, txn, lockedBy>>
  BY <1>6 DEF Receive
<1> QED BY <1>2, <1>3, <1>4, <1>5, <1>6
        DEF ActionOf, WorkerStep, JobStep, ReceiveJob, ReceiveDuplicate

\* Lines are written only by a commit.
LEMMA NextMovesLines ==
  ASSUME TypeOK, [Next]_vars
  PROVE  UNCHANGED lines \/ \E t \in Attempts : CommitOf(t)
<1> USE DEF storeVars
<1>1. ASSUME NEW t \in Attempts, JobStep(t) \/ TxnSettles(t)
      PROVE  UNCHANGED lines \/ CommitOf(t)
  <2>1. CASE Commit(t) \/ Rollback(t) \/ TxnSettles(t)
    BY <2>1 DEF Commit, Rollback, TxnSettles, AbortOrphanTxn, CommitInDoubt, CommitOf,
        AbortTxn
  <2>2. CASE \/ SendClaim(t) \/ Claim(t) \/ ResolveUnclaimedJob(t) \/ FetchObject(t)
             \/ AnalyzeImage(t) \/ SendMarkFailed(t) \/ RecordFailure(t) \/ BeginSave(t)
             \/ LockStatement(t) \/ WriteLines(t) \/ CompleteStatement(t) \/ DeleteJob(t)
    BY <2>2 DEF SendClaim, Claim, ResolveUnclaimedJob, FetchObject, FailPermanently,
        AnalyzeImage, SendMarkFailed, RecordFailure, BeginSave, LockStatement, WriteLines, CompleteStatement,
       DeleteJob
  <2> QED BY <1>1, <2>1, <2>2 DEF JobStep
<1>2. ASSUME NEW t \in Attempts,
             JobFault(t) \/ \E m \in Messages : ReceiveJob(t, m) \/ ReceiveDuplicate(t, m)
      PROVE  UNCHANGED lines
  BY <1>2 DEF JobFault, Abandon, SaveFails, RollbackFails, ReceiveJob,
      ReceiveDuplicate, Receive
<1> QED BY <1>1, <1>2, NextByAttempt DEF ActionOf, WorkerStep

-----------------------------------------------------------------------------
(* The consequences for one step.                                          *)

\* COMPLETED and FAILED are final.
LEMMA NextKeepsTerminal ==
  ASSUME TypeOK, WorkIsBound, ClockIsAhead, SaverHoldsClaim, [Next]_vars,
         NEW s \in Statements, row[s].status \in Terminal
  PROVE  row'[s] = row[s] /\ lines'[s] = lines[s]
<1>1. row'[s] = row[s]
  BY NextMovesRows DEF RowMove, Early, Terminal
<1>2. ASSUME NEW t \in Attempts, CommitOf(t) PROVE lines'[s] = lines[s]
  <2>1. Stmt(t) # s
    BY <1>2 DEF CommitOf, SaverHoldsClaim, SaveStates, Terminal
  <2> QED BY <1>2, <2>1 DEF CommitOf, CommitTxn, UpsertLines, TypeOK, StoreTypeOK
<1> QED BY <1>1, <1>2, NextMovesLines

\* A statement that was registered stays so.
LEMMA NextKeepsRegistered ==
  ASSUME TypeOK, WorkIsBound, ClockIsAhead, SaverHoldsClaim, [Next]_vars,
         NEW s \in Statements, row[s].status # "ABSENT"
  PROVE  row'[s].status # "ABSENT"
BY NextMovesRows DEF RowMove

-----------------------------------------------------------------------------
(* The parts of the invariant, one step at a time.                         *)

\* Time does not go back.
LEMMA NextTime ==
  ASSUME TypeOK, [Next]_vars
  PROVE  now' \in Nat /\ now <= now'
<1> USE DEF storeVars, objectVars, envVars, Fault
<1>1. now \in Nat
  BY DEF TypeOK, EnvTypeOK
<1>2. CASE Tick
  BY <1>1, <1>2 DEF Tick, Advance
<1>3. CASE UNCHANGED now
  BY <1>1, <1>3
<1>4. CASE UNCHANGED vars \/ \E m \in Messages : Redrive(m) \/ RetentionEnds(m)
  BY <1>3, <1>4 DEF vars, Redrive, RetentionEnds
<1>5. CASE \E o \in orphans : OrphanStep(o)
  BY <1>3, <1>5 DEF OrphanStep
<1>6. CASE \E s \in Statements : ClientStep(s)
  BY <1>3, <1>6 DEF ClientStep, CreateStatement, ChangeObject, Arrival, StartComplete,
     StartAnalyze, Start
<1>7. ASSUME NEW r \in Requests, RequestStep(r) \/ RequestFault(r) PROVE UNCHANGED now
  BY <1>7 DEF RequestStep, RequestFault, HeadObject, CompleteUpload, Enqueue, SendJob,
     ResetStatement, SendFails, AbandonRequest
<1>8. ASSUME NEW t \in Attempts, WorkerStep(t) PROVE UNCHANGED now
  <2>1. CASE Commit(t) \/ Rollback(t) \/ TxnSettles(t)
    BY <2>1 DEF Commit, Rollback, TxnSettles, AbortOrphanTxn, CommitInDoubt, CommitTxn,
        AbortTxn
  <2>2. CASE \/ SendClaim(t) \/ Claim(t) \/ ResolveUnclaimedJob(t) \/ FetchObject(t)
             \/ AnalyzeImage(t) \/ SendMarkFailed(t) \/ RecordFailure(t) \/ BeginSave(t)
             \/ LockStatement(t) \/ WriteLines(t) \/ CompleteStatement(t) \/ DeleteJob(t)
    BY <2>2 DEF SendClaim, Claim, ResolveUnclaimedJob, FetchObject, FailPermanently,
        AnalyzeImage, SendMarkFailed, RecordFailure, BeginSave, LockStatement, WriteLines, CompleteStatement,
       DeleteJob
  <2> QED BY <1>8, <2>1, <2>2 DEF WorkerStep, JobStep
<1>9. ASSUME NEW t \in Attempts,
             JobFault(t) \/ \E m \in Messages : ReceiveJob(t, m) \/ ReceiveDuplicate(t, m)
      PROVE  UNCHANGED now
  BY <1>9 DEF JobFault, Abandon, SaveFails, RollbackFails, ReceiveJob, ReceiveDuplicate
<1>10. CASE Failure
  BY <1>3, <1>4, <1>7, <1>9, <1>10 DEF Failure
<1>11. CASE Backend
  BY <1>2, <1>3, <1>4, <1>5, <1>7, <1>8, <1>9, <1>10, <1>11
  DEF Backend, ApiStep, WorkerReceives
<1> QED BY <1>4, <1>6, <1>11 DEF Next

\* The clock stays ahead of whoever has read it.
LEMMA NextClock ==
  ASSUME TypeOK, ClockIsAhead, [Next]_vars
  PROVE  ClockIsAhead'
<1> USE DEF TypeOK, EnvTypeOK, JobTypeOK, StoreTypeOK, storeVars
<1>1. \A u \in Attempts : asOf'[u] \in {asOf[u], now, 0}
  <2>1. ASSUME NEW t \in Attempts, ActionOf(t)
        PROVE  \E at \in {asOf[t], now, 0} : asOf' = [asOf EXCEPT ![t] = at]
    <3> USE DEF ReadNow, ForgetNow
    <3>1. CASE \/ SendClaim(t) \/ Claim(t) \/ ResolveUnclaimedJob(t) \/ FetchObject(t)
               \/ AnalyzeImage(t) \/ SendMarkFailed(t) \/ RecordFailure(t) \/ DeleteJob(t)
      BY <3>1 DEF SendClaim, Claim, ResolveUnclaimedJob, FetchObject, FailPermanently,
          AnalyzeImage, SendMarkFailed, RecordFailure, DeleteJob
    <3>2. CASE BeginSave(t) \/ LockStatement(t) \/ WriteLines(t) \/ CompleteStatement(t)
      BY <3>2 DEF BeginSave, LockStatement, WriteLines, CompleteStatement
    <3>3. CASE Commit(t) \/ Rollback(t) \/ TxnSettles(t)
      BY <3>3 DEF Commit, Rollback, TxnSettles, AbortOrphanTxn, CommitInDoubt, CommitTxn,
         AbortTxn
    <3>4. CASE JobFault(t)
      BY <3>4 DEF JobFault, Abandon, SaveFails, RollbackFails
    <3>5. ASSUME NEW m \in Messages, Receive(t, m) PROVE UNCHANGED asOf
      BY <3>5 DEF Receive
    <3> QED BY <2>1, <3>1, <3>2, <3>3, <3>4, <3>5
            DEF ActionOf, WorkerStep, JobStep, ReceiveJob, ReceiveDuplicate
  <2> QED BY <2>1, NextByAttempt DEF jobVars
<1>2. \A o \in orphans' : o \in orphans \/ o.at = 0 \/ \E t \in Attempts : o.at = asOf[t]
  <2>1. CASE orphans' \subseteq orphans
    BY <2>1
  <2>2. ASSUME NEW r \in Requests, AbandonRequest(r), NEW o \in orphans'
        PROVE  o \in orphans \/ o.at = 0
    BY <2>2 DEF AbandonRequest, UpdateInFlight, Orphan
  <2>3. ASSUME NEW t \in Attempts, Abandon(t), NEW o \in orphans'
        PROVE  o \in orphans \/ o.at = asOf[t]
    BY <2>3 DEF Abandon, CallInFlight, Orphan
  <2>4. ASSUME NEW r \in Requests, RequestStep(r) \/ SendFails(r) PROVE UNCHANGED orphans
    BY <2>4 DEF RequestStep, HeadObject, CompleteUpload, Enqueue, SendJob, ResetStatement,
       SendFails
  <2>5. ASSUME NEW t \in Attempts, WorkerStep(t) PROVE UNCHANGED orphans
    <3>1. CASE Commit(t) \/ Rollback(t) \/ TxnSettles(t)
      BY <3>1 DEF Commit, Rollback, TxnSettles, AbortOrphanTxn, CommitInDoubt, CommitTxn,
         AbortTxn
    <3>2. CASE \/ SendClaim(t) \/ Claim(t) \/ ResolveUnclaimedJob(t) \/ FetchObject(t)
               \/ AnalyzeImage(t) \/ SendMarkFailed(t) \/ RecordFailure(t) \/ BeginSave(t)
               \/ LockStatement(t) \/ WriteLines(t) \/ CompleteStatement(t) \/ DeleteJob(t)
      BY <3>2 DEF SendClaim, Claim, ResolveUnclaimedJob, FetchObject, FailPermanently,
          AnalyzeImage, SendMarkFailed, RecordFailure, BeginSave, LockStatement, WriteLines,
         CompleteStatement, DeleteJob
    <3> QED BY <2>5, <3>1, <3>2 DEF WorkerStep, JobStep
  <2>6. ASSUME NEW t \in Attempts,
               \/ SaveFails(t) \/ RollbackFails(t)
               \/ \E m \in Messages : ReceiveJob(t, m) \/ ReceiveDuplicate(t, m)
        PROVE  UNCHANGED orphans
    BY <2>6 DEF SaveFails, RollbackFails, ReceiveJob, ReceiveDuplicate, Receive
  <2>7. CASE UNCHANGED vars \/ Tick \/ \E m \in Messages : Redrive(m) \/ RetentionEnds(m)
    BY <2>1, <2>7 DEF vars, Tick, Redrive, RetentionEnds
  <2>8. ASSUME NEW o \in orphans, OrphanStep(o) PROVE orphans' \subseteq orphans
    BY <2>8 DEF OrphanStep, RunOrphan, DropOrphan
  <2>9. ASSUME NEW s \in Statements, ClientStep(s) PROVE UNCHANGED orphans
    BY <2>9 DEF ClientStep, CreateStatement, ChangeObject, Arrival, StartComplete,
       StartAnalyze, Start
  <2>10. CASE Failure
    BY <2>1, <2>2, <2>3, <2>4, <2>6, <2>7, <2>10 DEF Failure, JobFault, RequestFault
  <2>11. CASE Backend
    BY <2>1, <2>4, <2>5, <2>6, <2>7, <2>8, <2>10, <2>11 DEF Backend, ApiStep, WorkerReceives
  <2> QED BY <2>1, <2>7, <2>9, <2>11 DEF Next
<1>3. now \in Nat /\ now' \in Nat /\ now <= now'
  BY NextTime
<1>4. \A t \in Attempts : asOf[t] \in Nat /\ asOf[t] <= now
  BY DEF ClockIsAhead
<1>5. \A o \in orphans : o.at \in Nat /\ o.at <= now
  BY DEF ClockIsAhead, Orphans
<1>6. \A u \in Attempts : asOf'[u] <= now'
  BY <1>1, <1>3, <1>4
<1>7. \A o \in orphans' : o.at <= now'
  BY <1>2, <1>3, <1>4, <1>5
<1> QED BY <1>6, <1>7 DEF ClockIsAhead

\* What a step may do to message m.
MessageMove(m) ==
  \/ message'[m] = message[m]
  \/ /\ message[m].place = "unsent"
     /\ message'[m].place = "queue"
     /\ \E r \in Requests : phase[r] = "sending" /\ message'[m].stmt = target[r]
  \/ /\ message[m].place # "unsent"
     /\ message'[m].stmt = message[m].stmt
     /\ \/ message'[m].place \in {"queue", "deadLetter", "expired"}
        \/ /\ message'[m].place = "deleted"
           /\ \E t \in Attempts : pc[t] = "acking" /\ message[m].stmt = Stmt(t)

\* A message is sent by a request in "sending" and deleted by an attempt in
\* "acking", each for its own statement.
LEMMA NextMovesMessages ==
  ASSUME TypeOK, WorkIsBound, [Next]_vars, NEW m \in Messages
  PROVE  MessageMove(m)
<1> USE DEF TypeOK, QueueTypeOK, objectVars, storeVars
<1>1. CASE UNCHANGED message
  BY <1>1 DEF MessageMove
<1>2. ASSUME NEW k \in Messages, Redrive(k) \/ RetentionEnds(k) PROVE MessageMove(m)
  BY <1>2 DEF Redrive, RetentionEnds, MoveToDeadLetter, Expire, Visible, MessageMove
<1>3. ASSUME NEW r \in Requests, NEW k \in Messages, phase[r] = "sending",
             SendAnalyzeJob(k, target[r])
      PROVE  MessageMove(m)
  BY <1>3 DEF SendAnalyzeJob, MessageMove
<1>4. ASSUME NEW r \in Requests, RequestStep(r) \/ RequestFault(r) PROVE MessageMove(m)
  <2>1. CASE SendFails(r) \/ \E k \in Messages : SendJob(r, k)
    BY <1>1, <1>3, <2>1 DEF SendFails, SendJob, Proceed
  <2>2. CASE HeadObject(r) \/ CompleteUpload(r) \/ Enqueue(r) \/ ResetStatement(r)
             \/ AbandonRequest(r)
    BY <1>1, <2>2 DEF HeadObject, CompleteUpload, Enqueue, ResetStatement, AbandonRequest
  <2> QED BY <1>4, <2>1, <2>2 DEF RequestStep, RequestFault
<1>5. ASSUME NEW t \in Attempts, NEW k \in Messages, ReceiveJob(t, k) \/ ReceiveDuplicate(t, k)
      PROVE  MessageMove(m)
  <2>1. message[k].place = "queue" /\ Deliver(k)
    BY <1>5 DEF ReceiveJob, ReceiveDuplicate, Visible, Receive
  <2> QED BY <2>1 DEF Deliver, MessageMove
<1>6. ASSUME NEW t \in Attempts, DeleteJob(t) PROVE MessageMove(m)
  <2> DEFINE k == job[t].message
  <2>1. pc[t] = "acking" /\ k \in Messages /\ message[k].place # "unsent"
        /\ message[k].stmt = Stmt(t)
    BY <1>6 DEF DeleteJob, Goto, WorkIsBound
  <2>2. \/ UNCHANGED message
        \/ message' = [message EXCEPT ![k].place = IF @ = "queue" THEN "deleted" ELSE @]
    BY <1>6 DEF DeleteJob, DeleteMessage
  <2> HIDE DEF k
  <2>3. CASE m # k \/ UNCHANGED message \/ message[k].place # "queue"
    <3>1. message'[m] = message[m]
      BY <2>1, <2>2, <2>3
    <3> QED BY <3>1 DEF MessageMove
  <2>4. CASE m = k /\ ~UNCHANGED message /\ message[k].place = "queue"
    <3>1. message'[m].place = "deleted" /\ message'[m].stmt = message[m].stmt
      BY <2>2, <2>4
    <3> QED BY <2>1, <2>4, <3>1 DEF MessageMove
  <2> QED BY <2>3, <2>4
<1>7. ASSUME NEW t \in Attempts, WorkerStep(t) PROVE MessageMove(m)
  <2>1. CASE Commit(t) \/ Rollback(t) \/ TxnSettles(t)
    BY <1>1, <2>1 DEF Commit, Rollback, TxnSettles, AbortOrphanTxn, CommitInDoubt,
        CommitTxn,
       AbortTxn
  <2>2. CASE \/ SendClaim(t) \/ Claim(t) \/ ResolveUnclaimedJob(t) \/ FetchObject(t)
             \/ AnalyzeImage(t) \/ SendMarkFailed(t) \/ RecordFailure(t) \/ BeginSave(t)
             \/ LockStatement(t) \/ WriteLines(t) \/ CompleteStatement(t)
    BY <1>1, <2>2 DEF SendClaim, Claim, ResolveUnclaimedJob, FetchObject,
        FailPermanently, AnalyzeImage,
       SendMarkFailed, RecordFailure, BeginSave, LockStatement, WriteLines, CompleteStatement
  <2> QED BY <1>6, <1>7, <2>1, <2>2 DEF WorkerStep, JobStep
<1>8. ASSUME NEW t \in Attempts, JobFault(t) PROVE UNCHANGED message
  BY <1>8 DEF JobFault, Abandon, SaveFails, RollbackFails
<1>9. CASE UNCHANGED vars \/ Tick \/ \E s \in Statements : ClientStep(s)
  BY <1>1, <1>9 DEF vars, Tick, ClientStep, CreateStatement, ChangeObject, Arrival,
     StartComplete, StartAnalyze, Start
<1>10. ASSUME NEW o \in orphans, OrphanStep(o) PROVE UNCHANGED message
  BY <1>10 DEF OrphanStep
<1>11. CASE Failure
  BY <1>1, <1>2, <1>4, <1>5, <1>8, <1>11 DEF Failure
<1>12. CASE Backend
  BY <1>1, <1>2, <1>4, <1>5, <1>7, <1>9, <1>10, <1>11, <1>12 DEF Backend, ApiStep,
      WorkerReceives
<1> QED BY <1>9, <1>12 DEF Next

\* A request in progress after a step is for a statement that was there.
LEMMA NextMovesRequests ==
  ASSUME TypeOK, [Next]_vars, NEW r \in Requests, phase'[r] # "idle"
  PROVE  \/ phase[r] # "idle" /\ target'[r] = target[r]
         \/ target'[r] \in Statements /\ row[target'[r]].status # "ABSENT"
<1> DEFINE Goal == \/ phase[r] # "idle" /\ target'[r] = target[r]
                   \/ target'[r] \in Statements /\ row[target'[r]].status # "ABSENT"
<1> USE DEF TypeOK, ApiTypeOK, apiVars, storeVars, objectVars, Proceed
<1>1. CASE UNCHANGED apiVars
  BY <1>1
<1>2. CASE UNCHANGED vars \/ Tick \/ \E m \in Messages : Redrive(m) \/ RetentionEnds(m)
  BY <1>1, <1>2 DEF vars, Tick, Redrive, RetentionEnds
<1>3. CASE \E o \in orphans : OrphanStep(o)
  BY <1>1, <1>3 DEF OrphanStep
<1>4. ASSUME NEW s \in Statements, ClientStep(s) PROVE Goal
  <2>1. CASE CreateStatement(s) \/ \E o \in Objects : ChangeObject(s, o)
    BY <1>1, <2>1 DEF CreateStatement, ChangeObject
  <2>2. ASSUME NEW q \in Requests, Arrival(q, s) PROVE Goal
    BY <2>2 DEF Arrival, StartComplete, StartAnalyze, Start
  <2> QED BY <1>4, <2>1, <2>2 DEF ClientStep
<1>5. ASSUME NEW q \in Requests, RequestStep(q) \/ RequestFault(q) PROVE Goal
  BY <1>5 DEF RequestStep, RequestFault, HeadObject, CompleteUpload, Enqueue, SendJob,
     ResetStatement, SendFails, AbandonRequest
<1>6. CASE Failure
  BY <1>1, <1>2, <1>5, <1>6 DEF Failure
<1>7. CASE Backend
  BY <1>1, <1>2, <1>3, <1>5, <1>6, <1>7 DEF Backend, ApiStep, WorkerReceives, WorkerStep
<1> QED BY <1>2, <1>4, <1>7 DEF Next

\* Whatever concerns a statement comes after its INSERT.
LEMMA NextRegistered ==
  ASSUME TypeOK, TypeOK', WorkIsBound, ClockIsAhead, SaverHoldsClaim, RegisteredFirst,
         [Next]_vars
  PROVE  RegisteredFirst'
<1>1. ASSUME NEW r \in Requests, phase'[r] # "idle"
      PROVE  row'[target'[r]].status # "ABSENT"
  <2>1. target[r] \in Statements /\ target'[r] \in Statements
    BY DEF TypeOK, ApiTypeOK
  <2>2. row[target'[r]].status # "ABSENT"
    BY <1>1, <2>1, NextMovesRequests DEF RegisteredFirst
  <2> QED BY <2>1, <2>2, NextKeepsRegistered
<1>2. ASSUME NEW m \in Messages, message'[m].place # "unsent"
      PROVE  row'[message'[m].stmt].status # "ABSENT"
  <2>1. message'[m].stmt \in Statements /\ row[message'[m].stmt].status # "ABSENT"
    BY <1>2, NextMovesMessages
    DEF MessageMove, RegisteredFirst, WorkIsBound, TypeOK, ApiTypeOK
  <2> QED BY <2>1, NextKeepsRegistered
<1> QED BY <1>1, <1>2 DEF RegisteredFirst

\* No transaction before saving, and no saving without lines.
LEMMA NextSaveFollowsOcr ==
  ASSUME TypeOK, SaveFollowsOcr, [Next]_vars
  PROVE  SaveFollowsOcr'
<1> USE DEF SaveFollowsOcr
<1>1. CASE UNCHANGED jobVars
  BY <1>1 DEF jobVars
<1>2. ASSUME NEW t \in Attempts, ActionOf(t)
      PROVE  /\ txn'[t] # "none" => pc'[t] \in {"saving", "rollback", "acking", "acked", "left"}
             /\ pc'[t] = "saving" => result'[t] # {}
  <2> USE DEF TypeOK, JobTypeOK, Goto, AdvanceTxn
  <2>1. CASE \/ SendClaim(t) \/ Claim(t) \/ ResolveUnclaimedJob(t) \/ FetchObject(t)
             \/ SendMarkFailed(t) \/ RecordFailure(t) \/ DeleteJob(t)
    BY <2>1 DEF SendClaim, Claim, ResolveUnclaimedJob, FetchObject, FailPermanently,
        SendMarkFailed,
       RecordFailure, DeleteJob
  <2>2. CASE AnalyzeImage(t)
    BY <2>2 DEF AnalyzeImage, Recognised, FailPermanently
  <2>3. CASE BeginSave(t) \/ WriteLines(t) \/ CompleteStatement(t)
    BY <2>3 DEF BeginSave, WriteLines, CompleteStatement
  <2>4. CASE LockStatement(t)
    BY <2>4 DEF LockStatement, CheckClaim
  <2>5. CASE Commit(t) \/ CommitInDoubt(t)
    BY <2>5 DEF Commit, CommitInDoubt, CommitTxn
  <2>6. CASE Rollback(t) \/ AbortOrphanTxn(t)
    BY <2>6 DEF Rollback, AbortOrphanTxn, AbortTxn
  <2>7. CASE JobFault(t)
    BY <2>7 DEF JobFault, Abandon, SaveFails, RollbackFails
  <2>8. ASSUME NEW m \in Messages, Receive(t, m)
        PROVE  pc'[t] = "received" /\ txn'[t] = "none"
    BY <2>8 DEF Receive
  <2> QED BY <1>2, <2>1, <2>2, <2>3, <2>4, <2>5, <2>6, <2>7, <2>8
          DEF ActionOf, WorkerStep, JobStep, TxnSettles, ReceiveJob, ReceiveDuplicate
<1>3. ASSUME NEW t \in Attempts, ActionOf(t) PROVE SaveFollowsOcr'
  BY <1>2, <1>3, OthersUntouched
<1> QED BY <1>1, <1>3, NextByAttempt

\* The claim that was found under the lock is good until the transaction ends:
\* the lock keeps every UPDATE of other attempts, and of the API, waiting.
LEMMA NextSaverHoldsClaim ==
  ASSUME TypeOK, WorkIsBound, ClockIsAhead, SaveFollowsOcr, SaverHoldsClaim, [Next]_vars
  PROVE  SaverHoldsClaim'
<1> USE DEF TypeOK, JobTypeOK, StoreTypeOK
<1>1. ASSUME NEW u \in Attempts, txn[u] \in SaveStates, txn'[u] \in SaveStates,
             job'[u] = job[u], result'[u] = result[u], lockedBy'[Stmt(u)] = u
      PROVE  /\ lockedBy'[Stmt(u)'] = u
             /\ row'[Stmt(u)'].status = "PROCESSING"
             /\ row'[Stmt(u)'].token = u
             /\ result'[u] # {}
  <2>1. Stmt(u) \in Statements
    BY <1>1 DEF WorkIsBound, SaveFollowsOcr, SaveStates
  <2>2. lockedBy[Stmt(u)] = u /\ row[Stmt(u)].status = "PROCESSING" /\ row[Stmt(u)].token = u
        /\ result[u] # {} /\ u # NoAttempt
    BY <1>1, StoreAssumption DEF SaverHoldsClaim
  <2>3. ASSUME NEW t \in Attempts, Stmt(t) = Stmt(u), CommitOf(t) PROVE FALSE
    <3>1. t = u
      BY <2>2, <2>3 DEF CommitOf, SaverHoldsClaim, SaveStates
    <3> QED BY <1>1, <2>3, <3>1 DEF CommitOf, CommitTxn, SaveStates
  <2>4. row'[Stmt(u)] = row[Stmt(u)]
    BY <2>1, <2>2, <2>3, NextMovesRows DEF RowMove, Early, Unlocked
  <2> QED BY <1>1, <2>2, <2>4 DEF Stmt
<1>2. ASSUME NEW t \in Attempts, ActionOf(t), txn'[t] \in SaveStates
      PROVE  /\ lockedBy'[Stmt(t)'] = t
             /\ row'[Stmt(t)'].status = "PROCESSING"
             /\ row'[Stmt(t)'].token = t
             /\ result'[t] # {}
  <2> USE DEF Goto, AdvanceTxn, storeVars
  <2>1. CASE \/ SendClaim(t) \/ Claim(t) \/ ResolveUnclaimedJob(t) \/ FetchObject(t)
             \/ AnalyzeImage(t) \/ SendMarkFailed(t) \/ RecordFailure(t)
    BY <1>2, <2>1
    DEF SaveFollowsOcr, SaveStates, SendClaim, Claim, ResolveUnclaimedJob, FetchObject,
        FailPermanently,
        AnalyzeImage, SendMarkFailed, RecordFailure
  <2>2. CASE BeginSave(t)
    BY <1>2, <2>2 DEF BeginSave, SaveStates
  <2>3. CASE LockStatement(t)
    <3>1. Stmt(t) \in Statements /\ Stmt(t)' = Stmt(t)
      BY <2>3 DEF LockStatement, CheckClaim, WorkIsBound, Stmt
    <3>2. Owns(Stmt(t), t, asOf[t])
      BY <1>2, <2>3 DEF LockStatement, CheckClaim, SaveStates
    <3> QED BY <2>3, <3>1, <3>2 DEF LockStatement, CheckClaim, Owns, SaveFollowsOcr
  <2>4. CASE WriteLines(t) \/ CompleteStatement(t)
    <3>1. txn[t] \in SaveStates /\ lockedBy[Stmt(t)] = t
      BY <2>4 DEF WriteLines, CompleteStatement, SaveStates, SaverHoldsClaim
    <3>2. UNCHANGED <<job, result, lockedBy>>
      BY <2>4 DEF WriteLines, CompleteStatement
    <3> QED BY <1>1, <1>2, <3>1, <3>2
  <2>5. CASE Commit(t) \/ CommitInDoubt(t)
    BY <1>2, <2>5 DEF Commit, CommitInDoubt, CommitTxn, SaveStates
  <2>6. CASE AbortTxn(t)
    BY <1>2, <2>6 DEF AbortTxn, SaveStates
  <2>7. CASE Rollback(t) \/ AbortOrphanTxn(t)
    BY <1>1, <1>2, <2>6, <2>7 DEF Rollback, AbortOrphanTxn, SaveStates, SaverHoldsClaim
  <2>8. CASE DeleteJob(t)
    BY <1>1, <1>2, <2>8 DEF DeleteJob, SaverHoldsClaim
  <2>9. CASE SaveFails(t) \/ RollbackFails(t)
    BY <1>1, <1>2, <2>9 DEF SaveFails, RollbackFails, SaverHoldsClaim, SaveStates
  <2>10. CASE Abandon(t)
    <3>1. txn[t] \in SaveStates
      BY <1>2, <2>10 DEF Abandon, SaveStates
    <3>2. result'[t] = result[t] /\ job' = job /\ lockedBy' = lockedBy
      BY <2>10, <3>1 DEF Abandon, SaveStates
    <3> QED BY <1>1, <1>2, <3>1, <3>2 DEF SaverHoldsClaim
  <2>11. ASSUME NEW m \in Messages, Receive(t, m) PROVE txn'[t] = "none"
    BY <2>11 DEF Receive, SaveFollowsOcr
  <2> QED BY <1>2, <2>1, <2>2, <2>3, <2>4, <2>5, <2>7, <2>8, <2>9, <2>10, <2>11
          DEF ActionOf, WorkerStep, JobStep, TxnSettles, JobFault, ReceiveJob,
              ReceiveDuplicate,
              SaveStates
<1>3. ASSUME NEW t \in Attempts, ActionOf(t) PROVE SaverHoldsClaim'
  <2>1. ASSUME NEW u \in Attempts \ {t}, txn'[u] \in SaveStates
        PROVE  /\ lockedBy'[Stmt(u)'] = u
               /\ row'[Stmt(u)'].status = "PROCESSING"
               /\ row'[Stmt(u)'].token = u
               /\ result'[u] # {}
    <3>1. /\ job'[u] = job[u] /\ result'[u] = result[u] /\ txn'[u] = txn[u]
          /\ \A s \in Statements : lockedBy[s] = u => lockedBy'[s] = u
      BY <1>3, <2>1, OthersUntouched
    <3>2. Stmt(u) \in Statements /\ lockedBy[Stmt(u)] = u
      BY <2>1, <3>1 DEF WorkIsBound, SaveFollowsOcr, SaveStates, SaverHoldsClaim
    <3> QED BY <1>1, <2>1, <3>1, <3>2
  <2> QED BY <1>2, <1>3, <2>1 DEF SaverHoldsClaim
<1>4. CASE UNCHANGED <<jobVars, lockedBy>>
  <2>1. ASSUME NEW u \in Attempts, txn'[u] \in SaveStates
        PROVE  /\ lockedBy'[Stmt(u)'] = u
               /\ row'[Stmt(u)'].status = "PROCESSING"
               /\ row'[Stmt(u)'].token = u
               /\ result'[u] # {}
    <3>1. txn'[u] = txn[u] /\ job'[u] = job[u] /\ result'[u] = result[u] /\ lockedBy' = lockedBy
      BY <1>4 DEF jobVars
    <3> QED BY <1>1, <2>1, <3>1 DEF SaverHoldsClaim
  <2> QED BY <2>1 DEF SaverHoldsClaim
<1> QED BY <1>3, <1>4, NextByAttempt

\* An attempt answers ACK when its statement is settled.
LEMMA NextAckFollowsOutcome ==
  ASSUME TypeOK, WorkIsBound, ClockIsAhead, RegisteredFirst, SaveFollowsOcr, SaverHoldsClaim,
         AckFollowsOutcome, [Next]_vars
  PROVE  AckFollowsOutcome'
<1> USE DEF TypeOK, JobTypeOK, StoreTypeOK
<1>1. ASSUME NEW u \in Attempts, pc[u] = "acking", job'[u] = job[u]
      PROVE  row'[Stmt(u)'].status \in Terminal
  <2>1. Stmt(u) \in Statements /\ Stmt(u)' = Stmt(u) /\ row[Stmt(u)].status \in Terminal
    BY <1>1 DEF WorkIsBound, AckFollowsOutcome, Stmt
  <2> QED BY <2>1, NextKeepsTerminal
<1>2. ASSUME NEW t \in Attempts, ActionOf(t), pc'[t] = "acking"
      PROVE  row'[Stmt(t)'].status \in Terminal
  <2> USE DEF Goto, AdvanceTxn, storeVars
  <2>1. CASE \/ SendClaim(t) \/ Claim(t) \/ FetchObject(t) \/ AnalyzeImage(t)
             \/ SendMarkFailed(t) \/ DeleteJob(t)
    BY <1>2, <2>1 DEF SendClaim, Claim, FetchObject, FailPermanently, AnalyzeImage,
        SendMarkFailed, DeleteJob
  <2>2. CASE ResolveUnclaimedJob(t)
    <3>1. Stmt(t) \in Statements /\ row[Stmt(t)].status # "ABSENT"
      BY <2>2 DEF ResolveUnclaimedJob, WorkIsBound, RegisteredFirst
    <3>2. row[Stmt(t)].status \in Terminal
      BY <1>2, <2>2, <3>1 DEF ResolveUnclaimedJob
    <3> QED BY <2>2, <3>2 DEF ResolveUnclaimedJob, Stmt
  <2>3. CASE RecordFailure(t)
    <3>1. Stmt(t) \in Statements /\ Stmt(t)' = Stmt(t)
      BY <2>3 DEF RecordFailure, WorkIsBound, Stmt
    <3>2. row' = MarkFailed(Stmt(t), t, asOf[t], verdict[t]) /\ Owns(Stmt(t), t, asOf[t])
      BY <1>2, <2>3 DEF RecordFailure
    <3>3. row'[Stmt(t)].status = "FAILED"
      BY <3>1, <3>2 DEF MarkFailed, Rows
    <3> QED BY <3>1, <3>3 DEF Terminal
  <2>4. CASE BeginSave(t) \/ WriteLines(t) \/ CompleteStatement(t)
    BY <1>2, <2>4 DEF BeginSave, WriteLines, CompleteStatement
  <2>5. CASE LockStatement(t)
    BY <1>2, <2>5 DEF LockStatement, CheckClaim
  <2>6. CASE Commit(t)
    <3>1. Stmt(t) \in Statements /\ Stmt(t)' = Stmt(t)
      BY <2>6 DEF Commit, CommitTxn, WorkIsBound, Stmt
    <3>2. row'[Stmt(t)].status = "COMPLETED"
      BY <2>6, <3>1 DEF Commit, CommitTxn, CompletedRow, Rows
    <3> QED BY <3>1, <3>2 DEF Terminal
  <2>7. CASE CommitInDoubt(t)
    BY <1>1, <1>2, <2>7 DEF CommitInDoubt, CommitTxn
  <2>8. CASE Rollback(t) \/ AbortOrphanTxn(t)
    BY <1>1, <1>2, <2>8 DEF Rollback, AbortOrphanTxn, AbortTxn
  <2>9. CASE JobFault(t)
    BY <1>2, <2>9 DEF JobFault, Abandon, SaveFails, RollbackFails
  <2>10. ASSUME NEW m \in Messages, Receive(t, m) PROVE pc'[t] = "received"
    BY <2>10 DEF Receive
  <2> QED BY <1>2, <2>1, <2>2, <2>3, <2>4, <2>5, <2>6, <2>7, <2>8, <2>9, <2>10
          DEF ActionOf, WorkerStep, JobStep, TxnSettles, ReceiveJob, ReceiveDuplicate
<1>3. ASSUME NEW t \in Attempts, ActionOf(t) PROVE AckFollowsOutcome'
  <2>1. ASSUME NEW u \in Attempts \ {t}, pc'[u] = "acking"
        PROVE  row'[Stmt(u)'].status \in Terminal
    BY <1>1, <1>3, <2>1, OthersUntouched
  <2> QED BY <1>2, <1>3, <2>1 DEF AckFollowsOutcome
<1>4. CASE UNCHANGED jobVars
  BY <1>1, <1>4 DEF jobVars, AckFollowsOutcome
<1> QED BY <1>3, <1>4, NextByAttempt

\* A message that is deleted is the message of an attempt that answered ACK.
LEMMA NextAckOnlySettled ==
  ASSUME TypeOK, WorkIsBound, ClockIsAhead, SaverHoldsClaim, AckFollowsOutcome,
         AckOnlySettled, [Next]_vars
  PROVE  AckOnlySettled'
<1> SUFFICES ASSUME NEW m \in Messages, message'[m].place = "deleted"
             PROVE  row'[message'[m].stmt].status \in Terminal
  BY DEF AckOnlySettled
<1>1. message[m].place # "unsent" /\ message'[m].stmt = message[m].stmt
      /\ row[message[m].stmt].status \in Terminal
  BY NextMovesMessages DEF MessageMove, AckFollowsOutcome, AckOnlySettled
<1>2. message[m].stmt \in Statements
  BY <1>1 DEF WorkIsBound
<1> QED BY <1>1, <1>2, NextKeepsTerminal

\* The result of a transaction that committed is not touched again.
LEMMA NextKeepsCommitted ==
  ASSUME TypeOK, SaveFollowsOcr, [Next]_vars, NEW u \in Attempts, txn[u] = "committed",
         ~CommitOf(u)
  PROVE  txn'[u] = "committed" /\ result'[u] = result[u]
<1> USE DEF TypeOK, JobTypeOK, Goto, AdvanceTxn
<1>1. CASE UNCHANGED jobVars
  BY <1>1 DEF jobVars
<1>2. CASE ActionOf(u)
  <2>1. CASE \/ SendClaim(u) \/ Claim(u) \/ ResolveUnclaimedJob(u) \/ FetchObject(u)
             \/ SendMarkFailed(u) \/ RecordFailure(u) \/ DeleteJob(u)
    BY <2>1 DEF SendClaim, Claim, ResolveUnclaimedJob, FetchObject, FailPermanently,
        SendMarkFailed,
       RecordFailure, DeleteJob
  <2>2. CASE AnalyzeImage(u)
    BY <2>2 DEF AnalyzeImage, Recognised, FailPermanently, SaveFollowsOcr
  <2>3. CASE BeginSave(u) \/ WriteLines(u) \/ CompleteStatement(u) \/ LockStatement(u)
    BY <2>3 DEF BeginSave, WriteLines, CompleteStatement, LockStatement, CheckClaim
  <2>4. CASE Commit(u) \/ Rollback(u) \/ TxnSettles(u)
    BY <2>4 DEF Commit, Rollback, TxnSettles, AbortOrphanTxn, CommitInDoubt, AbortTxn,
        OpenTxn
  <2>5. CASE JobFault(u)
    BY <2>5 DEF JobFault, Abandon, SaveFails, RollbackFails
  <2>6. ASSUME NEW m \in Messages, Receive(u, m) PROVE UNCHANGED <<txn, result>>
    BY <2>6 DEF Receive
  <2> QED BY <1>2, <2>1, <2>2, <2>3, <2>4, <2>5, <2>6
          DEF ActionOf, WorkerStep, JobStep, ReceiveJob, ReceiveDuplicate
<1> QED BY <1>1, <1>2, NextByAttempt, OthersUntouched

\* Lines come with COMPLETED, all from the transaction that commits.
LEMMA NextLinesFollowCommit ==
  ASSUME TypeOK, WorkIsBound, ClockIsAhead, SaveFollowsOcr, SaverHoldsClaim, LinesFollowCommit,
         [Next]_vars
  PROVE  LinesFollowCommit'
<1> DEFINE Written(t) == [n \in LineNumbers |-> IF n \in result[t] THEN t ELSE NoAttempt]
<1> USE DEF TypeOK, StoreTypeOK, JobTypeOK
<1> SUFFICES ASSUME NEW s \in Statements
             PROVE  \/ row'[s].status # "COMPLETED" /\ lines'[s] = NoLines
                    \/ /\ row'[s].status = "COMPLETED"
                       /\ \E t \in Attempts :
                            /\ txn'[t] = "committed"
                            /\ result'[t] # {}
                            /\ lines'[s] = Written(t)'
  BY DEF LinesFollowCommit, NoLines
<1>1. CASE row[s].status = "COMPLETED"
  <2>1. PICK t \in Attempts : txn[t] = "committed" /\ result[t] # {} /\ lines[s] = Written(t)
    BY <1>1 DEF LinesFollowCommit
  <2>2. row'[s] = row[s] /\ lines'[s] = lines[s]
    BY <1>1, NextKeepsTerminal DEF Terminal
  <2>3. txn'[t] = "committed" /\ result'[t] = result[t]
    BY <2>1, NextKeepsCommitted DEF CommitOf
  <2> QED BY <1>1, <2>1, <2>2, <2>3
<1>2. CASE \E t \in Attempts : Stmt(t) = s /\ CommitOf(t)
  <2>1. PICK t \in Attempts : Stmt(t) = s /\ CommitOf(t)
    BY <1>2
  <2>2. row[s].status = "PROCESSING" /\ result[t] # {}
    BY <2>1 DEF CommitOf, SaverHoldsClaim, SaveStates
  <2>3. row'[s].status = "COMPLETED"
    BY <2>1 DEF CommitOf, CommitTxn, CompletedRow, Rows
  <2>4. lines[s] = NoLines
    BY <2>2 DEF LinesFollowCommit
  <2>5. lines'[s] = Written(t)
    <3>1. lines'[s] = [n \in LineNumbers |-> IF n \in result[t] THEN t ELSE lines[s][n]]
      BY <2>1 DEF CommitOf, CommitTxn, UpsertLines
    <3> QED BY <2>4, <3>1 DEF NoLines
  <2>6. txn'[t] = "committed" /\ result' = result
    BY <2>1 DEF CommitOf, CommitTxn
  <2> QED BY <2>2, <2>3, <2>5, <2>6
<1>3. CASE row[s].status # "COMPLETED" /\ ~\E t \in Attempts : Stmt(t) = s /\ CommitOf(t)
  <2>1. row'[s].status # "COMPLETED"
    BY <1>3, NextMovesRows DEF RowMove, Terminal
  <2>2. lines'[s] = lines[s]
    <3>1. ASSUME NEW t \in Attempts, CommitOf(t) PROVE lines'[s] = lines[s]
      BY <1>3, <3>1 DEF CommitOf, CommitTxn, UpsertLines
    <3> QED BY <3>1, NextMovesLines
  <2>3. lines[s] = NoLines
    BY <1>3 DEF LinesFollowCommit
  <2> QED BY <2>1, <2>2, <2>3
<1> QED BY <1>1, <1>2, <1>3

-----------------------------------------------------------------------------
(* The theorems.                                                           *)

\* The safety invariant is inductive, given the types.
LEMMA SafetyInductive ==
  ASSUME TypeOK, TypeOK', SafetyInv, [Next]_vars
  PROVE  SafetyInv'
BY NextBound, NextClock, NextRegistered, NextSaveFollowsOcr, NextSaverHoldsClaim,
   NextAckFollowsOutcome, NextAckOnlySettled, NextLinesFollowCommit
DEF SafetyInv

\* It holds at the start: nothing was registered, sent, received or saved.
LEMMA SafetyInit == ASSUME Init PROVE SafetyInv
<1> USE DEF Init, EnvInit, StoreInit, QueueInit, JobInit, ApiInit, NoRow, NotSent
<1>1. WorkIsBound /\ ClockIsAhead /\ RegisteredFirst
  BY DEF WorkIsBound, ClockIsAhead, RegisteredFirst
<1>2. SaveFollowsOcr /\ SaverHoldsClaim /\ AckFollowsOutcome
  BY DEF SaveFollowsOcr, SaverHoldsClaim, SaveStates, AckFollowsOutcome
<1>3. LinesFollowCommit /\ AckOnlySettled
  BY DEF LinesFollowCommit, AckOnlySettled
<1> QED BY <1>1, <1>2, <1>3 DEF SafetyInv

\* Messages, jobs, transactions and rows agree in every reachable state: in
\* particular the claim an attempt found under the row lock stays its own until
\* its transaction ends, however late that is.
THEOREM SystemIsSafe == Spec => [](TypeOK /\ SafetyInv)
<1>1. Init => TypeOK /\ SafetyInv
  BY InitType, SafetyInit
<1>2. TypeOK /\ SafetyInv /\ [Next]_vars => (TypeOK /\ SafetyInv)'
  BY NextType, SafetyInductive DEF SafetyInv
<1> QED BY <1>1, <1>2, PTL DEF Spec

\* A message is deleted only when its statement is COMPLETED or FAILED: no job
\* is acknowledged before its outcome is committed.
THEOREM AcknowledgedIsSettled == Spec => []AckOnlySettled
<1>1. SafetyInv => AckOnlySettled
  BY DEF SafetyInv
<1> QED BY <1>1, SystemIsSafe, PTL

\* A statement has lines exactly when it is COMPLETED, and all of them are the
\* result of one attempt, whatever attempts ran at the same time or before.
THEOREM OneAttemptsLines == Spec => []LinesOfOneAttempt
<1>1. SafetyInv => LinesOfOneAttempt
  BY DEF SafetyInv, LinesFollowCommit, LinesOfOneAttempt
<1> QED BY <1>1, SystemIsSafe, PTL

\* No step changes the row or the lines of a COMPLETED or FAILED statement.
THEOREM TerminalStays == Spec => TerminalIsFinal
<1>1. TypeOK /\ SafetyInv /\ [Next]_vars =>
        [\A s \in Statements : row[s].status \in Terminal =>
           row'[s] = row[s] /\ lines'[s] = lines[s]]_vars
  BY NextKeepsTerminal DEF SafetyInv
<1> QED BY <1>1, SystemIsSafe, PTL DEF Spec, TerminalIsFinal

\* Lines are written for no attempt but the one whose token the row carries.
THEOREM HolderWrites == Spec => OnlyTheHolderWrites
<1>1. ASSUME TypeOK, SafetyInv, [Next]_vars, NEW s \in Statements, lines'[s] # lines[s]
      PROVE  /\ row[s].status = "PROCESSING"
             /\ \A n \in LineNumbers : lines'[s][n] \in {NoAttempt, row[s].token}
  <2> USE DEF SafetyInv, TypeOK, StoreTypeOK
  <2>1. PICK t \in Attempts : CommitOf(t)
    BY <1>1, NextMovesLines
  <2>2. Stmt(t) = s
    BY <1>1, <2>1 DEF CommitOf, CommitTxn, UpsertLines
  <2>3. row[s].status = "PROCESSING" /\ row[s].token = t
    BY <1>1, <2>1, <2>2 DEF CommitOf, SaverHoldsClaim, SaveStates
  <2>4. lines[s] = NoLines
    BY <1>1, <2>3 DEF LinesFollowCommit
  <2>5. lines'[s] = [n \in LineNumbers |-> IF n \in result[t] THEN t ELSE lines[s][n]]
    BY <1>1, <2>1, <2>2 DEF CommitOf, CommitTxn, UpsertLines
  <2> QED BY <2>3, <2>4, <2>5 DEF NoLines
<1>2. TypeOK /\ SafetyInv /\ [Next]_vars =>
        [\A s \in Statements : lines'[s] # lines[s] =>
           /\ row[s].status = "PROCESSING"
           /\ \A n \in LineNumbers : lines'[s][n] \in {NoAttempt, row[s].token}]_vars
  BY <1>1
<1> QED BY <1>2, SystemIsSafe, PTL DEF Spec, OnlyTheHolderWrites

\* While a lease is good the row changes only to COMPLETED or FAILED, and only
\* by a step for the attempt whose token it carries.
THEOREM LeaseExcludes == Spec => LeaseIsExclusive
<1>1. ASSUME TypeOK, SafetyInv, [Next]_vars, NEW s \in Statements,
             row[s].status = "PROCESSING", row[s].lease > now, row'[s] # row[s]
      PROVE  row'[s].status \in Terminal /\ ActsFor(row[s].token)
  <2>1. RowMove(s)
    BY <1>1, NextMovesRows DEF SafetyInv
  <2>2. row[s].lease \in Nat /\ now \in Nat
    BY <1>1 DEF TypeOK, EnvTypeOK, StoreTypeOK, Rows
  <2>3. ASSUME NEW t \in Attempts, Stmt(t) = s, CommitOf(t)
        PROVE  ActsFor(row[s].token)
    <3>1. row[s].token = t
      BY <1>1, <2>3 DEF SafetyInv, SaverHoldsClaim, SaveStates, CommitOf
    <3>2. txn'[t] # txn[t]
      BY <1>1, <2>3 DEF CommitOf, CommitTxn, TypeOK, JobTypeOK
    <3> QED BY <3>1, <3>2 DEF ActsFor
  <2> QED BY <1>1, <2>1, <2>2, <2>3 DEF RowMove, Early, Terminal
<1>2. TypeOK /\ SafetyInv /\ [Next]_vars =>
        [\A s \in Statements :
           row[s].status = "PROCESSING" /\ row[s].lease > now /\ row'[s] # row[s]
             => row'[s].status \in Terminal /\ ActsFor(row[s].token)]_vars
  BY <1>1
<1> QED BY <1>2, SystemIsSafe, PTL DEF Spec, LeaseIsExclusive
=============================================================================
