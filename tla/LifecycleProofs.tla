--------------------------- MODULE LifecycleProofs ---------------------------
(***************************************************************************)
(* What the system does to statements over time, for every value of the    *)
(* constants.                                                              *)
(*                                                                         *)
(* StatementSystem implements StatementLifecycle: every step changes the   *)
(* committed rows and lines by one step of the lifecycle or not at all.    *)
(* Beyond the safety invariant this needs that a processing token is used  *)
(* for one claim only (TokensAreNew).                                      *)
(*                                                                         *)
(* Two facts about what came before: a statement fails for its image only  *)
(* if the image changed after it was checked, and a statement in QUEUED    *)
(* has a message, a request that will see to it, or lost its request.      *)
(* Both need where a step takes what it acts on from (CheckedFirst,        *)
(* FailuresAreFound), and which UPDATEs may still reach a row without      *)
(* their caller (QueueingIsKnown).                                         *)
(***************************************************************************)
EXTENDS StatementSystemProofs

-----------------------------------------------------------------------------
(* Whose step it is, and which steps change a row.                         *)

\* The steps, by who takes them.
LEMMA NextByActor ==
  ASSUME [Next]_vars
  PROVE  \/ UNCHANGED vars
         \/ Tick
         \/ \E m \in Messages : Redrive(m) \/ RetentionEnds(m)
         \/ \E o \in orphans : OrphanStep(o)
         \/ \E s \in Statements : ClientStep(s)
         \/ \E r \in Requests : (RequestStep(r) \/ RequestFault(r)) /\ UNCHANGED jobVars
         \/ \E t \in Attempts : ActionOf(t) /\ UNCHANGED apiVars
<1>1. CASE Failure
  BY <1>1 DEF Failure, ActionOf
<1>2. CASE Backend
  BY <1>1, <1>2 DEF Backend, ApiStep, WorkerReceives, ActionOf, WorkerStep
<1> QED BY <1>2 DEF Next

\* The steps of an attempt that leave all rows as they are.
LEMMA QuietAttempt ==
  ASSUME NEW t \in Attempts, ActionOf(t)
  PROVE  UNCHANGED <<row, lines>> \/ Claim(t) \/ RecordFailure(t) \/ CommitOf(t)
<1> USE DEF storeVars
<1>1. CASE Commit(t) \/ Rollback(t) \/ TxnSettles(t)
  BY <1>1 DEF Commit, Rollback, TxnSettles, AbortOrphanTxn, CommitInDoubt, CommitOf, AbortTxn
<1>2. CASE SendClaim(t) \/ ResolveUnclaimedJob(t) \/ FetchObject(t) \/ AnalyzeImage(t)
  BY <1>2 DEF SendClaim, ResolveUnclaimedJob, FetchObject, FailPermanently, AnalyzeImage
<1>3. CASE \/ SendMarkFailed(t) \/ BeginSave(t) \/ LockStatement(t) \/ WriteLines(t)
           \/ CompleteStatement(t) \/ DeleteJob(t)
  BY <1>3 DEF SendMarkFailed, BeginSave, LockStatement, WriteLines, CompleteStatement, DeleteJob
<1>4. CASE JobFault(t)
  BY <1>4 DEF JobFault, Abandon, SaveFails, RollbackFails
<1>5. ASSUME NEW m \in Messages, Receive(t, m) PROVE UNCHANGED <<row, lines>>
  BY <1>5 DEF Receive
<1> QED BY <1>1, <1>2, <1>3, <1>4, <1>5
        DEF ActionOf, WorkerStep, JobStep, ReceiveJob, ReceiveDuplicate

\* The steps that change a row.
LEMMA NextByRow ==
  ASSUME [Next]_vars
  PROVE  \/ UNCHANGED <<row, lines>>
         \/ \E s \in Statements : CreateStatement(s)
         \/ \E r \in Requests : CompleteUpload(r) \/ Enqueue(r) \/ ResetStatement(r)
         \/ \E o \in orphans : RunOrphan(o)
         \/ \E t \in Attempts : Claim(t) \/ RecordFailure(t) \/ CommitOf(t)
<1> USE DEF storeVars
<1>1. CASE UNCHANGED vars \/ Tick \/ \E m \in Messages : Redrive(m) \/ RetentionEnds(m)
  BY <1>1 DEF vars, Tick, Redrive, RetentionEnds
<1>2. ASSUME NEW o \in orphans, OrphanStep(o) PROVE UNCHANGED <<row, lines>> \/ RunOrphan(o)
  BY <1>2 DEF OrphanStep, DropOrphan
<1>3. ASSUME NEW s \in Statements, ClientStep(s)
      PROVE  UNCHANGED <<row, lines>> \/ CreateStatement(s)
  BY <1>3 DEF ClientStep, ChangeObject, Arrival, StartComplete, StartAnalyze, Start
<1>4. ASSUME NEW r \in Requests, RequestStep(r) \/ RequestFault(r)
      PROVE  UNCHANGED <<row, lines>> \/ CompleteUpload(r) \/ Enqueue(r) \/ ResetStatement(r)
  BY <1>4 DEF RequestStep, RequestFault, HeadObject, SendJob, SendFails, AbandonRequest
<1> QED BY <1>1, <1>2, <1>3, <1>4, NextByActor, QuietAttempt

-----------------------------------------------------------------------------
(* Tokens.                                                                 *)

\* The orphans after a step: fewer, or with the call of who gave up.
LEMMA NextOrphans ==
  ASSUME [Next]_vars
  PROVE  \/ orphans' \subseteq orphans
         \/ \E t \in Attempts : Abandon(t)
         \/ \E r \in Requests : AbandonRequest(r)
<1> USE DEF storeVars
<1>1. CASE UNCHANGED vars \/ Tick \/ \E m \in Messages : Redrive(m) \/ RetentionEnds(m)
  BY <1>1 DEF vars, Tick, Redrive, RetentionEnds
<1>2. ASSUME NEW o \in orphans, OrphanStep(o) PROVE orphans' \subseteq orphans
  BY <1>2 DEF OrphanStep, RunOrphan, DropOrphan
<1>3. ASSUME NEW s \in Statements, ClientStep(s) PROVE UNCHANGED orphans
  BY <1>3 DEF ClientStep, CreateStatement, ChangeObject, Arrival, StartComplete,
      StartAnalyze, Start
<1>4. ASSUME NEW r \in Requests, RequestStep(r) \/ RequestFault(r)
      PROVE  UNCHANGED orphans \/ AbandonRequest(r)
  BY <1>4 DEF RequestStep, RequestFault, HeadObject, CompleteUpload, Enqueue, SendJob,
      ResetStatement, SendFails
<1>5. ASSUME NEW t \in Attempts, ActionOf(t) PROVE UNCHANGED orphans \/ Abandon(t)
  <2>1. CASE Commit(t) \/ Rollback(t) \/ TxnSettles(t)
    BY <2>1 DEF Commit, Rollback, TxnSettles, AbortOrphanTxn, CommitInDoubt, CommitTxn, AbortTxn
  <2>2. CASE \/ SendClaim(t) \/ Claim(t) \/ ResolveUnclaimedJob(t) \/ FetchObject(t)
             \/ AnalyzeImage(t) \/ SendMarkFailed(t) \/ RecordFailure(t)
    BY <2>2 DEF SendClaim, Claim, ResolveUnclaimedJob, FetchObject, FailPermanently,
        AnalyzeImage, SendMarkFailed, RecordFailure
  <2>3. CASE BeginSave(t) \/ LockStatement(t) \/ WriteLines(t) \/ CompleteStatement(t)
             \/ DeleteJob(t)
    BY <2>3 DEF BeginSave, LockStatement, WriteLines, CompleteStatement, DeleteJob
  <2>4. CASE JobFault(t)
    BY <2>4 DEF JobFault, SaveFails, RollbackFails
  <2>5. ASSUME NEW m \in Messages, Receive(t, m) PROVE UNCHANGED orphans
    BY <2>5 DEF Receive
  <2> QED BY <1>5, <2>1, <2>2, <2>3, <2>4, <2>5
          DEF ActionOf, WorkerStep, JobStep, ReceiveJob, ReceiveDuplicate
<1> QED BY <1>1, <1>2, <1>3, <1>4, <1>5, NextByActor

\* An attempt that has not claimed yet had not before the step, either.
LEMMA NextBeforeClaim ==
  ASSUME TypeOK, [Next]_vars, NEW t \in Attempts, pc'[t] \in BeforeClaim
  PROVE  pc[t] \in BeforeClaim
<1> USE DEF TypeOK, JobTypeOK, Goto, BeforeClaim
<1>1. CASE UNCHANGED jobVars
  BY <1>1 DEF jobVars
<1>2. CASE ActionOf(t)
  <2>1. CASE Commit(t) \/ Rollback(t) \/ TxnSettles(t)
    BY <2>1 DEF Commit, Rollback, TxnSettles, AbortOrphanTxn, CommitInDoubt
  <2>2. CASE \/ SendClaim(t) \/ Claim(t) \/ ResolveUnclaimedJob(t) \/ FetchObject(t)
             \/ AnalyzeImage(t) \/ SendMarkFailed(t) \/ RecordFailure(t) \/ DeleteJob(t)
    BY <2>2 DEF SendClaim, Claim, ResolveUnclaimedJob, FetchObject, FailPermanently,
        AnalyzeImage, SendMarkFailed, RecordFailure, DeleteJob
  <2>3. CASE BeginSave(t) \/ LockStatement(t) \/ WriteLines(t) \/ CompleteStatement(t)
    BY <2>3 DEF BeginSave, LockStatement, CheckClaim, WriteLines, CompleteStatement, AdvanceTxn
  <2>4. CASE JobFault(t)
    BY <2>4 DEF JobFault, Abandon, SaveFails, RollbackFails
  <2>5. ASSUME NEW m \in Messages, Receive(t, m) PROVE pc[t] \in BeforeClaim
    BY <2>5 DEF Receive
  <2> QED BY <1>2, <2>1, <2>2, <2>3, <2>4, <2>5
          DEF ActionOf, WorkerStep, JobStep, ReceiveJob, ReceiveDuplicate
<1>3. ASSUME NEW u \in Attempts \ {t}, ActionOf(u) PROVE pc'[t] = pc[t]
  BY <1>3, OthersUntouched
<1> QED BY <1>1, <1>2, <1>3, NextByAttempt

\* What a step may do to the token of s: a claim sets it, or the claim of an
\* attempt that gave up, and otherwise it stays or is cleared.
TokenMove(s) ==
  \/ row'[s].token \in {row[s].token, NoAttempt}
  \/ \E t \in Attempts :
       /\ pc[t] = "claiming" /\ pc'[t] = "fetching"
       /\ row'[s].token = t
       /\ orphans' = orphans
  \/ \E o \in orphans :
       /\ o.op = "claim"
       /\ row'[s].token = o.token
       /\ orphans' = orphans \ {o}

\* No step does anything else to a token.
LEMMA NextMovesTokens ==
  ASSUME TypeOK, WorkIsBound, [Next]_vars, NEW s \in Statements
  PROVE  TokenMove(s)
<1> USE DEF TypeOK, StoreTypeOK, TokenMove
<1>1. CASE UNCHANGED <<row, lines>>
  BY <1>1
<1>2. ASSUME NEW q \in Statements, CreateStatement(q) PROVE TokenMove(s)
  BY <1>2 DEF CreateStatement, Create, NoRow
<1>3. ASSUME NEW q, NEW from, NEW to, row' = SetStatus(q, from, to) PROVE TokenMove(s)
  BY <1>3 DEF SetStatus, Rows
<1>4. ASSUME NEW q, NEW t, NEW at, NEW code, row' = MarkFailed(q, t, at, code)
      PROVE  TokenMove(s)
  BY <1>4 DEF MarkFailed, Rows
<1>5. ASSUME NEW r \in Requests, CompleteUpload(r) \/ Enqueue(r) \/ ResetStatement(r)
      PROVE  TokenMove(s)
  BY <1>3, <1>5 DEF CompleteUpload, Enqueue, ResetStatement, MarkUploaded, MarkQueued,
     ResetQueuedToUploaded
<1>6. ASSUME NEW o \in orphans, RunOrphan(o) PROVE TokenMove(s)
  <2>1. o \in Orphans /\ row' = Effect(o) /\ orphans' = orphans \ {o}
    BY <1>6 DEF RunOrphan
  <2>2. CASE o.op = "claim"
    <3>1. row' = ClaimForProcessing(o.stmt, o.token, o.at)
      BY <2>1, <2>2 DEF Effect
    <3>2. row'[s].token \in {row[s].token, o.token}
      BY <3>1 DEF ClaimForProcessing, Rows
    <3> QED BY <2>1, <2>2, <3>2
  <2>3. CASE o.op = "markFailed"
    BY <1>4, <2>1, <2>3 DEF Effect
  <2>4. CASE o.op \in {"markUploaded", "markQueued", "reset"}
    BY <1>3, <2>1, <2>4 DEF Effect, MarkUploaded, MarkQueued, ResetQueuedToUploaded
  <2> QED BY <2>1, <2>2, <2>3, <2>4 DEF Orphans, AutocommitOps
<1>7. ASSUME NEW t \in Attempts, Claim(t) PROVE TokenMove(s)
  <2>1. CASE ~Claimable(Stmt(t), asOf[t])
    BY <1>7, <2>1 DEF Claim, ClaimForProcessing
  <2>2. CASE Claimable(Stmt(t), asOf[t])
    <3>1. row'[s].token \in {row[s].token, t}
      BY <1>7 DEF Claim, ClaimForProcessing, Rows
    <3>2. pc[t] = "claiming" /\ pc'[t] = "fetching" /\ orphans' = orphans
      BY <1>7, <2>2 DEF Claim, Goto, JobTypeOK
    <3> QED BY <3>1, <3>2
  <2> QED BY <2>1, <2>2
<1>8. ASSUME NEW t \in Attempts, RecordFailure(t) PROVE TokenMove(s)
  BY <1>4, <1>8 DEF RecordFailure
<1>9. ASSUME NEW t \in Attempts, CommitOf(t) PROVE TokenMove(s)
  BY <1>9 DEF CommitOf, CommitTxn, CompletedRow, Rows
<1> QED BY <1>1, <1>2, <1>5, <1>6, <1>7, <1>8, <1>9, NextByRow

\* A claim without a caller was there before, or its attempt has just given up
\* waiting for it.
LEMMA NextOrphanClaims ==
  ASSUME TypeOK, [Next]_vars, NEW o \in orphans', o.op = "claim"
  PROVE  \/ o \in orphans
         \/ \E t \in Attempts :
              /\ pc[t] = "claiming" /\ pc'[t] = "left"
              /\ o = Orphan("claim", Stmt(t), t, asOf[t], NoFailure)
              /\ row' = row
<1>1. ASSUME NEW t \in Attempts, Abandon(t), o \notin orphans
      PROVE  /\ pc[t] = "claiming" /\ pc'[t] = "left"
             /\ o = Orphan("claim", Stmt(t), t, asOf[t], NoFailure)
             /\ row' = row
  BY <1>1 DEF Abandon, CallInFlight, Orphan, TypeOK, JobTypeOK
<1>2. ASSUME NEW r \in Requests, AbandonRequest(r) PROVE o \in orphans
  BY <1>2 DEF AbandonRequest, UpdateInFlight, Orphan
<1> QED BY <1>1, <1>2, NextOrphans

\* TokensAreNew is inductive.
LEMMA NextTokensAreNew ==
  ASSUME TypeOK, SafetyInv, TokensAreNew, [Next]_vars
  PROVE  TokensAreNew'
<1>1. WorkIsBound /\ ClockIsAhead /\ SaverHoldsClaim
  BY DEF SafetyInv
<1>2. \A s \in Statements : TokenMove(s) /\ RowMove(s)
  BY <1>1, NextMovesTokens, NextMovesRows
<1>3. NoAttempt \notin Attempts
  BY StoreAssumption
<1>4. ASSUME NEW t \in Attempts, pc'[t] \in BeforeClaim PROVE ~ClaimedBy(t)'
  <2>1. ~ClaimedBy(t) /\ pc'[t] \notin {"fetching", "left"}
    BY <1>4, NextBeforeClaim DEF TokensAreNew, BeforeClaim
  <2>2. ASSUME NEW s \in Statements PROVE row'[s].token # t
    BY <1>2, <1>3, <2>1, <2>2 DEF TokenMove, ClaimedBy
  <2>3. ASSUME NEW o \in orphans', o.op = "claim" PROVE o.token # t
    BY <2>1, <2>3, NextOrphanClaims DEF ClaimedBy, Orphan
  <2> QED BY <2>2, <2>3 DEF ClaimedBy
<1>5. ASSUME NEW o \in orphans', o.op = "claim"
      PROVE  /\ o.token \in Attempts
             /\ \A s \in Statements : row'[s].token # o.token
             /\ \A p \in orphans' : p.op = "claim" /\ p.token = o.token => p = o
  <2>1. CASE o \in orphans
    <3>1. o.token \in Attempts
      BY <1>5, <2>1 DEF TokensAreNew
    <3>2. ASSUME NEW t \in Attempts, pc[t] = "claiming" PROVE o.token # t
      BY <1>5, <2>1, <3>2 DEF TokensAreNew, BeforeClaim, ClaimedBy
    <3>3. ASSUME NEW s \in Statements PROVE row'[s].token # o.token
      BY <1>2, <1>3, <1>5, <2>1, <3>1, <3>2, <3>3 DEF TokenMove, TokensAreNew
    <3>4. ASSUME NEW p \in orphans', p.op = "claim", p.token = o.token PROVE p = o
      BY <1>5, <2>1, <3>2, <3>4, NextOrphanClaims DEF TokensAreNew, Orphan
    <3> QED BY <3>1, <3>3, <3>4
  <2>2. CASE o \notin orphans
    <3>1. PICK t \in Attempts :
            /\ pc[t] = "claiming"
            /\ o = Orphan("claim", Stmt(t), t, asOf[t], NoFailure)
            /\ row' = row
      BY <1>5, <2>2, NextOrphanClaims
    <3>2. o.token = t /\ ~ClaimedBy(t)
      BY <3>1 DEF Orphan, TokensAreNew, BeforeClaim
    <3>3. ASSUME NEW p \in orphans', p.op = "claim", p.token = t PROVE p = o
      BY <3>1, <3>2, <3>3, NextOrphanClaims DEF ClaimedBy, Orphan
    <3> QED BY <3>1, <3>2, <3>3 DEF ClaimedBy
  <2> QED BY <2>1, <2>2
<1>6. ASSUME NEW s \in Statements, row'[s].status = "ABSENT" PROVE row'[s].token = NoAttempt
  BY <1>2, <1>6 DEF RowMove, TokensAreNew, Terminal
<1> QED BY <1>4, <1>5, <1>6 DEF TokensAreNew

-----------------------------------------------------------------------------
(* The refinement, one operation at a time.                                *)

\* An UPDATE of the API is a move of the lifecycle, or changes nothing.
LEMMA StatusImplemented ==
  ASSUME TypeOK, UNCHANGED lines, NEW s \in Statements, NEW from, NEW to,
         row' = SetStatus(s, from, to)
  PROVE  Lifecycle!Move(s, from, to) \/ UNCHANGED Lifecycle!vars
BY DEF SetStatus, Lifecycle!Move, Lifecycle!vars, TypeOK, StoreTypeOK, Rows

\* So is the INSERT.
LEMMA CreateImplemented ==
  ASSUME TypeOK, TokensAreNew, NEW s \in Statements, CreateStatement(s)
  PROVE  Lifecycle!Register(s)
BY DEF CreateStatement, Create, NoRow, Lifecycle!Register, Lifecycle!Move, TokensAreNew,
   TypeOK, StoreTypeOK, Rows

\* A claim that is granted for a new token is a claim of the lifecycle.
LEMMA ClaimImplemented ==
  ASSUME TypeOK, UNCHANGED lines, NEW s \in Statements, NEW t \in Attempts, NEW at \in Nat,
         \A u \in Statements : row[u].token # t,
         row' = ClaimForProcessing(s, t, at)
  PROVE  Lifecycle!Claim(s, t) \/ UNCHANGED Lifecycle!vars
BY DEF ClaimForProcessing, Claimable, Lifecycle!Claim, Lifecycle!vars, TypeOK, StoreTypeOK, Rows

\* A recorded failure is a failure of the lifecycle: there are no lines yet.
LEMMA FailImplemented ==
  ASSUME TypeOK, LinesFollowCommit, UNCHANGED lines, NEW s \in Statements, NEW t, NEW at,
         NEW code, row' = MarkFailed(s, t, at, code)
  PROVE  Lifecycle!Fail(s) \/ UNCHANGED Lifecycle!vars
<1>1. CASE Owns(s, t, at)
  <2>1. row[s].status = "PROCESSING" /\ lines[s] = NoLines
    BY <1>1 DEF Owns, LinesFollowCommit
  <2>2. /\ row'[s].status = "FAILED" /\ row'[s].token = NoAttempt
        /\ \A u \in Statements \ {s} : row'[u] = row[u]
    BY <1>1 DEF MarkFailed, TypeOK, StoreTypeOK, Rows
  <2>3. lines = [lines EXCEPT ![s] = NoLines]
    BY <2>1 DEF TypeOK, StoreTypeOK
  <2>4. [n \in LineNumbers |->
           IF n \in {} THEN [u \in Statements |-> row[u].token][s] ELSE NoAttempt] = NoLines
    BY DEF NoLines
  <2> QED BY <2>1, <2>2, <2>3, <2>4 DEF Lifecycle!Fail, Lifecycle!Finish
<1>2. CASE ~Owns(s, t, at)
  BY <1>2 DEF MarkFailed, Lifecycle!vars
<1> QED BY <1>1, <1>2

\* A commit completes the statement with all the lines of its holder.
LEMMA CommitImplemented ==
  ASSUME TypeOK, SafetyInv, NEW t \in Attempts, CommitOf(t)
  PROVE  Stmt(t) \in Statements /\ Lifecycle!Complete(Stmt(t))
<1>1. PICK s \in Statements : s = Stmt(t)
  BY DEF SafetyInv, WorkIsBound, SaveFollowsOcr, CommitOf
<1>2. PICK found \in (SUBSET LineNumbers) \ {{}} : found = result[t]
  BY DEF SafetyInv, SaverHoldsClaim, SaveStates, CommitOf, TypeOK, JobTypeOK
<1>3. row[s].status = "PROCESSING" /\ row[s].token = t
  BY <1>1 DEF SafetyInv, SaverHoldsClaim, SaveStates, CommitOf
<1>4. lines[s] = NoLines
  BY <1>1, <1>3 DEF SafetyInv, LinesFollowCommit
<1>5. /\ row'[s].status = "COMPLETED" /\ row'[s].token = NoAttempt
      /\ \A u \in Statements \ {s} : row'[u] = row[u]
  BY <1>1 DEF CommitOf, CommitTxn, CompletedRow, TypeOK, StoreTypeOK, Rows
<1>6. lines' = [lines EXCEPT ![s] =
        [n \in LineNumbers |-> IF n \in found THEN t ELSE NoAttempt]]
  BY <1>1, <1>2, <1>4 DEF CommitOf, CommitTxn, UpsertLines, NoLines, TypeOK, StoreTypeOK
<1>7. Lifecycle!Finish(s, "COMPLETED", found)
  <2>1. [u \in Statements |-> row[u].token][s] = t
    BY <1>3
  <2>2. [n \in LineNumbers |-> IF n \in found
                               THEN [u \in Statements |-> row[u].token][s] ELSE NoAttempt]
        = [n \in LineNumbers |-> IF n \in found THEN t ELSE NoAttempt]
    BY <2>1
  <2>3. lines' = [lines EXCEPT ![s] =
          [n \in LineNumbers |-> IF n \in found
                                 THEN [u \in Statements |-> row[u].token][s] ELSE NoAttempt]]
    BY <1>6, <2>2
  <2>4. /\ [u \in Statements |-> row'[u].status]
           = [[u \in Statements |-> row[u].status] EXCEPT ![s] = "COMPLETED"]
        /\ [u \in Statements |-> row'[u].token]
           = [[u \in Statements |-> row[u].token] EXCEPT ![s] = NoAttempt]
    BY <1>1, <1>5
  <2> QED BY <1>1, <1>3, <2>3, <2>4 DEF Lifecycle!Finish
<1> QED BY <1>1, <1>7 DEF Lifecycle!Complete

\* An UPDATE without a caller does what its caller would have done.
LEMMA OrphanImplemented ==
  ASSUME TypeOK, SafetyInv, TokensAreNew, NEW o \in orphans, RunOrphan(o)
  PROVE  [Lifecycle!Next]_(Lifecycle!vars)
<1>1. /\ o \in Orphans /\ row' = Effect(o) /\ UNCHANGED lines
      /\ o.stmt \in Statements /\ o.at \in Nat
  BY DEF RunOrphan, TypeOK, StoreTypeOK, Orphans
<1>2. CASE o.op = "claim"
  <2>1. row' = ClaimForProcessing(o.stmt, o.token, o.at)
    BY <1>1, <1>2 DEF Effect
  <2>2. o.token \in Attempts /\ \A u \in Statements : row[u].token # o.token
    BY <1>2 DEF TokensAreNew
  <2> QED BY <1>1, <2>1, <2>2, ClaimImplemented DEF Lifecycle!Next
<1>3. CASE o.op = "markFailed"
  <2>1. row' = MarkFailed(o.stmt, o.token, o.at, o.code)
    BY <1>1, <1>3 DEF Effect
  <2> QED BY <1>1, <2>1, FailImplemented DEF SafetyInv, Lifecycle!Next
<1>4. CASE o.op = "markUploaded"
  BY <1>1, <1>4, StatusImplemented DEF Effect, MarkUploaded, Lifecycle!Next, Lifecycle!Upload
<1>5. CASE o.op = "markQueued"
  BY <1>1, <1>5, StatusImplemented DEF Effect, MarkQueued, Lifecycle!Next, Lifecycle!Enqueue
<1>6. CASE o.op = "reset"
  BY <1>1, <1>6, StatusImplemented
  DEF Effect, ResetQueuedToUploaded, Lifecycle!Next, Lifecycle!Withdraw
<1> QED BY <1>1, <1>2, <1>3, <1>4, <1>5, <1>6 DEF Orphans, AutocommitOps

\* Every step is a step of the lifecycle or leaves rows and lines as they were.
LEMMA NextImplemented ==
  ASSUME TypeOK, SafetyInv, TokensAreNew, [Next]_vars
  PROVE  [Lifecycle!Next]_(Lifecycle!vars)
<1>1. CASE UNCHANGED <<row, lines>>
  BY <1>1 DEF Lifecycle!vars
<1>2. ASSUME NEW s \in Statements, CreateStatement(s) PROVE Lifecycle!Next
  BY <1>2, CreateImplemented DEF Lifecycle!Next
<1>3. ASSUME NEW r \in Requests, CompleteUpload(r) \/ Enqueue(r) \/ ResetStatement(r)
      PROVE  [Lifecycle!Next]_(Lifecycle!vars)
  <2>1. target[r] \in Statements /\ UNCHANGED lines
    BY <1>3 DEF CompleteUpload, Enqueue, ResetStatement, TypeOK, ApiTypeOK
  <2>2. CASE CompleteUpload(r)
    BY <2>1, <2>2, StatusImplemented
    DEF CompleteUpload, MarkUploaded, Lifecycle!Next, Lifecycle!Upload
  <2>3. CASE Enqueue(r)
    BY <2>1, <2>3, StatusImplemented DEF Enqueue, MarkQueued, Lifecycle!Next, Lifecycle!Enqueue
  <2>4. CASE ResetStatement(r)
    BY <2>1, <2>4, StatusImplemented
    DEF ResetStatement, ResetQueuedToUploaded, Lifecycle!Next, Lifecycle!Withdraw
  <2> QED BY <1>3, <2>2, <2>3, <2>4
<1>4. ASSUME NEW o \in orphans, RunOrphan(o) PROVE [Lifecycle!Next]_(Lifecycle!vars)
  BY <1>4, OrphanImplemented
<1>5. ASSUME NEW t \in Attempts, Claim(t) PROVE [Lifecycle!Next]_(Lifecycle!vars)
  <2>1. pc[t] = "claiming" /\ Stmt(t) \in Statements /\ asOf[t] \in Nat /\ UNCHANGED lines
    BY <1>5 DEF Claim, SafetyInv, WorkIsBound, TypeOK, JobTypeOK
  <2>2. \A u \in Statements : row[u].token # t
    BY <2>1 DEF TokensAreNew, BeforeClaim, ClaimedBy
  <2>3. row' = ClaimForProcessing(Stmt(t), t, asOf[t])
    BY <1>5 DEF Claim
  <2> QED BY <2>1, <2>2, <2>3, ClaimImplemented DEF Lifecycle!Next
<1>6. ASSUME NEW t \in Attempts, RecordFailure(t) PROVE [Lifecycle!Next]_(Lifecycle!vars)
  <2>1. Stmt(t) \in Statements /\ UNCHANGED lines
    BY <1>6 DEF RecordFailure, SafetyInv, WorkIsBound
  <2>2. row' = MarkFailed(Stmt(t), t, asOf[t], verdict[t])
    BY <1>6 DEF RecordFailure
  <2> QED BY <2>1, <2>2, FailImplemented DEF SafetyInv, Lifecycle!Next
<1>7. ASSUME NEW t \in Attempts, CommitOf(t) PROVE Lifecycle!Next
  BY <1>7, CommitImplemented DEF Lifecycle!Next
<1> QED BY <1>1, <1>2, <1>3, <1>4, <1>5, <1>6, <1>7, NextByRow

\* The system starts where the lifecycle starts, and no token is in use.
LEMMA LifecycleInit == ASSUME Init PROVE Lifecycle!Init /\ TokensAreNew
<1> USE DEF Init, StoreInit, NoRow
<1>1. Lifecycle!Init
  BY DEF Lifecycle!Init, Lifecycle!NoOutcome, NoLines
<1>2. TokensAreNew
  BY StoreAssumption DEF TokensAreNew, ClaimedBy
<1> QED BY <1>1, <1>2

-----------------------------------------------------------------------------
\* The UUID of an invocation serves as token of one claim only.
THEOREM TokensStayNew == Spec => []TokensAreNew
<1>1. TypeOK /\ SafetyInv /\ TokensAreNew /\ [Next]_vars => TokensAreNew'
  BY NextTokensAreNew
<1> QED BY <1>1, LifecycleInit, SystemIsSafe, PTL DEF Spec

\* With all its leases, tokens, messages, requests and transactions, and the
\* failures of all of them, the system only moves statements along the
\* lifecycle.
THEOREM SystemImplementsLifecycle == Spec => LifecycleImplemented
<1>1. TypeOK /\ SafetyInv /\ TokensAreNew /\ [Next]_vars => [Lifecycle!Next]_(Lifecycle!vars)
  BY NextImplemented
<1> QED BY <1>1, LifecycleInit, SystemIsSafe, TokensStayNew, PTL
        DEF Spec, LifecycleImplemented, Lifecycle!Spec

-----------------------------------------------------------------------------
(* Whose steps concern requests and objects.                               *)

\* The requests move by their own steps only.
LEMMA NextByRequest ==
  ASSUME [Next]_vars
  PROVE  \/ UNCHANGED apiVars
         \/ \E s \in Statements, r \in Requests : Arrival(r, s)
         \/ \E r \in Requests : RequestStep(r) \/ RequestFault(r)
<1>1. CASE UNCHANGED vars \/ Tick \/ \E m \in Messages : Redrive(m) \/ RetentionEnds(m)
  BY <1>1 DEF vars, Tick, Redrive, RetentionEnds
<1>2. CASE \E o \in orphans : OrphanStep(o)
  BY <1>2 DEF OrphanStep
<1>3. ASSUME NEW s \in Statements, ClientStep(s)
      PROVE  UNCHANGED apiVars \/ \E r \in Requests : Arrival(r, s)
  BY <1>3 DEF ClientStep, CreateStatement, ChangeObject
<1> QED BY <1>1, <1>2, <1>3, NextByActor

\* The objects are changed by clients and marked as checked by HeadObject.
LEMMA NextByObject ==
  ASSUME [Next]_vars
  PROVE  \/ UNCHANGED objectVars
         \/ \E s \in Statements, o \in Objects : ChangeObject(s, o)
         \/ \E r \in Requests : HeadObject(r)
<1>1. CASE UNCHANGED vars \/ Tick \/ \E m \in Messages : Redrive(m) \/ RetentionEnds(m)
  BY <1>1 DEF vars, Tick, Redrive, RetentionEnds
<1>2. CASE \E o \in orphans : OrphanStep(o)
  BY <1>2 DEF OrphanStep
<1>3. ASSUME NEW s \in Statements, ClientStep(s)
      PROVE  UNCHANGED objectVars \/ \E o \in Objects : ChangeObject(s, o)
  BY <1>3 DEF ClientStep, CreateStatement, Arrival, StartComplete, StartAnalyze, Start
<1>4. ASSUME NEW r \in Requests, RequestStep(r) \/ RequestFault(r)
      PROVE  UNCHANGED objectVars \/ HeadObject(r)
  BY <1>4 DEF RequestStep, RequestFault, CompleteUpload, Enqueue, SendJob, ResetStatement,
     SendFails, AbandonRequest
<1>5. ASSUME NEW t \in Attempts, ActionOf(t) PROVE UNCHANGED objectVars
  <2>1. CASE Commit(t) \/ Rollback(t) \/ TxnSettles(t)
    BY <2>1 DEF Commit, Rollback, TxnSettles, AbortOrphanTxn, CommitInDoubt, CommitTxn, AbortTxn
  <2>2. CASE \/ SendClaim(t) \/ Claim(t) \/ ResolveUnclaimedJob(t) \/ FetchObject(t)
             \/ AnalyzeImage(t) \/ SendMarkFailed(t) \/ RecordFailure(t) \/ DeleteJob(t)
    BY <2>2 DEF SendClaim, Claim, ResolveUnclaimedJob, FetchObject, AnalyzeImage,
       SendMarkFailed, RecordFailure, DeleteJob
  <2>3. CASE BeginSave(t) \/ LockStatement(t) \/ WriteLines(t) \/ CompleteStatement(t)
    BY <2>3 DEF BeginSave, LockStatement, WriteLines, CompleteStatement
  <2>4. CASE JobFault(t)
    BY <2>4 DEF JobFault, Abandon, SaveFails, RollbackFails
  <2>5. ASSUME NEW m \in Messages, Receive(t, m) PROVE UNCHANGED objectVars
    BY <2>5 DEF Receive
  <2> QED BY <1>5, <2>1, <2>2, <2>3, <2>4, <2>5
          DEF ActionOf, WorkerStep, JobStep, ReceiveJob, ReceiveDuplicate
<1> QED BY <1>1, <1>2, <1>3, <1>4, <1>5, NextByActor

-----------------------------------------------------------------------------
(* Objects.                                                                *)

\* An object that was checked stays so, and one that changed since, too.
LEMMA NextKeepsTrust ==
  ASSUME TypeOK, [Next]_vars, NEW s \in Statements
  PROVE  /\ trust[s] # "unchecked" => trust'[s] # "unchecked"
         /\ trust[s] = "changed" => trust'[s] = "changed"
<1> USE DEF TypeOK, ObjectTypeOK
<1>1. CASE UNCHANGED objectVars
  BY <1>1 DEF objectVars
<1>2. ASSUME NEW q \in Statements, NEW o \in Objects, ChangeObject(q, o)
      PROVE  /\ trust[s] # "unchecked" => trust'[s] # "unchecked"
             /\ trust[s] = "changed" => trust'[s] = "changed"
  BY <1>2 DEF ChangeObject, StoreObject
<1>3. ASSUME NEW r \in Requests, HeadObject(r)
      PROVE  /\ trust[s] # "unchecked" => trust'[s] # "unchecked"
             /\ trust[s] = "changed" => trust'[s] = "changed"
  BY <1>3 DEF HeadObject, HeadMatches, objectVars
<1> QED BY <1>1, <1>2, <1>3, NextByObject

\* An object nobody has changed since its check is the one that was found.
LEMMA NextKeepsMatching ==
  ASSUME TypeOK, CheckedFirst, [Next]_vars, NEW s \in Statements, trust'[s] = "checked"
  PROVE  object'[s] = "matching"
<1> USE DEF TypeOK, ObjectTypeOK, ApiTypeOK, CheckedFirst
<1>1. CASE UNCHANGED objectVars
  BY <1>1 DEF objectVars
<1>2. ASSUME NEW q \in Statements, NEW o \in Objects, ChangeObject(q, o)
      PROVE  object'[s] = "matching"
  BY <1>2 DEF ChangeObject, StoreObject
<1>3. ASSUME NEW r \in Requests, HeadObject(r) PROVE object'[s] = "matching"
  BY <1>3 DEF HeadObject, HeadMatches, objectVars
<1> QED BY <1>1, <1>2, <1>3, NextByObject

-----------------------------------------------------------------------------
(* Requests, and the rows they move.                                       *)

\* A statement leaves UPLOAD_PENDING by a request that awaits its UPDATE, or by
\* the UPDATE of one that was cut off.
LEMMA NextUploads ==
  ASSUME TypeOK, SafetyInv, [Next]_vars, NEW s \in Statements,
         row[s].status \in {"ABSENT", "UPLOAD_PENDING"},
         row'[s].status \notin {"ABSENT", "UPLOAD_PENDING"}
  PROVE  \/ \E r \in Requests : phase[r] = "uploading" /\ target[r] = s
         \/ \E o \in orphans : o.op = "markUploaded" /\ o.stmt = s
<1> USE DEF TypeOK, StoreTypeOK, Rows
<1>1. ~UNCHANGED <<row, lines>>
  OBVIOUS
<1>2. ASSUME NEW q \in Statements, CreateStatement(q) PROVE FALSE
  BY <1>2 DEF CreateStatement, Create, NoRow
<1>3. ASSUME NEW r \in Requests, CompleteUpload(r) \/ Enqueue(r) \/ ResetStatement(r)
      PROVE  phase[r] = "uploading" /\ target[r] = s
  BY <1>3 DEF CompleteUpload, Enqueue, ResetStatement, MarkUploaded, MarkQueued,
     ResetQueuedToUploaded, SetStatus, Proceed
<1>4. ASSUME NEW o \in orphans, RunOrphan(o) PROVE o.op = "markUploaded" /\ o.stmt = s
  <2>1. o \in Orphans /\ row' = Effect(o)
    BY <1>4 DEF RunOrphan
  <2>2. CASE o.op = "claim"
    BY <2>1, <2>2 DEF Effect, ClaimForProcessing, Claimable
  <2>3. CASE o.op = "markFailed"
    BY <2>1, <2>3 DEF Effect, MarkFailed, Owns
  <2>4. CASE o.op \in {"markQueued", "reset"}
    BY <2>1, <2>4 DEF Effect, MarkQueued, ResetQueuedToUploaded, SetStatus
  <2>5. CASE o.op = "markUploaded"
    BY <2>1, <2>5 DEF Effect, MarkUploaded, SetStatus
  <2> QED BY <2>1, <2>2, <2>3, <2>4, <2>5 DEF Orphans, AutocommitOps
<1>5. ASSUME NEW t \in Attempts, Claim(t) \/ RecordFailure(t) PROVE FALSE
  BY <1>5 DEF Claim, RecordFailure, ClaimForProcessing, MarkFailed, Claimable, Owns
<1>6. ASSUME NEW t \in Attempts, CommitOf(t) PROVE FALSE
  BY <1>6 DEF CommitOf, CommitTxn, CompletedRow, SafetyInv, SaverHoldsClaim, SaveStates
<1> QED BY <1>1, <1>2, <1>3, <1>4, <1>5, <1>6, NextByRow

\* A statement becomes QUEUED by a request that goes on to send its message, or
\* by the UPDATE of one that was cut off.
LEMMA NextQueues ==
  ASSUME TypeOK, [Next]_vars, NEW s \in Statements,
         row[s].status # "QUEUED", row'[s].status = "QUEUED"
  PROVE  \/ \E r \in Requests : phase'[r] = "sending" /\ target'[r] = s
         \/ \E o \in orphans : o.op = "markQueued" /\ o.stmt = s
<1> USE DEF TypeOK, StoreTypeOK, Rows
<1>1. ~UNCHANGED <<row, lines>>
  OBVIOUS
<1>2. ASSUME NEW q \in Statements, CreateStatement(q) PROVE FALSE
  BY <1>2 DEF CreateStatement, Create, NoRow
<1>3. ASSUME NEW r \in Requests, CompleteUpload(r) \/ ResetStatement(r) PROVE FALSE
  BY <1>3 DEF CompleteUpload, ResetStatement, MarkUploaded, ResetQueuedToUploaded, SetStatus
<1>4. ASSUME NEW r \in Requests, Enqueue(r) PROVE phase'[r] = "sending" /\ target'[r] = s
  BY <1>4 DEF Enqueue, MarkQueued, SetStatus, Proceed, ApiTypeOK
<1>5. ASSUME NEW o \in orphans, RunOrphan(o) PROVE o.op = "markQueued" /\ o.stmt = s
  <2>1. o \in Orphans /\ row' = Effect(o)
    BY <1>5 DEF RunOrphan
  <2>2. CASE o.op = "claim"
    BY <2>1, <2>2 DEF Effect, ClaimForProcessing
  <2>3. CASE o.op = "markFailed"
    BY <2>1, <2>3 DEF Effect, MarkFailed
  <2>4. CASE o.op \in {"markUploaded", "reset"}
    BY <2>1, <2>4 DEF Effect, MarkUploaded, ResetQueuedToUploaded, SetStatus
  <2>5. CASE o.op = "markQueued"
    BY <2>1, <2>5 DEF Effect, MarkQueued, SetStatus
  <2> QED BY <2>1, <2>2, <2>3, <2>4, <2>5 DEF Orphans, AutocommitOps
<1>6. ASSUME NEW t \in Attempts, Claim(t) \/ RecordFailure(t) \/ CommitOf(t) PROVE FALSE
  BY <1>6 DEF Claim, RecordFailure, ClaimForProcessing, MarkFailed, CommitOf, CommitTxn,
     CompletedRow
<1> QED BY <1>1, <1>2, <1>3, <1>4, <1>5, <1>6, NextByRow

\* A request is past HeadObject only for an object that was found, or that the
\* status of the statement vouches for.
LEMMA NextChecks ==
  ASSUME TypeOK, [Next]_vars, NEW r \in Requests, phase'[r] \notin {"idle", "heading"}
  PROVE  \/ phase[r] \notin {"idle", "heading"} /\ target'[r] = target[r]
         \/ trust'[target'[r]] # "unchecked"
         \/ row[target'[r]].status = "UPLOADED"
<1> USE DEF TypeOK, ApiTypeOK, ObjectTypeOK, Proceed
<1>1. CASE UNCHANGED apiVars
  BY <1>1 DEF apiVars
<1>2. ASSUME NEW s \in Statements, NEW q \in Requests, Arrival(q, s)
      PROVE  \/ phase[r] \notin {"idle", "heading"} /\ target'[r] = target[r]
             \/ row[target'[r]].status = "UPLOADED"
  BY <1>2 DEF Arrival, StartComplete, StartAnalyze, Start
<1>3. ASSUME NEW q \in Requests, HeadObject(q)
      PROVE  \/ phase[r] \notin {"idle", "heading"} /\ target'[r] = target[r]
             \/ trust'[target'[r]] # "unchecked"
  BY <1>3 DEF HeadObject, HeadMatches
<1>4. ASSUME NEW q \in Requests,
             \/ CompleteUpload(q) \/ Enqueue(q) \/ ResetStatement(q) \/ RequestFault(q)
             \/ \E m \in Messages : SendJob(q, m)
      PROVE  phase[r] \notin {"idle", "heading"} /\ target'[r] = target[r]
  BY <1>4 DEF CompleteUpload, Enqueue, SendJob, ResetStatement, RequestFault, SendFails,
     AbandonRequest
<1> QED BY <1>1, <1>2, <1>3, <1>4, NextByRequest DEF RequestStep

\* The UPDATE of the API that was left without a caller by the last step.
LEMMA NextOrphanUpdates ==
  ASSUME TypeOK, [Next]_vars, NEW o \in orphans', o \notin orphans,
         o.op \in {"markUploaded", "markQueued"}
  PROVE  \E r \in Requests :
           /\ o.stmt = target[r]
           /\ o.op = "markUploaded" => phase[r] = "uploading"
           /\ o.op = "markQueued" => target[r] \in stranded'
<1>1. ASSUME NEW t \in Attempts, Abandon(t) PROVE FALSE
  BY <1>1 DEF Abandon, CallInFlight, Orphan
<1>2. ASSUME NEW r \in Requests, AbandonRequest(r)
      PROVE  /\ o.stmt = target[r]
             /\ o.op = "markUploaded" => phase[r] = "uploading"
             /\ o.op = "markQueued" => target[r] \in stranded'
  BY <1>2 DEF AbandonRequest, UpdateInFlight, Orphan
<1> QED BY <1>1, <1>2, NextOrphans

\* CheckedFirst is inductive.
LEMMA NextCheckedFirst ==
  ASSUME TypeOK, TypeOK', SafetyInv, CheckedFirst, [Next]_vars
  PROVE  CheckedFirst'
<1>1. ASSUME NEW s \in Statements, row'[s].status \notin {"ABSENT", "UPLOAD_PENDING"}
      PROVE  trust'[s] # "unchecked"
  <2>1. trust[s] # "unchecked"
    BY <1>1, NextUploads DEF CheckedFirst
  <2> QED BY <2>1, NextKeepsTrust
<1>2. ASSUME NEW s \in Statements, trust'[s] = "checked" PROVE object'[s] = "matching"
  BY <1>2, NextKeepsMatching
<1>3. ASSUME NEW r \in Requests, phase'[r] \notin {"idle", "heading"}
      PROVE  trust'[target'[r]] # "unchecked"
  <2>1. target[r] \in Statements /\ target'[r] \in Statements
    BY DEF TypeOK, ApiTypeOK
  <2>2. trust[target'[r]] # "unchecked" \/ trust'[target'[r]] # "unchecked"
    BY <1>3, <2>1, NextChecks DEF CheckedFirst
  <2> QED BY <2>1, <2>2, NextKeepsTrust
<1>4. ASSUME NEW m \in Messages, message'[m].place # "unsent"
      PROVE  trust'[message'[m].stmt] # "unchecked"
  <2>1. message'[m].stmt \in Statements /\ trust[message'[m].stmt] # "unchecked"
    BY <1>4, NextMovesMessages
    DEF MessageMove, CheckedFirst, SafetyInv, WorkIsBound, TypeOK, ApiTypeOK
  <2> QED BY <2>1, NextKeepsTrust
<1>5. ASSUME NEW o \in orphans', o.op = "markUploaded" PROVE trust'[o.stmt] # "unchecked"
  <2>1. o.stmt \in Statements
    BY DEF TypeOK, StoreTypeOK, Orphans
  <2>2. trust[o.stmt] # "unchecked"
    BY <1>5, NextOrphanUpdates DEF CheckedFirst
  <2> QED BY <2>1, <2>2, NextKeepsTrust
<1> QED BY <1>1, <1>2, <1>3, <1>4, <1>5 DEF CheckedFirst

-----------------------------------------------------------------------------
(* Failures.                                                               *)

\* Who is about to record a failure has met one at this step, or earlier.
LEMMA NextVerdicts ==
  ASSUME TypeOK, [Next]_vars, NEW t \in Attempts, pc'[t] \in {"failing", "marking"}
  PROVE  /\ job'[t] = job[t] /\ pc[t] # "unused"
         /\ \/ pc[t] \in {"failing", "marking"} /\ verdict'[t] = verdict[t]
            \/ verdict'[t] = "OCR_FAILED"
            \/ object[Stmt(t)] # "matching"
<1> DEFINE Goal ==
      /\ job'[t] = job[t] /\ pc[t] # "unused"
      /\ \/ pc[t] \in {"failing", "marking"} /\ verdict'[t] = verdict[t]
         \/ verdict'[t] = "OCR_FAILED"
         \/ object[Stmt(t)] # "matching"
<1> USE DEF TypeOK, JobTypeOK, Goto
<1>1. CASE UNCHANGED jobVars
  BY <1>1 DEF jobVars
<1>2. ASSUME NEW u \in Attempts, ActionOf(u) PROVE Goal
  <2>1. CASE Commit(u) \/ Rollback(u) \/ TxnSettles(u)
    BY <2>1 DEF Commit, Rollback, TxnSettles, AbortOrphanTxn, CommitInDoubt, CommitTxn, AbortTxn
  <2>2. CASE \/ SendClaim(u) \/ Claim(u) \/ ResolveUnclaimedJob(u) \/ DeleteJob(u)
             \/ SendMarkFailed(u) \/ RecordFailure(u)
    BY <2>2 DEF SendClaim, Claim, ResolveUnclaimedJob, DeleteJob, SendMarkFailed, RecordFailure
  <2>3. CASE FetchObject(u) \/ AnalyzeImage(u)
    BY <2>3 DEF FetchObject, AnalyzeImage, FailPermanently, ObjectFound, BodyMatches
  <2>4. CASE BeginSave(u) \/ LockStatement(u) \/ WriteLines(u) \/ CompleteStatement(u)
    BY <2>4 DEF BeginSave, LockStatement, CheckClaim, WriteLines, CompleteStatement, AdvanceTxn
  <2>5. CASE JobFault(u)
    BY <2>5 DEF JobFault, Abandon, SaveFails, RollbackFails
  <2>6. ASSUME NEW m \in Messages, Receive(u, m) PROVE Goal
    BY <2>6 DEF Receive
  <2> QED BY <1>2, <2>1, <2>2, <2>3, <2>4, <2>5, <2>6
          DEF ActionOf, WorkerStep, JobStep, ReceiveJob, ReceiveDuplicate
<1> QED BY <1>1, <1>2, NextByAttempt

\* A failure is recorded by an attempt in "marking", or by the UPDATE of one
\* that gave up.
LEMMA NextFailures ==
  ASSUME TypeOK, SafetyInv, [Next]_vars, NEW s \in Statements,
         row'[s].failure \notin {row[s].failure, NoFailure}
  PROVE  \/ \E t \in Attempts :
              pc[t] = "marking" /\ Stmt(t) = s /\ row'[s].failure = verdict[t]
         \/ \E o \in orphans : o.stmt = s /\ row'[s].failure = o.code
<1> USE DEF TypeOK, StoreTypeOK, Rows
<1>1. ~UNCHANGED <<row, lines>>
  OBVIOUS
<1>2. ASSUME NEW q \in Statements, CreateStatement(q) PROVE FALSE
  BY <1>2 DEF CreateStatement, Create, NoRow
<1>3. ASSUME NEW q, NEW from, NEW to, row' = SetStatus(q, from, to) PROVE FALSE
  BY <1>3 DEF SetStatus
<1>4. ASSUME NEW r \in Requests, CompleteUpload(r) \/ Enqueue(r) \/ ResetStatement(r)
      PROVE  FALSE
  BY <1>3, <1>4 DEF CompleteUpload, Enqueue, ResetStatement, MarkUploaded, MarkQueued,
     ResetQueuedToUploaded
<1>5. ASSUME NEW o \in orphans, RunOrphan(o) PROVE o.stmt = s /\ row'[s].failure = o.code
  <2>1. o \in Orphans /\ row' = Effect(o)
    BY <1>5 DEF RunOrphan
  <2>2. CASE o.op = "claim"
    BY <2>1, <2>2 DEF Effect, ClaimForProcessing
  <2>3. CASE o.op = "markFailed"
    BY <2>1, <2>3 DEF Effect, MarkFailed
  <2>4. CASE o.op \in {"markUploaded", "markQueued", "reset"}
    BY <1>3, <2>1, <2>4 DEF Effect, MarkUploaded, MarkQueued, ResetQueuedToUploaded
  <2> QED BY <2>1, <2>2, <2>3, <2>4 DEF Orphans, AutocommitOps
<1>6. ASSUME NEW t \in Attempts, Claim(t) \/ CommitOf(t) PROVE FALSE
  <2>1. CASE Claim(t)
    BY <1>6, <2>1 DEF Claim, ClaimForProcessing
  <2>2. CASE CommitOf(t)
    <3>1. row'[s] = row[s] \/ row'[s].failure = NoFailure
      BY <2>2 DEF CommitOf, CommitTxn, CompletedRow
    <3> QED BY <3>1
  <2> QED BY <1>6, <2>1, <2>2
<1>7. ASSUME NEW t \in Attempts, RecordFailure(t)
      PROVE  pc[t] = "marking" /\ Stmt(t) = s /\ row'[s].failure = verdict[t]
  BY <1>7 DEF RecordFailure, MarkFailed
<1> QED BY <1>1, <1>2, <1>4, <1>5, <1>6, <1>7, NextByRow

\* A failure code in the call of who gave up is the one it was recording.
LEMMA NextOrphanFailures ==
  ASSUME [Next]_vars, NEW o \in orphans', o \notin orphans, o.code # NoFailure
  PROVE  \E t \in Attempts : pc[t] = "marking" /\ o.stmt = Stmt(t) /\ o.code = verdict[t]
<1>1. ASSUME NEW t \in Attempts, Abandon(t)
      PROVE  pc[t] = "marking" /\ o.stmt = Stmt(t) /\ o.code = verdict[t]
  BY <1>1 DEF Abandon, CallInFlight, Orphan
<1>2. ASSUME NEW r \in Requests, AbandonRequest(r) PROVE FALSE
  BY <1>2 DEF AbandonRequest, UpdateInFlight, Orphan
<1> QED BY <1>1, <1>2, NextOrphans

\* FailuresAreFound is inductive.
LEMMA NextFailuresAreFound ==
  ASSUME TypeOK, TypeOK', SafetyInv, CheckedFirst, FailuresAreFound, [Next]_vars
  PROVE  FailuresAreFound'
<1>1. NoFailure \notin SourceFailures /\ "OCR_FAILED" \notin SourceFailures
  BY DEF NoFailure, SourceFailures
<1>2. \A t \in Attempts : pc[t] # "unused" =>
        Stmt(t) \in Statements /\ trust[Stmt(t)] # "unchecked"
  BY DEF SafetyInv, WorkIsBound, CheckedFirst
<1>3. ASSUME NEW t \in Attempts, pc'[t] \in {"failing", "marking"},
             verdict'[t] \in SourceFailures
      PROVE  trust'[Stmt(t)'] = "changed"
  <2>1. job'[t] = job[t] /\ pc[t] # "unused"
    BY <1>3, NextVerdicts
  <2>2. Stmt(t) \in Statements /\ trust[Stmt(t)] # "unchecked"
    BY <1>2, <2>1
  <2>3. trust[Stmt(t)] = "changed"
    BY <1>1, <1>3, <2>2, NextVerdicts DEF FailuresAreFound, CheckedFirst, TypeOK, ObjectTypeOK
  <2> QED BY <2>1, <2>2, <2>3, NextKeepsTrust DEF Stmt
<1>4. ASSUME NEW o \in orphans', o.code \in SourceFailures PROVE trust'[o.stmt] = "changed"
  <2>1. o.stmt \in Statements
    BY DEF TypeOK, StoreTypeOK, Orphans
  <2>2. trust[o.stmt] = "changed"
    BY <1>1, <1>4, NextOrphanFailures DEF FailuresAreFound
  <2> QED BY <2>1, <2>2, NextKeepsTrust
<1>5. ASSUME NEW s \in Statements, row'[s].failure \in SourceFailures
      PROVE  trust'[s] = "changed"
  <2>1. trust[s] = "changed"
    BY <1>1, <1>5, NextFailures DEF FailuresAreFound, SourceFailureNeedsChange, SourceFailures
  <2> QED BY <2>1, NextKeepsTrust
<1> QED BY <1>3, <1>4, <1>5 DEF FailuresAreFound, SourceFailureNeedsChange, SourceFailures

-----------------------------------------------------------------------------
(* Queueing.                                                               *)

\* A request that has made its statement QUEUED sends the message, goes on to
\* take the status back, has done so, or was cut off.
LEMMA NextSending ==
  ASSUME TypeOK, [Next]_vars, NEW r \in Requests, phase[r] \in {"sending", "resetting"}
  PROVE  \/ phase'[r] \in {"sending", "resetting"} /\ target'[r] = target[r]
         \/ \E m \in Messages : message'[m].stmt = target[r] /\ Kept(m)'
         \/ row'[target[r]].status # "QUEUED"
         \/ target[r] \in stranded'
<1> DEFINE Goal ==
      \/ phase'[r] \in {"sending", "resetting"} /\ target'[r] = target[r]
      \/ \E m \in Messages : message'[m].stmt = target[r] /\ Kept(m)'
      \/ row'[target[r]].status # "QUEUED"
      \/ target[r] \in stranded'
<1> USE DEF TypeOK, ApiTypeOK, Proceed
<1>1. CASE UNCHANGED apiVars
  BY <1>1 DEF apiVars
<1>2. ASSUME NEW s \in Statements, NEW q \in Requests, Arrival(q, s) PROVE Goal
  BY <1>2 DEF Arrival, StartComplete, StartAnalyze, Start
<1>3. ASSUME NEW q \in Requests, HeadObject(q) \/ CompleteUpload(q) \/ Enqueue(q) PROVE Goal
  BY <1>3 DEF HeadObject, CompleteUpload, Enqueue
<1>4. ASSUME NEW q \in Requests, NEW m \in Messages, SendJob(q, m) PROVE Goal
  <2>1. CASE q = r
    BY <1>4, <2>1 DEF SendJob, SendAnalyzeJob, Kept, QueueTypeOK
  <2>2. CASE q # r
    BY <1>4, <2>2 DEF SendJob
  <2> QED BY <2>1, <2>2
<1>5. ASSUME NEW q \in Requests, ResetStatement(q) PROVE Goal
  <2>1. CASE q = r
    BY <1>5, <2>1 DEF ResetStatement, ResetQueuedToUploaded, SetStatus, StoreTypeOK, Rows
  <2>2. CASE q # r
    BY <1>5, <2>2 DEF ResetStatement
  <2> QED BY <2>1, <2>2
<1>6. ASSUME NEW q \in Requests, SendFails(q) \/ AbandonRequest(q) PROVE Goal
  BY <1>6 DEF SendFails, AbandonRequest
<1> QED BY <1>1, <1>2, <1>3, <1>4, <1>5, <1>6, NextByRequest DEF RequestStep, RequestFault

\* A statement that lost its request is known to have lost it from then on.
LEMMA NextStranded ==
  ASSUME [Next]_vars
  PROVE  stranded \subseteq stranded'
BY NextByRequest DEF apiVars, Arrival, StartComplete, StartAnalyze, Start, RequestStep,
   RequestFault, HeadObject, CompleteUpload, Enqueue, SendJob, ResetStatement, SendFails,
   AbandonRequest

\* QueueingIsKnown is inductive.
LEMMA NextQueueingIsKnown ==
  ASSUME TypeOK, SafetyInv, QueueingIsKnown, [Next]_vars
  PROVE  QueueingIsKnown'
<1>1. ASSUME NEW o \in orphans', o.op = "markQueued" PROVE o.stmt \in stranded'
  BY <1>1, NextOrphanUpdates, NextStranded DEF QueueingIsKnown
<1> DEFINE Backed(s) ==
      \/ \E m \in Messages : message[m].stmt = s /\ Kept(m)
      \/ \E r \in Requests : target[r] = s /\ phase[r] \in {"sending", "resetting"}
      \/ s \in stranded
<1>2. ASSUME NEW s \in Statements, row'[s].status = "QUEUED" PROVE Backed(s)'
  <2>1. CASE row[s].status # "QUEUED"
    BY <1>2, <2>1, NextQueues, NextStranded DEF QueueingIsKnown
  <2>2. CASE row[s].status = "QUEUED"
    <3>1. Backed(s)
      BY <2>2 DEF QueueingIsKnown, QueuedIsBacked
    <3>2. ASSUME NEW m \in Messages, message[m].stmt = s, Kept(m)
          PROVE  message'[m].stmt = s /\ Kept(m)'
      <4>1. MessageMove(m) /\ message[m].place # "unsent"
        BY <3>2, NextMovesMessages DEF SafetyInv, Kept
      <4>2. \A t \in Attempts : pc[t] = "acking" => Stmt(t) # s
        BY <2>2 DEF SafetyInv, AckFollowsOutcome, Terminal
      <4> QED BY <3>2, <4>1, <4>2 DEF MessageMove, Kept
    <3>3. ASSUME NEW r \in Requests, target[r] = s, phase[r] \in {"sending", "resetting"}
          PROVE  Backed(s)'
      BY <1>2, <3>3, NextSending
    <3>4. CASE s \in stranded
      BY <3>4, NextStranded
    <3> QED BY <3>1, <3>2, <3>3, <3>4
  <2> QED BY <2>1, <2>2
<1> QED BY <1>1, <1>2 DEF QueueingIsKnown, QueuedIsBacked

-----------------------------------------------------------------------------
(* The theorems.                                                           *)

\* Nothing is uploaded, failed or queued at the start.
LEMMA HistoryInit == ASSUME Init PROVE CheckedFirst /\ FailuresAreFound /\ QueueingIsKnown
<1> USE DEF Init, StoreInit, QueueInit, ObjectInit, JobInit, ApiInit, NoRow, NotSent
<1>1. CheckedFirst
  BY DEF CheckedFirst
<1>2. FailuresAreFound
  BY DEF FailuresAreFound, SourceFailureNeedsChange, NoFailure
<1>3. QueueingIsKnown
  BY DEF QueueingIsKnown, QueuedIsBacked
<1> QED BY <1>1, <1>2, <1>3

\* Whatever follows the upload was preceded by a HeadObject that matched.
THEOREM HeadComesFirst == Spec => []CheckedFirst
<1>1. TypeOK /\ TypeOK' /\ SafetyInv /\ CheckedFirst /\ [Next]_vars => CheckedFirst'
  BY NextCheckedFirst
<1> QED BY <1>1, HistoryInit, SystemIsSafe, PTL DEF Spec

\* A statement fails for a missing or wrong image only if the image was changed
\* after upload/complete had found the registered one.
THEOREM FailuresHaveCause == Spec => []SourceFailureNeedsChange
<1>1. TypeOK /\ TypeOK' /\ SafetyInv /\ CheckedFirst /\ FailuresAreFound /\ [Next]_vars
        => FailuresAreFound'
  BY NextFailuresAreFound
<1>2. FailuresAreFound => SourceFailureNeedsChange
  BY DEF FailuresAreFound
<1> QED BY <1>1, <1>2, HistoryInit, HeadComesFirst, SystemIsSafe, PTL DEF Spec

\* A statement in QUEUED has a message that no worker disposed of, a request
\* that sends one or takes the status back, or is one whose request was cut off.
THEOREM QueuedHasWork == Spec => []QueuedIsBacked
<1>1. TypeOK /\ SafetyInv /\ QueueingIsKnown /\ [Next]_vars => QueueingIsKnown'
  BY NextQueueingIsKnown
<1>2. QueueingIsKnown => QueuedIsBacked
  BY DEF QueueingIsKnown
<1> QED BY <1>1, <1>2, HistoryInit, SystemIsSafe, PTL DEF Spec
=============================================================================
