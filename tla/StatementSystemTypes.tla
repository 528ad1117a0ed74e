------------------------ MODULE StatementSystemTypes ------------------------
(***************************************************************************)
(* Type correctness of StatementSystem, for every value of the constants.  *)
(*                                                                         *)
(* The type invariant is not inductive: a call that is abandoned becomes   *)
(* an orphan for the statement of its job, which is a statement only       *)
(* because jobs are bound to one (WorkIsBound).                            *)
(***************************************************************************)
EXTENDS SystemInvariant, TLAPS

-----------------------------------------------------------------------------
(* The table after each statement is a table of rows.                      *)

\* A guarded UPDATE of the status leaves a table of rows.
LEMMA SetStatusType ==
  ASSUME row \in [Statements -> Rows], NEW s, NEW from, NEW to \in Statuses
  PROVE  SetStatus(s, from, to) \in [Statements -> Rows]
BY DEF SetStatus, Rows

\* So does the INSERT of a statement.
LEMMA CreateType ==
  ASSUME row \in [Statements -> Rows], NEW s
  PROVE  Create(s) \in [Statements -> Rows]
BY DEF Create, NoRow, Rows, Statuses, Tokens, NoLease

\* So do the three UPDATEs of the API.
LEMMA ApiUpdatesType ==
  ASSUME row \in [Statements -> Rows], NEW s
  PROVE  /\ MarkUploaded(s) \in [Statements -> Rows]
         /\ MarkQueued(s) \in [Statements -> Rows]
         /\ ResetQueuedToUploaded(s) \in [Statements -> Rows]
BY SetStatusType DEF MarkUploaded, MarkQueued, ResetQueuedToUploaded, Statuses

\* So does a claim, whose lease ends after a time that was read.
LEMMA ClaimType ==
  ASSUME row \in [Statements -> Rows], NEW s, NEW t \in Tokens, NEW at \in Nat
  PROVE  ClaimForProcessing(s, t, at) \in [Statements -> Rows]
<1>1. at + LeaseTime \in Nat
  BY StoreAssumption
<1>2. CASE ~Claimable(s, at)
  BY <1>2 DEF ClaimForProcessing
<1>3. CASE Claimable(s, at)
  BY <1>1, <1>3 DEF ClaimForProcessing, Rows, Statuses
<1> QED BY <1>2, <1>3

\* So does recording a permanent failure.
LEMMA MarkFailedType ==
  ASSUME row \in [Statements -> Rows], NEW s, NEW t, NEW at,
         NEW code \in FailureCodes \union {NoFailure}
  PROVE  MarkFailed(s, t, at, code) \in [Statements -> Rows]
BY DEF MarkFailed, Rows, Statuses, Tokens, NoLease

\* So does the completing UPDATE.
LEMMA CompletedRowType ==
  ASSUME row \in [Statements -> Rows], NEW s
  PROVE  CompletedRow(s) \in [Statements -> Rows]
BY DEF CompletedRow, Rows, Statuses, Tokens, NoLease

\* The upserts of an attempt leave a table of lines.
LEMMA UpsertLinesType ==
  ASSUME lines \in [Statements -> [LineNumbers -> Tokens]],
         NEW s, NEW t \in Attempts, NEW recognised
  PROVE  UpsertLines(s, t, recognised) \in [Statements -> [LineNumbers -> Tokens]]
BY DEF UpsertLines, Tokens

\* A statement that runs after its caller gave up leaves a table of rows.
LEMMA EffectType ==
  ASSUME row \in [Statements -> Rows], NEW o \in Orphans
  PROVE  Effect(o) \in [Statements -> Rows]
<1>1. CASE o.op = "claim"
  BY <1>1, ClaimType DEF Effect, Orphans
<1>2. CASE o.op = "markFailed"
  BY <1>2, MarkFailedType DEF Effect, Orphans
<1>3. CASE o.op \in {"markUploaded", "markQueued", "reset"}
  BY <1>3, ApiUpdatesType DEF Effect, Orphans
<1> QED BY <1>1, <1>2, <1>3 DEF Orphans, AutocommitOps

-----------------------------------------------------------------------------
(* The messages after each operation of the queue are messages.            *)

\* A message that changes only its place is still a message.
LEMMA PlaceType ==
  ASSUME QueueTypeOK, NEW m, NEW p \in Places,
         message' = [message EXCEPT ![m].place = p]
  PROVE  QueueTypeOK'
BY DEF QueueTypeOK

\* Sending leaves messages.
LEMMA SendType ==
  ASSUME QueueTypeOK, EnvTypeOK, NEW m, NEW s \in Statements, SendAnalyzeJob(m, s)
  PROVE  QueueTypeOK'
<1> DEFINE new == [place |-> "queue", stmt |-> s, visibleAt |-> now, receives |-> 0]
<1>1. new \in [place: Places, stmt: Statements \union {NoStatement},
               visibleAt: Nat, receives: 0..MaxReceive]
  BY QueueAssumption DEF EnvTypeOK, Places
<1>2. message' = [message EXCEPT ![m] = new]
  BY DEF SendAnalyzeJob
<1> HIDE DEF new
<1> QED BY <1>1, <1>2 DEF QueueTypeOK

\* A delivery leaves messages: its count stays within MaxReceive.
LEMMA DeliverType ==
  ASSUME QueueTypeOK, EnvTypeOK, NEW m \in Messages, Deliver(m)
  PROVE  /\ QueueTypeOK'
         /\ message[m].receives + 1 \in 0..MaxReceive
<1>1. message[m].receives + 1 \in 0..MaxReceive
  BY QueueAssumption DEF QueueTypeOK, Deliver
<1>2. now + VisibilityTime \in Nat
  BY QueueAssumption DEF EnvTypeOK
<1>3. QueueTypeOK'
  <2> DEFINE new == [place |-> "queue", stmt |-> message[m].stmt,
                     visibleAt |-> now + VisibilityTime,
                     receives |-> message[m].receives + 1]
  <2>1. new \in [place: Places, stmt: Statements \union {NoStatement},
                 visibleAt: Nat, receives: 0..MaxReceive]
    BY <1>1, <1>2 DEF QueueTypeOK, Places
  <2>2. message' = [message EXCEPT ![m] = new]
    BY DEF Deliver
  <2> HIDE DEF new
  <2> QED BY <2>1, <2>2 DEF QueueTypeOK
<1> QED BY <1>1, <1>3

\* Deleting, or failing to with a stale receipt, leaves messages.
LEMMA DeleteType ==
  ASSUME QueueTypeOK, NEW m, NEW receipt, DeleteMessage(m, receipt)
  PROVE  QueueTypeOK'
BY DEF QueueTypeOK, DeleteMessage, Places

-----------------------------------------------------------------------------
(* The initial states.                                                     *)

\* The initial values have their types.
LEMMA InitType == Init => TypeOK
<1> SUFFICES ASSUME Init PROVE TypeOK
  OBVIOUS
<1>1. EnvTypeOK
  BY BoundsAssumption DEF Init, EnvInit, EnvTypeOK
<1>2. StoreTypeOK
  BY DEF Init, StoreInit, StoreTypeOK, NoRow, NoLines, Rows, Statuses, Tokens, NoLease
<1>3. QueueTypeOK
  BY QueueAssumption DEF Init, QueueInit, QueueTypeOK, NotSent, Places
<1>4. ObjectTypeOK
  BY DEF Init, ObjectInit, ObjectTypeOK, Objects
<1>5. JobTypeOK
  BY QueueAssumption
  DEF Init, JobInit, JobTypeOK, HandlerStates, NoJob, Jobs, OpenTxn
<1>6. ApiTypeOK
  BY DEF Init, ApiInit, ApiTypeOK, Phases
<1> QED BY <1>1, <1>2, <1>3, <1>4, <1>5, <1>6 DEF TypeOK

-----------------------------------------------------------------------------
(* Steps of the environment, the queue and the store on its own.           *)

\* Time, redrive, retention and late statements keep the types.
LEMMA ServiceType ==
  ASSUME TypeOK,
         \/ Tick
         \/ \E m \in Messages : Redrive(m) \/ RetentionEnds(m)
         \/ \E o \in orphans : OrphanStep(o)
  PROVE  TypeOK'
<1> USE DEF TypeOK, EnvTypeOK, StoreTypeOK, QueueTypeOK, ObjectTypeOK, Objects,
    JobTypeOK, ApiTypeOK,
            storeVars, objectVars, jobVars, apiVars, envVars
<1>1. CASE Tick
  BY <1>1, BoundsAssumption DEF Tick, Advance
<1>2. ASSUME NEW m \in Messages, Redrive(m) PROVE TypeOK'
  <2>1. QueueTypeOK'
    BY <1>2, PlaceType DEF Redrive, MoveToDeadLetter, Places
  <2> QED BY <1>2, <2>1 DEF Redrive
<1>3. ASSUME NEW m \in Messages, RetentionEnds(m) PROVE TypeOK'
  <2>1. QueueTypeOK'
    BY <1>3, PlaceType DEF RetentionEnds, Expire, Places
  <2> QED BY <1>3, <2>1, BoundsAssumption DEF RetentionEnds, Fault
<1>4. ASSUME NEW o \in orphans, OrphanStep(o) PROVE TypeOK'
  <2>1. o \in Orphans
    OBVIOUS
  <2>2. row' \in [Statements -> Rows]
    BY <1>4, <2>1, EffectType DEF OrphanStep, RunOrphan, DropOrphan
  <2> QED BY <1>4, <2>2 DEF OrphanStep, RunOrphan, DropOrphan
<1> QED BY <1>1, <1>2, <1>3, <1>4

-----------------------------------------------------------------------------
(* Steps of the clients and of the API.                                    *)

\* The INSERT, an upload and the arrival of a request keep the types.
LEMMA ClientType ==
  ASSUME TypeOK, NEW s \in Statements, ClientStep(s)
  PROVE  TypeOK'
<1> USE DEF TypeOK, EnvTypeOK, StoreTypeOK, QueueTypeOK, ObjectTypeOK, Objects,
    JobTypeOK, ApiTypeOK,
            storeVars, objectVars, jobVars, apiVars, envVars
<1> UNCHANGED jobVars
  BY DEF ClientStep
<1>1. CASE CreateStatement(s)
  BY <1>1, CreateType DEF CreateStatement
<1>2. ASSUME NEW o \in Objects, ChangeObject(s, o)
      PROVE  TypeOK'
  BY <1>2 DEF ChangeObject, StoreObject
<1>3. ASSUME NEW r \in Requests, Arrival(r, s) PROVE TypeOK'
  <2>1. ASSUME NEW status, NEW to \in Phases, Start(r, s, status, to) PROVE TypeOK'
    BY <2>1 DEF Start, Proceed
  <2> QED BY <1>3, <2>1 DEF Arrival, StartComplete, StartAnalyze, Phases
<1> QED BY <1>1, <1>2, <1>3 DEF ClientStep

\* The steps of a request, and its failures, keep the types.
LEMMA ApiType ==
  ASSUME TypeOK, NEW r \in Requests,
         RequestStep(r) \/ RequestFault(r), UNCHANGED jobVars
  PROVE  TypeOK'
<1> USE DEF TypeOK, EnvTypeOK, StoreTypeOK, QueueTypeOK, ObjectTypeOK, Objects,
    JobTypeOK, ApiTypeOK,
            storeVars, objectVars, jobVars, apiVars, envVars, Proceed, Phases
<1>1. CASE HeadObject(r)
  BY <1>1 DEF HeadObject, HeadMatches
<1>2. CASE CompleteUpload(r)
  BY <1>2, ApiUpdatesType DEF CompleteUpload
<1>3. CASE Enqueue(r)
  BY <1>3, ApiUpdatesType DEF Enqueue
<1>4. ASSUME NEW m \in Messages, SendJob(r, m) PROVE TypeOK'
  BY <1>4, SendType DEF SendJob
<1>5. CASE ResetStatement(r)
  BY <1>5, ApiUpdatesType DEF ResetStatement
<1>6. CASE SendFails(r)
  <2>1. QueueTypeOK'
    BY <1>6, SendType DEF SendFails
  <2> QED BY <1>6, <2>1, BoundsAssumption DEF SendFails, Fault
<1>7. CASE AbandonRequest(r)
  <2>1. UpdateInFlight(r) \subseteq Orphans
    BY DEF UpdateInFlight, Orphan, Orphans, AutocommitOps, Tokens
  <2> QED BY <1>7, <2>1, BoundsAssumption DEF AbandonRequest, Fault
<1> QED BY <1>1, <1>2, <1>3, <1>4, <1>5, <1>6, <1>7
        DEF RequestStep, RequestFault

-----------------------------------------------------------------------------
(* Steps of the workers.                                                   *)

\* The steps of a handler, and of the server for its transaction, keep the types.
LEMMA WorkerType ==
  ASSUME TypeOK, NEW t \in Attempts, WorkerStep(t)
  PROVE  TypeOK'
<1> USE DEF TypeOK, EnvTypeOK, StoreTypeOK, QueueTypeOK, ObjectTypeOK, Objects,
    JobTypeOK, ApiTypeOK,
            storeVars, objectVars, jobVars, apiVars, envVars, Goto, ReadNow, ForgetNow,
            HandlerStates
<1> UNCHANGED apiVars
  BY DEF WorkerStep
<1>1. CASE SendClaim(t) \/ SendMarkFailed(t)
  BY <1>1 DEF SendClaim, SendMarkFailed
<1>2. CASE Claim(t)
  <2>1. row' \in [Statements -> Rows]
    BY <1>2, ClaimType DEF Claim, Tokens
  <2> QED BY <1>2, <2>1 DEF Claim
<1>3. CASE ResolveUnclaimedJob(t)
  BY <1>3 DEF ResolveUnclaimedJob
<1>4. CASE FetchObject(t)
  BY <1>4 DEF FetchObject, FailPermanently, FailureCodes
<1>5. CASE AnalyzeImage(t)
  BY <1>5 DEF AnalyzeImage, Recognised, FailPermanently, FailureCodes
<1>6. CASE RecordFailure(t)
  <2>1. row' \in [Statements -> Rows]
    BY <1>6, MarkFailedType DEF RecordFailure
  <2> QED BY <1>6, <2>1 DEF RecordFailure
<1>7. CASE BeginSave(t) \/ WriteLines(t)
  BY <1>7 DEF BeginSave, WriteLines, AdvanceTxn, OpenTxn
<1>8. CASE LockStatement(t)
  BY <1>8 DEF LockStatement, CheckClaim, AdvanceTxn, OpenTxn, Tokens
<1>9. CASE CompleteStatement(t)
  BY <1>9 DEF CompleteStatement, AdvanceTxn, OpenTxn
<1>10. CASE Commit(t) \/ CommitInDoubt(t)
  <2>1. CommitTxn(t) /\ pc' \in [Attempts -> HandlerStates]
    BY <1>10 DEF Commit, CommitInDoubt
  <2>2. row' \in [Statements -> Rows]
    BY <2>1, CompletedRowType DEF CommitTxn
  <2>3. lines' \in [Statements -> [LineNumbers -> Tokens]]
    BY <2>1, UpsertLinesType DEF CommitTxn
  <2>4. lockedBy' \in [Statements -> Tokens]
    BY <2>1 DEF CommitTxn, Unlock, Tokens
  <2>5. JobTypeOK'
    BY <2>1 DEF CommitTxn
  <2> QED BY <2>1, <2>2, <2>3, <2>4, <2>5 DEF CommitTxn
<1>11. ASSUME AbortTxn(t), pc' \in [Attempts -> HandlerStates] PROVE TypeOK'
  BY <1>11 DEF AbortTxn, Unlock, Tokens
<1>12. CASE Rollback(t) \/ AbortOrphanTxn(t)
  BY <1>11, <1>12 DEF Rollback, AbortOrphanTxn
<1>13. CASE DeleteJob(t)
  <2>1. QueueTypeOK'
    BY <1>13, DeleteType DEF DeleteJob
  <2> QED BY <1>13, <2>1 DEF DeleteJob
<1> QED BY <1>1, <1>2, <1>3, <1>4, <1>5, <1>6, <1>7, <1>8, <1>9, <1>10, <1>12, <1>13
        DEF WorkerStep, JobStep, TxnSettles

\* Receiving a message, for the first time or again, keeps the types.
LEMMA ReceiveType ==
  ASSUME TypeOK, NEW t \in Attempts, NEW m \in Messages,
         ReceiveJob(t, m) \/ ReceiveDuplicate(t, m), UNCHANGED apiVars
  PROVE  TypeOK'
<1> USE DEF TypeOK, EnvTypeOK, StoreTypeOK, QueueTypeOK, ObjectTypeOK, Objects,
    JobTypeOK, ApiTypeOK,
            storeVars, objectVars, jobVars, apiVars, envVars
<1> Receive(t, m)
  BY DEF ReceiveJob, ReceiveDuplicate
<1>1. QueueTypeOK' /\ message[m].receives + 1 \in 0..MaxReceive
  BY DeliverType DEF Receive
<1>2. [message |-> m, stmt |-> message[m].stmt, receipt |-> message[m].receives + 1] \in Jobs
  BY <1>1 DEF Jobs
<1>3. JobTypeOK' /\ UNCHANGED <<storeVars, objectVars>>
  BY <1>2 DEF Receive, Goto, HandlerStates
<1>4. EnvTypeOK'
  BY BoundsAssumption DEF ReceiveJob, ReceiveDuplicate, Fault
<1> QED BY <1>1, <1>3, <1>4

\* The failures of an attempt keep the types.
LEMMA JobFaultType ==
  ASSUME TypeOK, WorkIsBound, NEW t \in Attempts, JobFault(t), UNCHANGED apiVars
  PROVE  TypeOK'
<1> USE DEF TypeOK, EnvTypeOK, StoreTypeOK, QueueTypeOK, ObjectTypeOK, Objects,
    JobTypeOK, ApiTypeOK,
            storeVars, objectVars, jobVars, apiVars, envVars, Goto, HandlerStates
<1>1. CASE SaveFails(t)
  BY <1>1, BoundsAssumption DEF SaveFails, AdvanceTxn, OpenTxn, Fault
<1>2. CASE RollbackFails(t)
  BY <1>2, BoundsAssumption DEF RollbackFails, Fault
<1>3. CASE Abandon(t)
  <2>1. Stmt(t) \in Statements
    BY <1>3 DEF Abandon, WorkIsBound
  <2>2. CallInFlight(t) \subseteq Orphans
    BY <2>1 DEF CallInFlight, Orphan, Orphans, AutocommitOps, Tokens
  <2> QED BY <1>3, <2>2, BoundsAssumption DEF Abandon, OpenTxn, Fault
<1> QED BY <1>1, <1>2, <1>3 DEF JobFault

\* Every step keeps the types of all variables.
LEMMA NextType == ASSUME TypeOK, WorkIsBound, [Next]_vars PROVE TypeOK'
<1>1. CASE UNCHANGED vars
  BY <1>1 DEF vars, TypeOK, EnvTypeOK, StoreTypeOK, QueueTypeOK, ObjectTypeOK, Objects,
      JobTypeOK,
              ApiTypeOK, storeVars, objectVars, jobVars, apiVars, envVars
<1>2. ASSUME NEW m \in Messages, WorkerReceives(m) PROVE TypeOK'
  BY <1>2, ReceiveType DEF WorkerReceives
<1>3. ASSUME NEW t \in Attempts, NEW m \in Messages, ReceiveDuplicate(t, m), UNCHANGED apiVars
      PROVE  TypeOK'
  BY <1>3, ReceiveType
<1>4. ASSUME NEW t \in Attempts, JobFault(t), UNCHANGED apiVars PROVE TypeOK'
  BY <1>4, JobFaultType
<1>5. ASSUME NEW r \in Requests, RequestFault(r), UNCHANGED jobVars PROVE TypeOK'
  BY <1>5, ApiType
<1>6. ASSUME NEW m \in Messages, Redrive(m) \/ RetentionEnds(m) PROVE TypeOK'
  BY <1>6, ServiceType
<1>7. ASSUME NEW o \in orphans, OrphanStep(o) PROVE TypeOK'
  BY <1>7, ServiceType
<1>8. CASE Tick
  BY <1>8, ServiceType
<1>9. ASSUME NEW r \in Requests, ApiStep(r) PROVE TypeOK'
  BY <1>9, ApiType DEF ApiStep
<1>10. ASSUME NEW t \in Attempts, WorkerStep(t) PROVE TypeOK'
  BY <1>10, WorkerType
<1>11. CASE \E s \in Statements : ClientStep(s)
  BY <1>11, ClientType
<1> QED BY <1>1, <1>2, <1>3, <1>4, <1>5, <1>6, <1>7, <1>8, <1>9, <1>10, <1>11
        DEF Next, Backend, Failure

-----------------------------------------------------------------------------
(* Messages and jobs stay bound to a statement.                            *)

\* A message that is sent is about the statement of its request.
LEMMA SendBinds ==
  ASSUME TypeOK, WorkIsBound, NEW m \in Messages, NEW s \in Statements,
         SendAnalyzeJob(m, s), UNCHANGED <<pc, job>>
  PROVE  WorkIsBound'
<1>1. message[m].place = "unsent"
  BY DEF SendAnalyzeJob
<1>2. message'[m].place = "queue" /\ message'[m].stmt = s
  BY DEF SendAnalyzeJob, TypeOK, QueueTypeOK
<1>3. \A k \in Messages \ {m} : message'[k] = message[k]
  BY DEF SendAnalyzeJob, TypeOK, QueueTypeOK
<1> QED BY <1>1, <1>2, <1>3 DEF WorkIsBound, Stmt

\* Messages that keep their statement, and jobs that stay, remain bound.
LEMMA MoveKeepsBound ==
  ASSUME TypeOK, WorkIsBound, NEW m \in Messages, message[m].place # "unsent",
         message'[m].place # "unsent", message'[m].stmt = message[m].stmt,
         \A k \in Messages \ {m} : message'[k] = message[k],
         UNCHANGED job,
         \A t \in Attempts : pc[t] = "unused" => pc'[t] = "unused"
  PROVE  WorkIsBound'
BY DEF WorkIsBound, Stmt

\* A job that is received is about the statement of its message.
LEMMA ReceiveBinds ==
  ASSUME TypeOK, WorkIsBound, NEW t \in Attempts, NEW m \in Messages,
         message[m].place = "queue", Receive(t, m)
  PROVE  WorkIsBound'
<1> USE DEF TypeOK, QueueTypeOK, JobTypeOK
<1>1. message'[m].place = "queue" /\ message'[m].stmt = message[m].stmt
  BY DEF Receive, Deliver
<1>2. \A k \in Messages \ {m} : message'[k] = message[k]
  BY DEF Receive, Deliver
<1>3. job'[t].message = m /\ job'[t].stmt = message[m].stmt
  BY DEF Receive
<1>4. \A u \in Attempts \ {t} : job'[u] = job[u] /\ pc'[u] = pc[u]
  BY DEF Receive, Goto
<1> QED BY <1>1, <1>2, <1>3, <1>4 DEF WorkIsBound, Stmt

\* Deleting a message does not change what jobs are about.
LEMMA DeleteKeepsBound ==
  ASSUME TypeOK, WorkIsBound, NEW t \in Attempts, DeleteJob(t)
  PROVE  WorkIsBound'
<1> DEFINE m == job[t].message
<1>1. m \in Messages /\ message[m].place # "unsent"
  BY DEF DeleteJob, Goto, WorkIsBound
<1>2. message' = message \/ message' = [message EXCEPT ![m].place = IF @ = "queue" THEN "deleted" ELSE @]
  BY DEF DeleteJob, DeleteMessage
<1>3. /\ message'[m].place # "unsent" /\ message'[m].stmt = message[m].stmt
      /\ \A k \in Messages \ {m} : message'[k] = message[k]
  BY <1>1, <1>2 DEF TypeOK, QueueTypeOK
<1>4. UNCHANGED job /\ \A u \in Attempts : pc[u] = "unused" => pc'[u] = "unused"
  BY DEF DeleteJob, Goto, TypeOK, JobTypeOK
<1> HIDE DEF m
<1> QED BY <1>1, <1>3, <1>4, MoveKeepsBound

\* Every step keeps messages and jobs bound to their statements.
LEMMA NextBound == ASSUME TypeOK, WorkIsBound, [Next]_vars PROVE WorkIsBound'
<1> USE DEF storeVars, objectVars, jobVars, apiVars, envVars
<1>1. ASSUME UNCHANGED <<message, job>>,
             \A t \in Attempts : pc[t] = "unused" => pc'[t] = "unused"
      PROVE  WorkIsBound'
  BY <1>1 DEF WorkIsBound, Stmt
<1>2. CASE UNCHANGED vars \/ Tick \/ \E s \in Statements : ClientStep(s)
  BY <1>1, <1>2 DEF vars, Tick, ClientStep, CreateStatement, ChangeObject, Arrival,
     StartComplete, StartAnalyze, Start
<1>3. ASSUME NEW m \in Messages, Redrive(m) \/ RetentionEnds(m) PROVE WorkIsBound'
  <2>1. message[m].place = "queue" /\ UNCHANGED <<pc, job>>
    BY <1>3 DEF Redrive, RetentionEnds, MoveToDeadLetter, Expire, Visible
  <2>2. /\ message'[m].place # "unsent" /\ message'[m].stmt = message[m].stmt
        /\ \A k \in Messages \ {m} : message'[k] = message[k]
    BY <1>3 DEF Redrive, RetentionEnds, MoveToDeadLetter, Expire, TypeOK, QueueTypeOK
  <2> QED BY <2>1, <2>2, MoveKeepsBound
<1>4. ASSUME NEW o \in orphans, OrphanStep(o) PROVE WorkIsBound'
  BY <1>1, <1>4 DEF OrphanStep
<1>5. ASSUME NEW r \in Requests, RequestStep(r) \/ RequestFault(r), UNCHANGED jobVars
      PROVE  WorkIsBound'
  <2>1. target[r] \in Statements /\ UNCHANGED <<pc, job>>
    BY <1>5 DEF TypeOK, ApiTypeOK
  <2>2. CASE \E m \in Messages : SendJob(r, m)
    BY <2>1, <2>2, SendBinds DEF SendJob
  <2>3. CASE SendFails(r)
    BY <1>1, <2>1, <2>3, SendBinds DEF SendFails
  <2>4. CASE HeadObject(r) \/ CompleteUpload(r) \/ Enqueue(r) \/ ResetStatement(r)
             \/ AbandonRequest(r)
    BY <1>1, <2>1, <2>4
    DEF HeadObject, CompleteUpload, Enqueue, ResetStatement, AbandonRequest
  <2> QED BY <1>5, <2>2, <2>3, <2>4 DEF RequestStep, RequestFault
<1>6. ASSUME NEW t \in Attempts, NEW m \in Messages, ReceiveJob(t, m) \/ ReceiveDuplicate(t, m)
      PROVE  WorkIsBound'
  BY <1>6, ReceiveBinds DEF ReceiveJob, ReceiveDuplicate, Visible
<1>7. ASSUME NEW t \in Attempts, WorkerStep(t) PROVE WorkIsBound'
  <2> USE DEF TypeOK, JobTypeOK, Goto
  <2>1. CASE DeleteJob(t)
    BY <2>1, DeleteKeepsBound
  <2>2. CASE \/ SendClaim(t) \/ Claim(t) \/ ResolveUnclaimedJob(t) \/ FetchObject(t)
             \/ AnalyzeImage(t) \/ SendMarkFailed(t) \/ RecordFailure(t)
    BY <1>1, <2>2 DEF SendClaim, Claim, ResolveUnclaimedJob, FetchObject,
        FailPermanently, AnalyzeImage,
       SendMarkFailed, RecordFailure
  <2>3. CASE BeginSave(t) \/ LockStatement(t) \/ WriteLines(t) \/ CompleteStatement(t)
    BY <1>1, <2>3 DEF BeginSave, LockStatement, WriteLines, CompleteStatement, CheckClaim,
       AdvanceTxn
  <2>4. CASE Commit(t) \/ Rollback(t) \/ TxnSettles(t)
    BY <1>1, <2>4 DEF Commit, Rollback, TxnSettles, AbortOrphanTxn, CommitInDoubt,
        CommitTxn,
       AbortTxn
  <2> QED BY <1>7, <2>1, <2>2, <2>3, <2>4 DEF WorkerStep, JobStep
<1>8. ASSUME NEW t \in Attempts, JobFault(t) PROVE WorkIsBound'
  BY <1>1, <1>8 DEF JobFault, Abandon, SaveFails, RollbackFails, Goto, TypeOK, JobTypeOK
<1>9. CASE Failure
  BY <1>3, <1>5, <1>6, <1>8, <1>9 DEF Failure
<1>10. CASE Backend
  BY <1>2, <1>3, <1>4, <1>5, <1>6, <1>7, <1>9, <1>10 DEF Backend, ApiStep, WorkerReceives
<1> QED BY <1>2, <1>10 DEF Next

-----------------------------------------------------------------------------
\* The variables keep their types, and messages and jobs their statements, in
\* every behaviour, whatever the numbers of statements, attempts, messages and
\* requests.
THEOREM TypeCorrect == Spec => [](TypeOK /\ WorkIsBound)
<1>1. Init => TypeOK /\ WorkIsBound
  <2>1. Init => WorkIsBound
    BY DEF Init, QueueInit, NotSent, JobInit, WorkIsBound
  <2> QED BY <2>1, InitType
<1>2. TypeOK /\ WorkIsBound /\ [Next]_vars => (TypeOK /\ WorkIsBound)'
  BY NextType, NextBound
<1> QED BY <1>1, <1>2, PTL DEF Spec
=============================================================================
