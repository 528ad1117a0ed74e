--------------------------- MODULE StatementSystem ---------------------------
(***************************************************************************)
(* The path of a statement through the whole system: clients and the API   *)
(* (StatementApi), the workers (AnalyzeJob), PostgreSQL (StatementStore),  *)
(* SQS (JobQueue) and S3 (ObjectStore), every step of which interleaves    *)
(* with every other.                                                       *)
(***************************************************************************)
EXTENDS AnalyzeJob, StatementApi

vars == <<envVars, storeVars, message, objectVars, jobVars, apiVars>>

TypeOK ==
  /\ EnvTypeOK
  /\ StoreTypeOK
  /\ QueueTypeOK
  /\ ObjectTypeOK
  /\ JobTypeOK
  /\ ApiTypeOK

Init ==
  /\ EnvInit
  /\ StoreInit
  /\ QueueInit
  /\ ObjectInit
  /\ JobInit
  /\ ApiInit

-----------------------------------------------------------------------------
\* Some test of the clock still has its answer ahead of it: a message is
\* invisible, a lease is not yet claimable, or a claim with an old NOW() may
\* still grant one.  Otherwise nothing can tell that time passes.
TimerPending ==
  \/ \E m \in Messages : message[m].place = "queue" /\ message[m].visibleAt > now
  \/ \E s \in Statements : row[s].status = "PROCESSING" /\ row[s].lease >= now
  \/ \E t \in Attempts : pc[t] = "claiming" /\ asOf[t] + LeaseTime >= now
  \/ \E o \in orphans : o.op = "claim" /\ o.at + LeaseTime >= now

Tick ==
  /\ TimerPending
  /\ Advance
  /\ UNCHANGED <<storeVars, message, objectVars, jobVars, apiVars>>

\* The settings of the service: redrive and retention.
Redrive(m) ==
  /\ MoveToDeadLetter(m)
  /\ UNCHANGED <<envVars, storeVars, objectVars, jobVars, apiVars>>

RetentionEnds(m) ==
  /\ Expire(m)
  /\ Fault
  /\ UNCHANGED <<storeVars, objectVars, jobVars, apiVars>>

OrphanStep(o) ==
  /\ RunOrphan(o) \/ DropOrphan(o)
  /\ UNCHANGED <<envVars, message, objectVars, jobVars, apiVars>>

ClientStep(s) ==
  /\ \/ CreateStatement(s)
     \/ \E o \in Objects : ChangeObject(s, o)
     \/ \E r \in Requests : Arrival(r, s)
  /\ UNCHANGED jobVars

ApiStep(r) == RequestStep(r) /\ UNCHANGED jobVars

WorkerReceives(m) ==
  /\ \E t \in Attempts : ReceiveJob(t, m)
  /\ UNCHANGED apiVars

WorkerStep(t) == (JobStep(t) \/ TxnSettles(t)) /\ UNCHANGED apiVars

Failure ==
  \/ \E t \in Attempts :
       /\ JobFault(t) \/ \E m \in Messages : ReceiveDuplicate(t, m)
       /\ UNCHANGED apiVars
  \/ \E r \in Requests : RequestFault(r) /\ UNCHANGED jobVars
  \/ \E m \in Messages : RetentionEnds(m)

\* The system left to itself.
Backend ==
  \/ Tick
  \/ \E m \in Messages : Redrive(m) \/ WorkerReceives(m)
  \/ \E o \in orphans : OrphanStep(o)
  \/ \E r \in Requests : ApiStep(r)
  \/ \E t \in Attempts : WorkerStep(t)
  \/ Failure

Next == Backend \/ \E s \in Statements : ClientStep(s)

Spec == Init /\ [][Next]_vars

\* A running process, an answering database and a service that keeps its
\* promises take their steps in the end; clients may stop, nothing need fail.
Fairness ==
  /\ WF_vars(Tick)
  /\ \A m \in Messages : WF_vars(Redrive(m)) /\ WF_vars(WorkerReceives(m))
  /\ \A r \in Requests : WF_vars(ApiStep(r))
  /\ \A t \in Attempts : WF_vars(WorkerStep(t))
  /\ WF_vars(\E o \in orphans : OrphanStep(o))

FairSpec == Spec /\ Fairness

-----------------------------------------------------------------------------
(* Properties.                                                             *)

\* No work is lost at the acknowledgement: a message is deleted only when its
\* statement is COMPLETED or FAILED for good (docs/worker.md, "ACK").
AckOnlySettled ==
  \A m \in Messages :
    message[m].place = "deleted" => row[message[m].stmt].status \in Terminal

\* Exactly one attempt's result: a statement has lines exactly when it is
\* COMPLETED, and then they are all the lines one attempt recognised and
\* nothing of any other attempt.
LinesOfOneAttempt ==
  \A s \in Statements :
    IF row[s].status = "COMPLETED"
    THEN \E t \in Attempts :
           lines[s] = [n \in LineNumbers |-> IF n \in result[t] THEN t ELSE NoAttempt]
           /\ result[t] # {}
    ELSE lines[s] = NoLines

\* A statement in QUEUED has a message, or a request is about to send one or
\* to take the status back; the only exceptions are the requests that were
\* cut off (docs/sqs.md, "DBとSQSの送信境界").
QueuedIsBacked ==
  \A s \in Statements : row[s].status = "QUEUED" =>
    \/ \E m \in Messages : message[m].stmt = s /\ Kept(m)
    \/ \E r \in Requests : target[r] = s /\ phase[r] \in {"sending", "resetting"}
    \/ s \in stranded

\* A statement fails for its image only if the image changed after it was
\* checked by upload/complete.
SourceFailureNeedsChange ==
  \A s \in Statements :
    row[s].failure \in {"SOURCE_OBJECT_NOT_FOUND", "SOURCE_OBJECT_INVALID"}
      => trust[s] = "changed"

\* A step for attempt t: one of its handler, one of its transaction, or one of
\* its autocommit statements that the server runs late.
ActsFor(t) ==
  \/ pc'[t] # pc[t]
  \/ txn'[t] # txn[t]
  \/ \E o \in orphans \ orphans' : o.token = t

\* While a lease is good nobody but the attempt whose token the row carries
\* moves the statement on, to its end: no second claim, no reset, and neither
\* the result nor the failure of an attempt that has lost the statement.
LeaseIsExclusive ==
  [][\A s \in Statements :
       row[s].status = "PROCESSING" /\ row[s].lease > now /\ row'[s] # row[s]
         => row'[s].status \in Terminal /\ ActsFor(row[s].token)]_vars

\* Fencing: lines are written only for the attempt whose token the row
\* carries, however old its lease is.
OnlyTheHolderWrites ==
  [][\A s \in Statements : lines'[s] # lines[s] =>
       /\ row[s].status = "PROCESSING"
       /\ \A n \in LineNumbers : lines'[s][n] \in {NoAttempt, row[s].token}]_vars

\* COMPLETED and FAILED are final: neither the row nor its lines change again.
TerminalIsFinal ==
  [][\A s \in Statements : row[s].status \in Terminal =>
       row'[s] = row[s] /\ lines'[s] = lines[s]]_vars

\* Work that was begun is settled: a statement in QUEUED or PROCESSING reaches
\* COMPLETED or FAILED, goes back to UPLOADED, or leaves a trace an operator
\* can act on: a message in the dead-letter queue (with its alarm), one the
\* retention period took, or a request that was cut off.
WorkSettles ==
  \A s \in Statements :
    row[s].status \in {"QUEUED", "PROCESSING"} ~>
      \/ row[s].status \in Terminal \union {"UPLOADED"}
      \/ \E m \in Messages :
           message[m].stmt = s /\ message[m].place \in {"deadLetter", "expired"}
      \/ s \in stranded

\* The leases, tokens, transactions and messages together implement the
\* lifecycle: the committed rows and lines change only as it says.
Lifecycle ==
  INSTANCE StatementLifecycle WITH
    status <- [s \in Statements |-> row[s].status],
    holder <- [s \in Statements |-> row[s].token],
    outcome <- lines

LifecycleImplemented == Lifecycle!Spec

\* The lease is good by the database's time when the completing UPDATE passes
\* (docs/worker.md, "Fencing").  The code does not keep this: its NOW() is the
\* time of the BEGIN.
CompletingUpdateChecksLease ==
  [][\A t \in Attempts :
       txn[t] = "written" /\ txn'[t] = "completed" => row[Stmt(t)].lease > now]_vars
=============================================================================
