---------------------------- MODULE StatementApi ----------------------------
(***************************************************************************)
(* The handlers of src/app.ts that change a statement: POST /statements,   *)
(* POST /statements/:id/upload/complete and POST /statements/:id/analyze.  *)
(*                                                                         *)
(* A request is a handler in progress.  It reads the statement, awaits the *)
(* object store, the database or the queue, and acts on what it read.  A   *)
(* request that only answers (a 4xx, or 200 with the current status) leaves *)
(* everything as it was and is not an action.                              *)
(*                                                                         *)
(*   upload/complete:  idle -> heading -> uploading -> idle                *)
(*   analyze:          idle -> queueing -> sending -> idle                 *)
(*                                            |                            *)
(*                                        resetting -> idle                *)
(***************************************************************************)
EXTENDS StatementStore, JobQueue, ObjectStore

CONSTANT Requests   \* bound: the requests in progress at the same time

VARIABLES
  phase,     \* phase[r]: where the handler of request r is
  target,    \* target[r]: its statement
  stranded   \* history: statements left QUEUED by a request that was cut off

apiVars == <<phase, target, stranded>>

Phases == {"idle", "heading", "uploading", "queueing", "sending", "resetting"}

ApiTypeOK ==
  /\ phase \in [Requests -> Phases]
  /\ target \in [Requests -> Statements]
  /\ stranded \subseteq Statements

ApiInit ==
  /\ phase = [r \in Requests |-> "idle"]
  /\ target \in [Requests -> Statements]
  /\ stranded = {}

\* Request r passes from one phase to another.
Proceed(r, from, to) == phase[r] = from /\ phase' = [phase EXCEPT ![r] = to]

\* A request for s begins: findById returned the status the handler acts on.
Start(r, s, status, to) ==
  /\ row[s].status = status
  /\ Proceed(r, "idle", to)
  /\ target' = [target EXCEPT ![r] = s]
  /\ UNCHANGED <<stranded, storeVars, message, objectVars, envVars>>

-----------------------------------------------------------------------------
\* The presigned URL is made before the INSERT; the id is a new UUID.
CreateStatement(s) ==
  /\ row[s].status = "ABSENT"
  /\ row' = Create(s)
  /\ UNCHANGED <<lines, lockedBy, orphans, apiVars, message, objectVars, envVars>>

\* The client uses the URL it was given, or the lifecycle rule takes the object
\* away.  Nobody reads the object of a COMPLETED or FAILED statement again.
ChangeObject(s, o) ==
  /\ row[s].status \notin Terminal \union {"ABSENT"}
  /\ StoreObject(s, o)
  /\ UNCHANGED <<storeVars, message, apiVars, envVars>>

-----------------------------------------------------------------------------
(* POST /statements/:id/upload/complete                                    *)

StartComplete(r, s) == Start(r, s, "UPLOAD_PENDING", "heading")

HeadObject(r) ==
  /\ \/ Proceed(r, "heading", "uploading") /\ HeadMatches(target[r])
     \/ /\ object[target[r]] # "matching"
        /\ Proceed(r, "heading", "idle")
        /\ UNCHANGED objectVars
  /\ UNCHANGED <<target, stranded, storeVars, message, envVars>>

CompleteUpload(r) ==
  /\ Unlocked(target[r])
  /\ row' = MarkUploaded(target[r])
  /\ Proceed(r, "uploading", "idle")
  /\ UNCHANGED <<lines, lockedBy, orphans, target, stranded, message, objectVars, envVars>>

-----------------------------------------------------------------------------
(* POST /statements/:id/analyze                                            *)

\* Bound: a request is not let through when no message would be left for it.
MessageLeft ==
  Cardinality({r \in Requests : phase[r] = "sending"})
    < Cardinality({m \in Messages : message[m].place = "unsent"})

StartAnalyze(r, s) == Start(r, s, "UPLOADED", "queueing")

Enqueue(r) ==
  /\ MessageLeft
  /\ Unlocked(target[r])
  /\ row' = MarkQueued(target[r])
  /\ \/ row[target[r]].status = "UPLOADED" /\ Proceed(r, "queueing", "sending")
     \/ row[target[r]].status # "UPLOADED" /\ Proceed(r, "queueing", "idle")
  /\ UNCHANGED <<lines, lockedBy, orphans, target, stranded, message, objectVars, envVars>>

SendJob(r, m) ==
  /\ Proceed(r, "sending", "idle")
  /\ SendAnalyzeJob(m, target[r])
  /\ UNCHANGED <<target, stranded, storeVars, objectVars, envVars>>

\* Mutant of SendFails: the statement is not taken back to UPLOADED.
SendFailsForGood(r) ==
  /\ Proceed(r, "sending", "idle")
  /\ \/ UNCHANGED message
     \/ \E m \in Messages : SendAnalyzeJob(m, target[r])
  /\ Fault
  /\ UNCHANGED <<target, stranded, storeVars, objectVars>>

\* The send fails as far as the API can tell; the message may be there.
SendFails(r) ==
  /\ Proceed(r, "sending", "resetting")
  /\ \/ UNCHANGED message
     \/ \E m \in Messages : SendAnalyzeJob(m, target[r])
  /\ Fault
  /\ UNCHANGED <<target, stranded, storeVars, objectVars>>

ResetStatement(r) ==
  /\ Unlocked(target[r])
  /\ row' = ResetQueuedToUploaded(target[r])
  /\ Proceed(r, "resetting", "idle")
  /\ UNCHANGED <<lines, lockedBy, orphans, target, stranded, message, objectVars, envVars>>

-----------------------------------------------------------------------------
\* The UPDATE request r is waiting for.
UpdateInFlight(r) ==
  LET call(op) == {Orphan(op, target[r], NoAttempt, 0, NoFailure)}
  IN  CASE phase[r] = "uploading" -> call("markUploaded")
        [] phase[r] = "queueing"  -> call("markQueued")
        [] phase[r] = "resetting" -> call("reset")
        [] OTHER                  -> {}

\* A call fails or times out and the handler answers 503, or the process dies.
\* From markQueued to the end the statement may be left QUEUED on its own.
AbandonRequest(r) ==
  /\ phase[r] # "idle"
  /\ phase' = [phase EXCEPT ![r] = "idle"]
  /\ orphans' = orphans \union UpdateInFlight(r)
  /\ stranded' = IF phase[r] \in {"queueing", "sending", "resetting"}
                 THEN stranded \union {target[r]} ELSE stranded
  /\ Fault
  /\ UNCHANGED <<row, lines, lockedBy, target, message, objectVars>>

RequestStep(r) ==
  \/ HeadObject(r)
  \/ CompleteUpload(r)
  \/ Enqueue(r)
  \/ \E m \in Messages : SendJob(r, m)
  \/ ResetStatement(r)

Arrival(r, s) == StartComplete(r, s) \/ StartAnalyze(r, s)

RequestFault(r) == SendFails(r) \/ AbandonRequest(r)
=============================================================================
