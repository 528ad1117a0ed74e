---------------------------- MODULE AnalyzeWorker ----------------------------
(***************************************************************************)
(* One worker process: the loop of src/worker/analyze-worker.ts, started   *)
(* by src/worker.ts, around the handler of a job.                          *)
(*                                                                         *)
(* AnalyzeJob lets any attempt be cut off anywhere; this module is why and *)
(* when the process cuts it off.  The handler is reduced to its stages,    *)
(* its errors and what it records.  Everything between two awaits is one   *)
(* step, so an action that ends a job also tests the loop's condition.     *)
(*                                                                         *)
(* receiving -> handling -> deleting -> receiving                          *)
(*     |            +--------------------> receiving                       *)
(*     +-> backingOff -> receiving                                         *)
(* and, once a shutdown is requested, -> stopped -> ended from everywhere  *)
(*                                                                         *)
(* When the deadline passes the loop goes on without its handler, which    *)
(* nothing stops: `handler` is then still running after the loop stopped.  *)
(***************************************************************************)
EXTENDS Naturals, ErrorClassification

CONSTANTS
  InitialBackoff,   \* INITIAL_RECEIVE_BACKOFF_MS
  MaxBackoff,       \* MAX_RECEIVE_BACKOFF_MS
  ShutdownTimeout,  \* DEFAULT_SHUTDOWN_TIMEOUT_MS
  MaxFailures       \* bound: receive failures in a row that are counted

ASSUME TimesAssumption ==
  /\ InitialBackoff \in Nat \ {0}
  /\ MaxBackoff \in Nat /\ InitialBackoff <= MaxBackoff
  /\ ShutdownTimeout \in Nat \ {0}
  /\ MaxFailures \in Nat

VARIABLES
  loop,       \* where run() is
  backoff,    \* receiveBackoffMs
  wait,       \* what is left of the wait of waitForRetry
  requested,  \* shutdownRequested
  remaining,  \* what is left until shutdownDeadlineAt
  listening,  \* the signals whose listener has not fired yet
  handler,    \* the stage of the running handler, or "none"
  aborted,    \* its signal is aborted
  error,      \* the error its current or last stage failed with
  recorded,   \* what it recorded: "none", "COMPLETED" or a failure code
  failures,   \* history: receive failures since a receive succeeded
  elapsed     \* history: the time since the shutdown was requested

jobVars == <<handler, aborted, error, recorded>>
receiveVars == <<backoff, wait, failures>>
shutdownVars == <<requested, remaining, elapsed, listening>>
vars == <<loop, receiveVars, shutdownVars, jobVars>>

Signals == {"SIGTERM", "SIGINT"}

\* The allow-list of migrations/004_add_failure_constraints.sql.
FailureCodes ==
  {"SOURCE_OBJECT_NOT_FOUND", "SOURCE_OBJECT_INVALID", "UNSUPPORTED_IMAGE",
   "INVALID_OCR_RESPONSE", "OCR_NON_RETRYABLE"}

Smaller(a, b) == IF a < b THEN a ELSE b

TypeOK ==
  /\ loop \in {"receiving", "backingOff", "handling", "deleting", "stopped", "ended", "dead"}
  /\ backoff \in InitialBackoff..MaxBackoff
  /\ wait \in 0..MaxBackoff
  /\ requested \in BOOLEAN
  /\ remaining \in 0..ShutdownTimeout
  /\ listening \subseteq Signals
  /\ handler \in Stages \union {"none", "claim", "markFailed"}
  /\ aborted \in BOOLEAN
  /\ error \in Errors \union {NoError}
  /\ recorded \in FailureCodes \union {"none", "COMPLETED"}
  /\ failures \in 0..MaxFailures
  /\ elapsed \in 0..(ShutdownTimeout + 1)

Init ==
  /\ loop = "receiving"
  /\ backoff = InitialBackoff /\ wait = 0 /\ failures = 0
  /\ requested = FALSE /\ remaining = 0 /\ elapsed = 0
  /\ listening = Signals
  /\ handler = "none" /\ aborted = FALSE /\ error = NoError /\ recorded = "none"

\* The condition of the while loop, at the end of every turn.
Again == loop' = IF requested THEN "stopped" ELSE "receiving"

-----------------------------------------------------------------------------
(* Receiving.  An aborted receive may still have its answer.               *)

\* Mutant of ResetBackoff: only the failures are forgotten.
KeepBackoff ==
  /\ failures' = 0
  /\ UNCHANGED <<backoff, wait>>

\* A success puts the backoff back.
ResetBackoff ==
  /\ backoff' = InitialBackoff
  /\ failures' = 0
  /\ UNCHANGED wait

ReceiveJob ==
  /\ loop = "receiving"
  /\ loop' = "handling"
  /\ ResetBackoff
  /\ handler' = "claim"
  /\ aborted' = FALSE
  /\ error' = NoError
  /\ recorded' = "none"
  /\ UNCHANGED shutdownVars

ReceiveNothing ==
  /\ loop = "receiving"
  /\ Again
  /\ ResetBackoff
  /\ UNCHANGED <<shutdownVars, jobVars>>

\* Mutant of ReceiveInvalid: the error ends the loop.
ReceiveInvalidForGood ==
  /\ loop = "receiving"
  /\ loop' = "stopped"
  /\ UNCHANGED <<receiveVars, shutdownVars, jobVars>>

\* A message that is not a job is left to the queue, without a wait.
ReceiveInvalid ==
  /\ loop = "receiving"
  /\ Again
  /\ UNCHANGED <<receiveVars, shutdownVars, jobVars>>

ReceiveFails ==
  /\ loop = "receiving"
  /\ \/ requested /\ loop' = "stopped" /\ UNCHANGED receiveVars
     \/ /\ ~requested
        /\ failures < MaxFailures
        /\ loop' = "backingOff"
        /\ wait' = backoff
        /\ failures' = failures + 1
        /\ UNCHANGED backoff
  /\ UNCHANGED <<shutdownVars, jobVars>>

\* Mutant of BackoffEnds: the wait has no maximum.
BackoffGrows ==
  /\ loop = "backingOff"
  /\ wait = 0 \/ requested
  /\ Again
  /\ backoff' = 2 * backoff
  /\ wait' = 0
  /\ UNCHANGED <<failures, shutdownVars, jobVars>>

\* The wait ends by itself or by the shutdown.
BackoffEnds ==
  /\ loop = "backingOff"
  /\ wait = 0 \/ requested
  /\ Again
  /\ backoff' = Smaller(2 * backoff, MaxBackoff)
  /\ wait' = 0
  /\ UNCHANGED <<failures, shutdownVars, jobVars>>

-----------------------------------------------------------------------------
(* The handler.                                                            *)

\* src/worker.ts ends the pool when run() has returned: from then on no
\* connection is handed out.
PoolOpen == loop = "handling"

\* The handler passes to its next stage.
Enter(from, to) ==
  /\ handler = from
  /\ handler' = to
  /\ UNCHANGED <<loop, aborted, receiveVars, shutdownVars>>

\* The handler's promise settles; the loop looks at it if it still waits.
Settle(disposition) ==
  /\ handler' = "none"
  /\ \/ loop # "handling" /\ UNCHANGED loop
     \/ loop = "handling" /\ disposition = "ACK" /\ loop' = "deleting"
     \/ loop = "handling" /\ disposition = "RETRY" /\ Again
  /\ UNCHANGED <<aborted, receiveVars, shutdownVars>>

Claimed == Enter("claim", "objectStore") /\ UNCHANGED <<error, recorded>>

\* Nothing to claim (ACK if the statement is settled), or the claim failed.
NotClaimed ==
  /\ handler = "claim"
  /\ Settle("ACK") \/ Settle("RETRY")
  /\ UNCHANGED <<error, recorded>>

ObjectRead == Enter("objectStore", "ocr") /\ UNCHANGED <<error, recorded>>

\* Mutant of LinesRecognised: the pool is not ended.
LinesAlwaysSaved ==
  /\ Enter("ocr", "database")
  /\ UNCHANGED <<error, recorded>>

LinesRecognised ==
  /\ PoolOpen
  /\ Enter("ocr", "database")
  /\ UNCHANGED <<error, recorded>>

Saved ==
  /\ handler = "database"
  /\ recorded' = "COMPLETED"
  /\ Settle("ACK")
  /\ UNCHANGED error

\* The errors the stage may meet now; saving takes no signal.
Possible(stage) ==
  Raised[stage] \union (IF aborted /\ stage # "database" THEN Aborts ELSE {})

\* A stage fails: a retryable error is RETRY, a permanent one is recorded
\* first.  With the pool ended markFailed throws, which is RETRY too.
StageFails(stage) ==
  /\ handler = stage
  /\ \E e \in Possible(stage) :
       /\ error' = e
       /\ IF ClassifyAnalyzeJobError(stage, e) = Retryable \/ ~PoolOpen
          THEN Settle("RETRY")
          ELSE Enter(stage, "markFailed")
  /\ UNCHANGED recorded

\* The connection for saving is refused: a database error.
SaveIsRefused ==
  /\ handler = "ocr"
  /\ ~PoolOpen
  /\ Settle("RETRY")
  /\ UNCHANGED <<error, recorded>>

\* The stage the error came from.
FailedStage == IF error \in BadSource THEN "objectStore" ELSE "ocr"

MarkedFailed ==
  /\ handler = "markFailed"
  /\ recorded' = ClassifyAnalyzeJobError(FailedStage, error)
  /\ Settle("ACK")
  /\ UNCHANGED error

\* The claim was lost, or markFailed threw.
NotMarkedFailed ==
  /\ handler = "markFailed"
  /\ Settle("RETRY")
  /\ UNCHANGED <<error, recorded>>

HandlerStep ==
  \/ Claimed \/ NotClaimed
  \/ ObjectRead
  \/ LinesRecognised \/ SaveIsRefused
  \/ Saved
  \/ \E stage \in Stages : StageFails(stage)
  \/ MarkedFailed \/ NotMarkedFailed

-----------------------------------------------------------------------------
(* Deleting the message.                                                   *)

DeleteSettles ==
  /\ loop = "deleting"
  /\ Again
  /\ UNCHANGED <<receiveVars, shutdownVars, jobVars>>

-----------------------------------------------------------------------------
(* Shutdown.                                                               *)

\* Mutant of Signal: every signal sets the deadline again.
SignalAgain(s) ==
  /\ s \in listening
  /\ loop \notin {"ended", "dead"}
  /\ listening' = listening \ {s}
  /\ requested' = TRUE
  /\ remaining' = ShutdownTimeout
  /\ aborted' = (aborted \/ loop = "handling")
  /\ UNCHANGED <<loop, receiveVars, elapsed, handler, error, recorded>>

\* The first signal of a kind.  It aborts the receive in progress and the
\* handler the loop waits for.
Signal(s) ==
  /\ s \in listening
  /\ loop \notin {"ended", "dead"}
  /\ listening' = listening \ {s}
  /\ requested' = TRUE
  /\ remaining' = IF requested THEN remaining ELSE ShutdownTimeout
  /\ aborted' = (aborted \/ (~requested /\ loop = "handling"))
  /\ UNCHANGED <<loop, receiveVars, elapsed, handler, error, recorded>>

DeadlinePassed == requested /\ remaining = 0

\* Mutant of HandlerTimesOut: the handler is left without being aborted.
HandlerIsLeft ==
  /\ loop = "handling"
  /\ DeadlinePassed
  /\ Again
  /\ UNCHANGED <<receiveVars, shutdownVars, jobVars>>

\* TIMED_OUT: the loop aborts the handler and no longer waits for it.
HandlerTimesOut ==
  /\ loop = "handling"
  /\ DeadlinePassed
  /\ Again
  /\ aborted' = TRUE
  /\ UNCHANGED <<receiveVars, shutdownVars, handler, error, recorded>>

\* Mutant of DeleteTimesOut: the delete is awaited without a deadline.
DeleteIsAwaited == FALSE

DeleteTimesOut ==
  /\ loop = "deleting"
  /\ DeadlinePassed
  /\ Again
  /\ UNCHANGED <<receiveVars, shutdownVars, jobVars>>

\* pool.end() waits for the connections that are in use.
PoolEnds ==
  /\ loop = "stopped"
  /\ handler \notin {"claim", "database", "markFailed"}
  /\ loop' = "ended"
  /\ UNCHANGED <<receiveVars, shutdownVars, jobVars>>

\* A second signal of a kind meets no listener and kills the process; so does
\* ECS at the end of its own stopTimeout, and a crash at any time.
Killed ==
  /\ loop # "dead"
  /\ loop' = "dead"
  /\ handler' = "none"
  /\ UNCHANGED <<receiveVars, shutdownVars, aborted, error, recorded>>

-----------------------------------------------------------------------------
\* A timer is running that the loop waits for.  The abort of a receive
\* arrives before the deadline (the SDK rejects it at once).
TimerPending ==
  \/ loop = "backingOff" /\ wait > 0 /\ ~requested
  \/ loop \in {"receiving", "handling", "deleting"} /\ requested /\ remaining > 0

Less(n) == IF n = 0 THEN 0 ELSE n - 1

Tick ==
  /\ TimerPending
  /\ wait' = Less(wait)
  /\ remaining' = Less(remaining)
  /\ elapsed' = IF requested THEN Smaller(elapsed + 1, ShutdownTimeout + 1) ELSE 0
  /\ UNCHANGED <<loop, backoff, failures, requested, listening, jobVars>>

ReceiveSettles == ReceiveJob \/ ReceiveNothing \/ ReceiveInvalid \/ ReceiveFails

LoopStep ==
  \/ ReceiveSettles
  \/ BackoffEnds
  \/ HandlerTimesOut \/ DeleteTimesOut
  \/ PoolEnds

Next ==
  \/ LoopStep
  \/ handler # "none" /\ loop # "dead" /\ HandlerStep
  \/ DeleteSettles
  \/ \E s \in Signals : Signal(s)
  \/ Killed
  \/ Tick

Spec == Init /\ [][Next]_vars

\* The timers fire and the long poll ends (after 20 seconds, or aborted).
\* Nothing is assumed of the handler, of the delete or of the pool.
Fairness ==
  /\ WF_vars(Tick)
  /\ WF_vars(ReceiveSettles)
  /\ WF_vars(BackoffEnds)
  /\ WF_vars(HandlerTimesOut)
  /\ WF_vars(DeleteTimesOut)

FairSpec == Spec /\ Fairness

-----------------------------------------------------------------------------
(* Properties.                                                             *)

\* All that is done after the request shares one deadline: the handler in
\* progress, one that starts after the request because its receive was
\* answered before the abort, and the delete after it (docs/worker.md,
\* "Graceful Shutdown").
StopsByDeadline ==
  requested /\ loop \in {"receiving", "backingOff", "handling", "deleting"}
    => elapsed <= ShutdownTimeout

\* No handler outlives the loop unaware of it: one that is still running when
\* run() has returned has an aborted signal, also the one that started after
\* the shutdown was requested.
AbandonedIsAborted ==
  loop \in {"stopped", "ended"} /\ handler # "none" => aborted

\* A shutdown fails no statement: a call that was cut off by the abort leads to
\* a new delivery, whatever the stage, and never to FAILED
\* (docs/bedrock.md, "AbortError").
ShutdownFailsNothing ==
  recorded \in FailureCodes => error \notin Aborts

\* The n-th failure of a receive in a row is followed by a wait of
\* 2^(n-1) times the first, up to the maximum; any answer, also an empty
\* one, starts again, and an invalid message changes nothing.
BackoffMatchesFailures ==
  loop = "backingOff" /\ ~requested =>
    /\ backoff = Smaller(InitialBackoff * 2 ^ (failures - 1), MaxBackoff)
    /\ wait <= backoff

\* When the process has ended its pool no handler is in the database: no
\* transaction of it is left open or still to begin.
DatabaseIsLeft == loop = "ended" => handler \notin {"claim", "database", "markFailed"}

\* run() returns after a shutdown even if the handler or the delete hangs.
ShutdownEnds == requested ~> loop \in {"stopped", "ended", "dead"}

\* The loop comes back to the queue whatever it received and whatever the
\* handler answered, as long as handlers and deletes end.
KeepsReceiving ==
  []<>(loop \notin {"handling", "deleting"}) =>
    []<>(loop = "receiving" \/ requested \/ loop = "dead")

\* A statement fails for good only for its image, for the OCR's answer or
\* because Bedrock refused the request (docs/worker.md, "OCR_NON_RETRYABLE").
\* The code does not keep this: what is not on its list is not retryable.
PermanentFailuresAreExplicit ==
  recorded \in FailureCodes => error \in BadSource \union BadOcr \union Refusals
=============================================================================
