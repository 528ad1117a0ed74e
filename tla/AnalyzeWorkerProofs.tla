------------------------- MODULE AnalyzeWorkerProofs -------------------------
(***************************************************************************)
(* The worker process is safe, for all lengths of its timers: it stops by  *)
(* its deadline, leaves no handler behind that does not know, fails no     *)
(* statement for a shutdown, has left the database when it has ended, and  *)
(* waits twice as long after each failed receive in a row.                 *)
(*                                                                         *)
(* The invariant is about the two clocks of a shutdown (TimeIsShared),     *)
(* about where a handler may still run (HandlerIsWatched), about which     *)
(* errors lead to a record (VerdictIsFinal), and about the backoff in the  *)
(* turns of the loop between two waits (BackoffIsKnown).                   *)
(***************************************************************************)
EXTENDS AnalyzeWorker, FiniteSetTheorems, TLAPS

\* What has passed since the request and what is left make up the timeout.
TimeIsShared ==
  IF requested THEN elapsed + remaining = ShutdownTimeout ELSE elapsed = 0

\* A handler runs while the loop waits for it; after that only with an aborted
\* signal, and until the process is gone.
HandlerIsWatched ==
  handler # "none" =>
    loop = "handling" \/ (loop \in {"stopped", "ended"} /\ aborted)

\* A handler records once, as its last act, and a failure only for an error that
\* the stage it came from classifies as permanent.
VerdictIsFinal ==
  /\ handler # "none" => recorded = "none"
  /\ handler = "markFailed" =>
       ClassifyAnalyzeJobError(FailedStage, error) \in FailureCodes

\* The next wait is 2^n times the first after n failures, up to the maximum; in
\* the wait after the n-th it is still to be doubled.
NextBackoff(n) == Smaller(InitialBackoff * 2 ^ n, MaxBackoff)

BackoffIsKnown ==
  /\ loop = "backingOff" =>
       failures >= 1 /\ backoff = NextBackoff(failures - 1) /\ wait <= backoff
  /\ loop \notin {"backingOff", "dead"} => backoff = NextBackoff(failures)

\* The invariant: how the clocks run, where the handler is and what it has done,
\* and the two properties that are inductive with these.
SafetyInv ==
  /\ TimeIsShared
  /\ HandlerIsWatched
  /\ VerdictIsFinal
  /\ ShutdownFailsNothing
  /\ DatabaseIsLeft

-----------------------------------------------------------------------------
(* Classification.                                                         *)

\* Saving is never failed for good: all its errors are retryable.
LEMMA DatabaseIsRetryable ==
  ASSUME NEW e \in DatabaseErrors \union Aborts
  PROVE  ClassifyAnalyzeJobError("database", e) = Retryable
BY DEF ClassifyAnalyzeJobError, ClassifyByStage, DatabaseErrors, Aborts, Err, IsAbortError,
   NoCode, Retryable

\* An abort is retryable wherever it is met.
LEMMA AbortsAreRetryable ==
  ASSUME NEW e \in Aborts, NEW stage
  PROVE  ClassifyAnalyzeJobError(stage, e) = Retryable
BY DEF ClassifyAnalyzeJobError, Aborts, Err, IsAbortError

\* What is not retryable is recorded under the code of its own stage.
LEMMA PermanentHasCode ==
  ASSUME NEW stage \in Stages, NEW e \in Raised[stage] \union Aborts,
         ClassifyAnalyzeJobError(stage, e) # Retryable
  PROVE  /\ ClassifyAnalyzeJobError(stage, e) \in FailureCodes
         /\ stage = IF e \in BadSource THEN "objectStore" ELSE "ocr"
         /\ e \notin Aborts
<1>1. e \notin Aborts /\ e \in Raised[stage]
  BY AbortsAreRetryable
<1>2. stage # "database"
  BY <1>1, DatabaseIsRetryable DEF Raised
<1>3. CASE stage = "objectStore"
  <2>1. e.name \in {"ObjectNotFoundError", "InvalidSourceObjectError"}
    BY <1>3 DEF ClassifyAnalyzeJobError, ClassifyByStage, Retryable
  <2>3. e \notin Transient
    BY <2>1 DEF Transient, Err
  <2>2. e \in BadSource
    BY <1>1, <1>3, <2>3 DEF Raised
  <2> QED BY <1>1, <1>3, <2>2
          DEF ClassifyAnalyzeJobError, ClassifyByStage, BadSource, Err, IsAbortError, NoCode,
              FailureCodes
<1>4. CASE stage = "ocr"
  <2>1. e \in BadOcr \union Busy \union Refusals \union Transient
    BY <1>1, <1>4 DEF Raised
  <2>2. e \notin BadSource
    <3>1. e.name \notin {"ObjectNotFoundError", "InvalidSourceObjectError"}
      BY <2>1 DEF BadOcr, Busy, Refusals, Transient, Err
    <3> QED BY <3>1 DEF BadSource, Err
  <2>3. ClassifyAnalyzeJobError(stage, e) \in FailureCodes
    BY <1>4 DEF ClassifyAnalyzeJobError, ClassifyByStage, Retryable, FailureCodes
  <2> QED BY <1>1, <1>4, <2>2, <2>3
<1> QED BY <1>2, <1>3, <1>4 DEF Stages, Raised

-----------------------------------------------------------------------------
(* Types.                                                                  *)

\* The wait after a failure doubles within its bounds.
LEMMA BackoffType ==
  ASSUME TypeOK
  PROVE  /\ InitialBackoff \in InitialBackoff..MaxBackoff
         /\ Smaller(2 * backoff, MaxBackoff) \in InitialBackoff..MaxBackoff
         /\ backoff \in 0..MaxBackoff
BY TimesAssumption DEF TypeOK, Smaller

\* A clock that runs down or up stays within its bounds.
LEMMA ClockTypes ==
  ASSUME TypeOK
  PROVE  /\ Less(wait) \in 0..MaxBackoff
         /\ Less(remaining) \in 0..ShutdownTimeout
         /\ Smaller(elapsed + 1, ShutdownTimeout + 1) \in 0..(ShutdownTimeout + 1)
BY TimesAssumption DEF TypeOK, Less, Smaller

\* What a stage may fail with is an error, and none of those is NoError.
LEMMA ErrorType ==
  ASSUME NEW stage \in Stages
  PROVE  /\ Possible(stage) \subseteq Errors
         /\ Possible(stage) \subseteq Raised[stage] \union Aborts
<1>1. \A s \in Stages : Raised[s] \subseteq Errors
  BY DEF Stages, Raised, Errors
<1>2. Aborts \subseteq Errors
  BY DEF Errors
<1> QED BY <1>1, <1>2 DEF Possible

\* Every step keeps the types, given that only failure codes are recorded.
LEMMA NextType == ASSUME TypeOK, VerdictIsFinal, [Next]_vars PROVE TypeOK'
<1> USE TimesAssumption
<1> USE DEF TypeOK, jobVars, receiveVars, shutdownVars, Again
<1>1. CASE UNCHANGED vars
  BY <1>1 DEF vars
<1>2. CASE ReceiveSettles
  <2>1. CASE ReceiveJob
    <3>1. /\ loop' = "handling" /\ handler' = "claim"
          /\ aborted' = FALSE /\ error' = NoError /\ recorded' = "none"
          /\ backoff' = InitialBackoff /\ wait' = wait /\ failures' = 0
          /\ UNCHANGED shutdownVars
      BY <2>1 DEF ReceiveJob, ResetBackoff
    <3>2. aborted' \in BOOLEAN
      BY <3>1
    <3> QED BY <3>1, <3>2, BackoffType
  <2>2. CASE ReceiveNothing \/ ReceiveInvalid
    BY <2>2, BackoffType DEF ReceiveNothing, ReceiveInvalid, ResetBackoff
  <2>3. CASE ReceiveFails
    BY <2>3, BackoffType DEF ReceiveFails
  <2> QED BY <1>2, <2>1, <2>2, <2>3 DEF ReceiveSettles
<1>3. CASE BackoffEnds
  BY <1>3, BackoffType DEF BackoffEnds
<1>4. CASE HandlerTimesOut \/ DeleteTimesOut \/ PoolEnds \/ DeleteSettles \/ Killed
  BY <1>4 DEF HandlerTimesOut, DeleteTimesOut, PoolEnds, DeleteSettles, Killed
<1>5. CASE Claimed \/ NotClaimed \/ ObjectRead
  BY <1>5 DEF Claimed, NotClaimed, ObjectRead, Enter, Settle, Stages, Raised
<1>6. CASE LinesRecognised \/ SaveIsRefused \/ Saved \/ NotMarkedFailed
  BY <1>6 DEF LinesRecognised, SaveIsRefused, Saved, NotMarkedFailed, Enter, Settle, Stages,
     Raised
<1>7. ASSUME NEW stage \in Stages, StageFails(stage) PROVE TypeOK'
  BY <1>7, ErrorType DEF StageFails, Enter, Settle
<1>8. CASE MarkedFailed
  BY <1>8 DEF MarkedFailed, Settle, VerdictIsFinal
<1>9. ASSUME NEW s \in Signals, Signal(s) PROVE TypeOK'
  BY <1>9 DEF Signal
<1>10. CASE Tick
  BY <1>10, ClockTypes DEF Tick
<1> QED BY <1>1, <1>2, <1>3, <1>4, <1>5, <1>6, <1>7, <1>8, <1>9, <1>10
        DEF Next, LoopStep, HandlerStep

-----------------------------------------------------------------------------
(* The clocks.                                                             *)

\* Time passes for a shutdown only while there is some left.
LEMMA NextTime == ASSUME TypeOK, TimeIsShared, [Next]_vars PROVE TimeIsShared'
<1> USE DEF TypeOK, TimeIsShared, jobVars, receiveVars, shutdownVars
<1>1. CASE UNCHANGED shutdownVars
  BY <1>1
<1>2. ASSUME NEW s \in Signals, Signal(s) PROVE TimeIsShared'
  BY <1>2, TimesAssumption DEF Signal
<1>3. CASE Tick
  BY <1>3, TimesAssumption DEF Tick, TimerPending, Less, Smaller
<1>4. CASE HandlerStep
  BY <1>1, <1>4 DEF HandlerStep, Claimed, NotClaimed, ObjectRead, LinesRecognised,
     SaveIsRefused, Saved, StageFails, MarkedFailed, NotMarkedFailed, Enter, Settle
<1>5. CASE LoopStep \/ DeleteSettles \/ Killed \/ UNCHANGED vars
  BY <1>1, <1>5 DEF LoopStep, ReceiveSettles, ReceiveJob, ReceiveNothing, ReceiveInvalid,
     ReceiveFails, BackoffEnds, HandlerTimesOut, DeleteTimesOut, PoolEnds, DeleteSettles,
     Killed, vars
<1> QED BY <1>2, <1>3, <1>4, <1>5 DEF Next

-----------------------------------------------------------------------------
(* The handler.                                                            *)

\* A handler the loop does not wait for is aborted.
LEMMA NextWatched == ASSUME TypeOK, HandlerIsWatched, [Next]_vars PROVE HandlerIsWatched'
<1> USE DEF TypeOK, HandlerIsWatched, jobVars, receiveVars, shutdownVars, Again
<1>1. CASE UNCHANGED vars \/ Tick
  BY <1>1 DEF vars, Tick
<1>2. CASE ReceiveSettles \/ BackoffEnds
  <2>1. loop \in {"receiving", "backingOff"} /\ handler = "none"
    BY <1>2 DEF ReceiveSettles, ReceiveJob, ReceiveNothing, ReceiveInvalid, ReceiveFails,
       BackoffEnds
  <2>2. CASE ReceiveJob
    BY <2>2 DEF ReceiveJob
  <2>3. CASE UNCHANGED jobVars
    BY <2>1, <2>3
  <2> QED BY <1>2, <2>2, <2>3
          DEF ReceiveSettles, ReceiveNothing, ReceiveInvalid, ReceiveFails, BackoffEnds
<1>3. CASE HandlerTimesOut \/ DeleteTimesOut \/ PoolEnds \/ DeleteSettles \/ Killed
  BY <1>3 DEF HandlerTimesOut, DeadlinePassed, DeleteTimesOut, PoolEnds, DeleteSettles, Killed
<1>4. CASE Claimed \/ NotClaimed \/ ObjectRead
  BY <1>4 DEF Claimed, NotClaimed, ObjectRead, Enter, Settle
<1>5. CASE LinesRecognised \/ SaveIsRefused \/ Saved \/ MarkedFailed \/ NotMarkedFailed
  BY <1>5 DEF LinesRecognised, SaveIsRefused, Saved, MarkedFailed, NotMarkedFailed, Enter,
     Settle
<1>6. ASSUME NEW stage \in Stages, StageFails(stage) PROVE HandlerIsWatched'
  BY <1>6 DEF StageFails, Enter, Settle, Stages, Raised
<1>7. ASSUME NEW s \in Signals, Signal(s) PROVE HandlerIsWatched'
  BY <1>7 DEF Signal
<1> QED BY <1>1, <1>2, <1>3, <1>4, <1>5, <1>6, <1>7 DEF Next, LoopStep, HandlerStep

\* A stage that fails for good fails with a permanent error.
LEMMA StageFailure ==
  ASSUME TypeOK, NEW stage \in Stages, StageFails(stage)
  PROVE  /\ UNCHANGED recorded /\ handler = stage
         /\ \/ handler' = "none"
            \/ /\ handler' = "markFailed"
               /\ ClassifyAnalyzeJobError(FailedStage, error)' \in FailureCodes
               /\ error' \notin Aborts
<1>1. PICK e \in Possible(stage) :
        /\ error' = e
        /\ IF ClassifyAnalyzeJobError(stage, e) = Retryable \/ ~PoolOpen
           THEN Settle("RETRY")
           ELSE Enter(stage, "markFailed")
  BY DEF StageFails
<1>2. CASE ClassifyAnalyzeJobError(stage, e) = Retryable \/ ~PoolOpen
  BY <1>1, <1>2 DEF StageFails, Settle
<1>3. CASE ClassifyAnalyzeJobError(stage, e) # Retryable
  <2>1. /\ ClassifyAnalyzeJobError(stage, e) \in FailureCodes
        /\ stage = IF e \in BadSource THEN "objectStore" ELSE "ocr"
        /\ e \notin Aborts
    BY <1>3, ErrorType, PermanentHasCode
  <2>2. FailedStage' = stage
    BY <1>1, <2>1 DEF FailedStage
  <2> QED BY <1>1, <1>2, <1>3, <2>1, <2>2 DEF StageFails, Enter
<1> QED BY <1>2, <1>3

\* Nothing is recorded while the handler runs, and no failure after an abort.
LEMMA NextVerdict ==
  ASSUME TypeOK, VerdictIsFinal, ShutdownFailsNothing, [Next]_vars
  PROVE  VerdictIsFinal' /\ ShutdownFailsNothing'
<1> USE DEF TypeOK, VerdictIsFinal, ShutdownFailsNothing, jobVars, FailedStage
<1>1. CASE UNCHANGED jobVars
  BY <1>1
<1>2. CASE ReceiveJob \/ Killed
  BY <1>2 DEF ReceiveJob, Killed, FailureCodes
<1>3. CASE Claimed \/ NotClaimed \/ ObjectRead \/ LinesRecognised \/ SaveIsRefused
           \/ Saved \/ NotMarkedFailed
  BY <1>3 DEF Claimed, NotClaimed, ObjectRead, LinesRecognised, SaveIsRefused, Saved,
     NotMarkedFailed, Enter, Settle, FailureCodes
<1>4. ASSUME NEW stage \in Stages, StageFails(stage)
      PROVE  VerdictIsFinal' /\ ShutdownFailsNothing'
  BY <1>4, StageFailure DEF FailureCodes, Stages, Raised
<1>5. CASE MarkedFailed
  BY <1>5, AbortsAreRetryable DEF MarkedFailed, Settle, FailureCodes, Retryable
<1>6. ASSUME NEW s \in Signals, Signal(s) PROVE VerdictIsFinal' /\ ShutdownFailsNothing'
  BY <1>6 DEF Signal
<1>7. CASE HandlerTimesOut
  BY <1>7 DEF HandlerTimesOut
<1> QED BY <1>1, <1>2, <1>3, <1>4, <1>5, <1>6, <1>7
        DEF Next, LoopStep, HandlerStep, ReceiveSettles, ReceiveNothing, ReceiveInvalid,
            ReceiveFails, BackoffEnds, DeleteTimesOut, PoolEnds, DeleteSettles, Tick, vars

\* A handler that is still running when the pool has ended stays out of it.
LEMMA NextDatabaseIsLeft ==
  ASSUME TypeOK, DatabaseIsLeft, [Next]_vars PROVE DatabaseIsLeft'
<1> USE DEF TypeOK, DatabaseIsLeft, jobVars, Again
<1>1. CASE UNCHANGED vars \/ Tick
  BY <1>1 DEF vars, Tick
<1>2. CASE ReceiveSettles \/ BackoffEnds
  BY <1>2 DEF ReceiveSettles, ReceiveJob, ReceiveNothing, ReceiveInvalid, ReceiveFails,
     BackoffEnds
<1>3. CASE HandlerTimesOut \/ DeleteTimesOut \/ PoolEnds \/ DeleteSettles \/ Killed
  BY <1>3 DEF HandlerTimesOut, DeleteTimesOut, PoolEnds, DeleteSettles, Killed
<1>4. CASE Claimed \/ NotClaimed \/ ObjectRead
  BY <1>4 DEF Claimed, NotClaimed, ObjectRead, Enter, Settle
<1>5. CASE LinesRecognised \/ SaveIsRefused \/ Saved \/ MarkedFailed \/ NotMarkedFailed
  BY <1>5 DEF LinesRecognised, PoolOpen, SaveIsRefused, Saved, MarkedFailed, NotMarkedFailed,
     Enter, Settle
<1>6. ASSUME NEW stage \in Stages, StageFails(stage) PROVE DatabaseIsLeft'
  BY <1>6 DEF StageFails, PoolOpen, Enter, Settle
<1>7. ASSUME NEW s \in Signals, Signal(s) PROVE DatabaseIsLeft'
  BY <1>7 DEF Signal
<1> QED BY <1>1, <1>2, <1>3, <1>4, <1>5, <1>6, <1>7 DEF Next, LoopStep, HandlerStep

-----------------------------------------------------------------------------
(* The backoff.                                                            *)

\* A power of two is the number of subsets of a set, and doubles with each
\* element.
LEMMA PowerDoubles ==
  ASSUME NEW n \in Nat
  PROVE  2 ^ n \in Nat /\ 2 ^ n >= 1 /\ 2 ^ (n + 1) = 2 * 2 ^ n /\ 2 ^ 0 = 1
<1> DEFINE S == 1..n
           x == n + 1
           P == SUBSET S
           T == {s \union {x} : s \in P}
<1>1. /\ IsFiniteSet(S) /\ Cardinality(S) = n
      /\ IsFiniteSet(S \union {x}) /\ Cardinality(S \union {x}) = n + 1
      /\ x \notin S
  <2>1. IsFiniteSet(S) /\ Cardinality(S) = n
    BY FS_Interval
  <2>2. x \notin S
    OBVIOUS
  <2> HIDE DEF S, x
  <2>3. /\ IsFiniteSet(S \union {x}) /\ Cardinality(S \union {x}) = n + 1
    BY <2>1, <2>2, FS_AddElement
  <2> QED BY <2>1, <2>2, <2>3
<1> HIDE DEF S, x
<1>2. IsFiniteSet(P) /\ Cardinality(P) = 2 ^ n /\ Cardinality(SUBSET (S \union {x})) = 2 ^ (n + 1)
  <2>1. Cardinality(P) = 2 ^ Cardinality(S) /\ IsFiniteSet(P)
    BY <1>1, FS_SUBSET
  <2>2. Cardinality(SUBSET (S \union {x})) = 2 ^ Cardinality(S \union {x})
    BY <1>1, FS_SUBSET
  <2> QED BY <1>1, <2>1, <2>2
<1>3. IsFiniteSet(T) /\ Cardinality(T) = Cardinality(P)
  <2> DEFINE f == [s \in P |-> s \union {x}]
  <2>1. f \in Bijection(P, T)
    <3>1. \A s, t \in P : s \union {x} = t \union {x} => s = t
      BY <1>1
    <3>2. f \in [P -> T] /\ \A s \in P : f[s] = s \union {x}
      OBVIOUS
    <3>3. \A t \in T : \E s \in P : f[s] = t
      OBVIOUS
    <3> HIDE DEF f, T, P
    <3>4. f \in Injection(P, T)
      BY <3>1, <3>2 DEF Injection, IsInjective
    <3> QED BY <3>2, <3>3, <3>4 DEF Bijection, Surjection
  <2> HIDE DEF f, T, P
  <2> QED BY <1>2, <2>1, FS_Bijection DEF ExistsBijection
<1>4. SUBSET (S \union {x}) = P \union T
  <2>1. ASSUME NEW s \in SUBSET (S \union {x}) PROVE s \in P \union T
    <3>1. CASE x \in s
      <4>1. s \ {x} \in P /\ s = (s \ {x}) \union {x}
        BY <3>1
      <4> QED BY <4>1
    <3> QED BY <3>1
  <2> QED BY <2>1
<1>5. P \intersect T = {}
  BY <1>1
<1> HIDE DEF P, T
<1>6. Cardinality(P \union T) = Cardinality(P) + Cardinality(T) - 0 /\ Cardinality(P) \in Nat
  <2>1. Cardinality(P \union T) = Cardinality(P) + Cardinality(T) - Cardinality(P \intersect T)
    BY <1>2, <1>3, FS_Union
  <2> QED BY <1>2, <1>5, <2>1, FS_EmptySet, FS_CardinalityType
<1>7. 2 ^ (n + 1) = 2 * 2 ^ n /\ 2 ^ n \in Nat
  <2> DEFINE p == 2 ^ n
  <2>1. 2 ^ (n + 1) = p + p - 0 /\ p \in Nat
    BY <1>2, <1>3, <1>4, <1>6, Zenon
  <2> HIDE DEF p
  <2>2. p + p - 0 = 2 * p
    BY <2>1
  <2> QED BY <2>1, <2>2 DEF p
<1>8. 2 ^ n # 0
  <2>1. {} \in P
    BY DEF P
  <2> QED BY <1>2, <2>1, FS_EmptySet
<1>9. 2 ^ 0 = 1
  <2>1. Cardinality(SUBSET {}) = 2 ^ Cardinality({}) /\ Cardinality({}) = 0
    BY FS_SUBSET, FS_EmptySet
  <2>2. SUBSET {} = {{}}
    OBVIOUS
  <2> QED BY <2>1, <2>2, FS_Singleton
<1> QED BY <1>7, <1>8, <1>9

\* The bounded wait doubles too.
LEMMA NextBackoffDoubles ==
  ASSUME NEW n \in Nat
  PROVE  /\ NextBackoff(0) = InitialBackoff
         /\ NextBackoff(n + 1) = Smaller(2 * NextBackoff(n), MaxBackoff)
<1> DEFINE p == 2 ^ n
           q == 2 ^ (n + 1)
<1>1. p \in Nat /\ p >= 1 /\ q = 2 * p /\ 2 ^ 0 = 1
  BY PowerDoubles
<1> HIDE DEF p, q
<1>2. InitialBackoff * q = 2 * (InitialBackoff * p)
  BY <1>1, TimesAssumption
<1>3. InitialBackoff * p \in Nat
  BY <1>1, TimesAssumption
<1>4. NextBackoff(0) = InitialBackoff
  BY <1>1, TimesAssumption DEF NextBackoff, Smaller
<1> DEFINE z == InitialBackoff * p
<1>5. NextBackoff(n) = Smaller(z, MaxBackoff) /\ NextBackoff(n + 1) = Smaller(2 * z, MaxBackoff)
  BY <1>2 DEF NextBackoff, p, q
<1> HIDE DEF z
<1>6. z \in Nat
  BY <1>3 DEF z
<1> QED BY <1>4, <1>5, <1>6, TimesAssumption DEF Smaller

\* Every step keeps the backoff in step with the failures.
LEMMA NextBackoffKnown ==
  ASSUME TypeOK, BackoffIsKnown, [Next]_vars
  PROVE  BackoffIsKnown'
<1> USE DEF BackoffIsKnown
<1>0. /\ failures \in Nat /\ wait \in Nat /\ backoff \in Nat
      /\ NextBackoff(0) = InitialBackoff
      /\ NextBackoff(failures + 1) = Smaller(2 * NextBackoff(failures), MaxBackoff)
  <2>1. failures \in Nat /\ wait \in Nat /\ backoff \in Nat
    BY TimesAssumption DEF TypeOK
  <2> QED BY <2>1, NextBackoffDoubles
<1>1. CASE UNCHANGED vars
  BY <1>1 DEF vars, receiveVars, NextBackoff
<1>2. CASE ReceiveJob \/ ReceiveNothing \/ ReceiveInvalid
  BY <1>0, <1>2 DEF ReceiveJob, ReceiveNothing, ReceiveInvalid, ResetBackoff, Again, receiveVars
<1>3. CASE ReceiveFails
  BY <1>0, <1>3 DEF ReceiveFails, receiveVars
<1>4. CASE BackoffEnds
  <2>1. failures \in Nat \ {0} /\ (failures - 1) + 1 = failures
    BY <1>0, <1>4 DEF BackoffEnds
  <2>2. NextBackoff(failures) = Smaller(2 * NextBackoff(failures - 1), MaxBackoff)
    <3>1. failures - 1 \in Nat
      BY <2>1
    <3>2. NextBackoff((failures - 1) + 1) = Smaller(2 * NextBackoff(failures - 1), MaxBackoff)
      BY <3>1, NextBackoffDoubles
    <3> QED BY <2>1, <3>2
  <2> QED BY <1>4, <2>2 DEF BackoffEnds, Again
<1>5. CASE Tick
  BY <1>0, <1>5 DEF Tick, Less
<1>6. CASE \/ HandlerTimesOut \/ DeleteTimesOut \/ PoolEnds \/ DeleteSettles \/ Killed
           \/ handler # "none" /\ loop # "dead" /\ HandlerStep
           \/ \E s \in Signals : Signal(s)
  <2>1. UNCHANGED receiveVars
    BY <1>6 DEF HandlerTimesOut, DeleteTimesOut, PoolEnds, DeleteSettles, Killed, Signal,
       HandlerStep, Claimed, NotClaimed, ObjectRead, LinesRecognised, SaveIsRefused, Saved,
       StageFails, MarkedFailed, NotMarkedFailed, Enter, Settle
  <2>2. \/ UNCHANGED loop
        \/ loop' = "dead"
        \/ loop \notin {"backingOff", "dead"} /\ loop' \notin {"backingOff", "dead"}
    BY <1>6 DEF HandlerTimesOut, DeleteTimesOut, PoolEnds, DeleteSettles, Killed, Signal,
       HandlerStep, Claimed, NotClaimed, ObjectRead, LinesRecognised, SaveIsRefused, Saved,
       StageFails, MarkedFailed, NotMarkedFailed, Enter, Settle, Again
  <2> QED BY <2>1, <2>2 DEF receiveVars
<1> QED BY <1>1, <1>2, <1>3, <1>4, <1>5, <1>6 DEF Next, LoopStep, ReceiveSettles

-----------------------------------------------------------------------------
(* The theorems.                                                           *)

\* The process starts with no handler and no request to stop.
LEMMA WorkerInit == ASSUME Init PROVE TypeOK /\ SafetyInv
<1> USE TimesAssumption DEF Init
<1>1. TypeOK
  <2>1. /\ backoff \in InitialBackoff..MaxBackoff /\ wait \in 0..MaxBackoff
        /\ remaining \in 0..ShutdownTimeout /\ elapsed \in 0..(ShutdownTimeout + 1)
        /\ failures \in 0..MaxFailures
    OBVIOUS
  <2>2. /\ requested \in BOOLEAN /\ aborted \in BOOLEAN
        /\ listening \subseteq Signals
    BY Zenon
  <2> QED BY <2>1, <2>2 DEF TypeOK
<1>2. SafetyInv
  BY DEF SafetyInv, TimeIsShared, HandlerIsWatched, VerdictIsFinal, ShutdownFailsNothing,
     DatabaseIsLeft, FailureCodes
<1> QED BY <1>1, <1>2

\* The invariant, together with the types.
LEMMA WorkerIsSafe == Spec => [](TypeOK /\ SafetyInv)
<1>1. TypeOK /\ SafetyInv /\ [Next]_vars => (TypeOK /\ SafetyInv)'
  BY NextType, NextTime, NextWatched, NextVerdict, NextDatabaseIsLeft DEF SafetyInv
<1> QED BY <1>1, WorkerInit, PTL DEF Spec

\* What is said of the backoff at the start holds of every wait.
LEMMA BackoffStaysKnown == Spec => []BackoffIsKnown
<1>1. Init => BackoffIsKnown
  BY NextBackoffDoubles DEF Init, BackoffIsKnown
<1>2. TypeOK /\ BackoffIsKnown /\ [Next]_vars => BackoffIsKnown'
  BY NextBackoffKnown
<1> QED BY <1>1, <1>2, WorkerIsSafe, PTL DEF Spec

\* Every variable keeps its type: only the codes of the table are recorded, and
\* the backoff stays between its two bounds.
THEOREM WorkerTypes == Spec => []TypeOK
BY WorkerIsSafe, PTL

\* What runs after a shutdown was requested shares one timeout: the loop is in
\* none of its waits any more when it has passed.
THEOREM DeadlineHolds == Spec => []StopsByDeadline
<1>1. TypeOK /\ SafetyInv => StopsByDeadline
  BY TimesAssumption DEF SafetyInv, TimeIsShared, TypeOK, StopsByDeadline
<1> QED BY <1>1, WorkerIsSafe, PTL

\* A handler that is running when run() has returned has an aborted signal.
THEOREM NobodyRunsUnaware == Spec => []AbandonedIsAborted
<1>1. TypeOK /\ SafetyInv => AbandonedIsAborted
  BY DEF SafetyInv, HandlerIsWatched, AbandonedIsAborted
<1> QED BY <1>1, WorkerIsSafe, PTL

\* No abort, at whatever stage it is met, fails a statement for good.
THEOREM AbortsAreRetried == Spec => []ShutdownFailsNothing
<1>1. SafetyInv => ShutdownFailsNothing
  BY DEF SafetyInv
<1> QED BY <1>1, WorkerIsSafe, PTL

\* When the pool has ended no handler is in the database, or will be.
THEOREM PoolEndsLast == Spec => []DatabaseIsLeft
<1>1. SafetyInv => DatabaseIsLeft
  BY DEF SafetyInv
<1> QED BY <1>1, WorkerIsSafe, PTL

\* The wait after the n-th failed receive in a row is 2^(n-1) times the first,
\* up to the maximum, however the turns of the loop in between ended.
THEOREM WaitsDouble == Spec => []BackoffMatchesFailures
<1>1. BackoffIsKnown => BackoffMatchesFailures
  BY DEF BackoffIsKnown, BackoffMatchesFailures, NextBackoff
<1> QED BY <1>1, BackoffStaysKnown, PTL
=============================================================================
