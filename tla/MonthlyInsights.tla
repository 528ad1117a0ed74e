--------------------------- MODULE MonthlyInsights ---------------------------
(***************************************************************************)
(* GET /analytics/monthly/insights: MonthlyInsightsService.getMonthly-     *)
(* Insights of src/insights/monthly-insights-service.ts with the           *)
(* transactions of src/database/statement-repository.ts it runs, the row   *)
(* of `monthly_insights` that caches the insights of one month, the        *)
(* advisory lock around their generation, and the pools of connections of  *)
(* the API processes.                                                      *)
(*                                                                         *)
(* A request is one run of getMonthlyInsights:                             *)
(*                                                                         *)
(*   idle -> arrived -> comparing -> looking -> queueing -> waiting        *)
(*                                      |                      |           *)
(*                                      |     generating <- locked         *)
(*                                      |          |           |           *)
(*                                      |       saving -> committing       *)
(*                                      v                      |           *)
(*                                   answered <----------------+           *)
(*                                                                         *)
(* and failing -> failed from everywhere.  What is counted of the data is  *)
(* only its version: `figures` is the number of statements completed so    *)
(* far, each of which changes the figures of both months compared.         *)
(*                                                                         *)
(* External: pg's pool lends a connection again in the state in which it   *)
(* was released, unless it was released with an error; a query that times  *)
(* out (query_timeout) goes on at the server.                              *)
(***************************************************************************)
EXTENDS Naturals, FiniteSets

CONSTANTS
  Requests,         \* bound: the requests of a behaviour
  Servers,          \* API processes
  Profiles,         \* pairs of model id and prompt version
  PoolSize,         \* connections in the pool of a process
  RollbackMayFail,  \* whether the ROLLBACK of the analytics can fail as well
  MaxFigures,       \* bound: the number of statements completed meanwhile
  MaxFaults,        \* bound: the number of failures
  NoRequest, NoConnection, NoInsights, NoSnapshot

ASSUME InsightsAssumption ==
  /\ NoRequest \notin Requests
  /\ PoolSize \in Nat \ {0}
  /\ RollbackMayFail \in BOOLEAN
  /\ MaxFigures \in Nat /\ MaxFaults \in Nat

Connections == Servers \X (1..PoolSize)

VARIABLES
  figures,   \* the version of the analytics
  cached,    \* the row of monthly_insights, as committed
  lockedBy,  \* lockedBy[p]: the request whose transaction has the lock of p
  writer,    \* the request whose transaction has written the row
  snapshot,  \* snapshot[c]: what a REPEATABLE READ transaction on c sees
  profile,   \* profile[s]: the configuration of process s
  phase,     \* phase[r]: where request r is
  server,    \* server[r]: the process that handles it
  on,        \* on[r]: the connection it holds
  since,     \* history: the figures when it arrived
  seen,      \* seen[r]: the figures it has read of both months
  answer,    \* answer[r]: the insights it was answered with
  faults

databaseVars == <<figures, cached, lockedBy, writer>>
requestVars == <<phase, on, seen, answer>>
vars == <<databaseVars, snapshot, profile, requestVars, server, since, faults>>

Versions == 0..MaxFigures
Insights == [current: Versions, previous: Versions, profile: Profiles]
Snapshots == [figures: Versions, cached: Insights \union {NoInsights}]

\* The values that stand for nothing are none of the things.
ASSUME NothingAssumption ==
  /\ NoConnection \notin Connections
  /\ NoInsights \notin Insights
  /\ NoSnapshot \notin Snapshots

\* The phases in which a request holds a connection, and the last ones.
Connected ==
  {"comparing", "waiting", "locked", "generating", "saving", "committing", "failing"}
Ended == {"answered", "failed"}
Phases == {"idle", "arrived", "looking", "queueing"} \union Connected \union Ended

TypeOK ==
  /\ figures \in Versions
  /\ cached \in Insights \union {NoInsights}
  /\ lockedBy \in [Profiles -> Requests \union {NoRequest}]
  /\ writer \in Requests \union {NoRequest}
  /\ snapshot \in [Connections -> Snapshots \union {NoSnapshot}]
  /\ profile \in [Servers -> Profiles]
  /\ phase \in [Requests -> Phases]
  /\ server \in [Requests -> Servers]
  /\ on \in [Requests -> Connections \union {NoConnection}]
  /\ since \in [Requests -> Versions]
  /\ seen \in [Requests -> [current: Versions, previous: Versions]]
  /\ answer \in [Requests -> Insights \union {NoInsights}]
  /\ \A r \in Requests : answer[r] \in Insights <=> phase[r] = "answered"
  /\ faults \in 0..MaxFaults

Init ==
  /\ figures = 0
  /\ cached = NoInsights
  /\ lockedBy = [p \in Profiles |-> NoRequest]
  /\ writer = NoRequest
  /\ snapshot = [c \in Connections |-> NoSnapshot]
  /\ profile \in [Servers -> Profiles]
  /\ phase = [r \in Requests |-> "idle"]
  /\ server \in [Requests -> Servers]
  /\ on = [r \in Requests |-> NoConnection]
  /\ since = [r \in Requests |-> 0]
  /\ seen = [r \in Requests |-> [current |-> 0, previous |-> 0]]
  /\ answer = [r \in Requests |-> NoInsights]
  /\ faults = 0

-----------------------------------------------------------------------------
ProfileOf(r) == profile[server[r]]

\* What r asks the cache for, and what it will save: the fingerprint of the
\* figures, the model and the prompt.
Lookup(r) ==
  [current |-> seen[r].current, previous |-> seen[r].previous, profile |-> ProfileOf(r)]

\* Mutant of Matches: a month without a row is not told apart.
MatchesNothing(r, insights) == insights \in {NoInsights, Lookup(r)}

\* The row is of these figures, this model and this prompt.
Matches(r, insights) == insights = Lookup(r)

\* The connections its process can lend to r.
Idle(r) == {c \in {server[r]} \X (1..PoolSize) : \A q \in Requests : on[q] # c}

\* What a statement on connection c sees.
View(c) ==
  IF snapshot[c] = NoSnapshot THEN [figures |-> figures, cached |-> cached]
                              ELSE snapshot[c]

Goto(r, from, to) == phase[r] = from /\ phase' = [phase EXCEPT ![r] = to]

Borrow(r, c) == c \in Idle(r) /\ on' = [on EXCEPT ![r] = c]

\* The connection goes back to the pool with no transaction on it.
Return(r) ==
  /\ on' = [on EXCEPT ![r] = NoConnection]
  /\ snapshot' = [snapshot EXCEPT ![on[r]] = NoSnapshot]

Answer(r, insights) == answer' = [answer EXCEPT ![r] = insights]

\* The transaction of r is over: its locks are free.
EndTxn(r) ==
  /\ lockedBy' = [p \in Profiles |-> IF lockedBy[p] = r THEN NoRequest ELSE lockedBy[p]]
  /\ writer' = IF writer = r THEN NoRequest ELSE writer

Fault == faults < MaxFaults /\ faults' = faults + 1

-----------------------------------------------------------------------------
\* A worker commits the lines of a statement (StatementStore's CompletedRow).
CompleteStatement ==
  /\ figures < MaxFigures
  /\ figures' = figures + 1
  /\ UNCHANGED <<cached, lockedBy, writer, snapshot, profile, requestVars, server,
                 since, faults>>

Arrive(r) ==
  /\ Goto(r, "idle", "arrived")
  /\ since' = [since EXCEPT ![r] = figures]
  /\ UNCHANGED <<databaseVars, snapshot, profile, on, seen, answer, server, faults>>

(* findMonthlyAnalytics.                                                   *)

\* The first aggregate, which takes the snapshot.
ReadCurrent(r) ==
  /\ Goto(r, "arrived", "comparing")
  /\ \E c \in Connections :
       /\ Borrow(r, c)
       /\ snapshot' = [snapshot EXCEPT ![c] = View(c)]
       /\ seen' = [seen EXCEPT ![r].current = View(c).figures]
  /\ UNCHANGED <<databaseVars, profile, answer, server, since, faults>>

\* Mutant of ReadPrevious: the isolation level is READ COMMITTED.
ReadPreviousCommitted(r) ==
  /\ Goto(r, "comparing", "looking")
  /\ seen' = [seen EXCEPT ![r].previous = figures]
  /\ Return(r)
  /\ UNCHANGED <<databaseVars, profile, answer, server, since, faults>>

\* The second one, and COMMIT.
ReadPrevious(r) ==
  /\ Goto(r, "comparing", "looking")
  /\ seen' = [seen EXCEPT ![r].previous = View(on[r]).figures]
  /\ Return(r)
  /\ UNCHANGED <<databaseVars, profile, answer, server, since, faults>>

(* The cache, and the generation under the lock.                           *)

FindMonthlyInsights(r) ==
  /\ \E c \in Idle(r) :
       \/ /\ Goto(r, "looking", "answered")
          /\ Matches(r, View(c).cached)
          /\ Answer(r, View(c).cached)
       \/ /\ Goto(r, "looking", "queueing")
          /\ ~Matches(r, View(c).cached)
          /\ UNCHANGED answer
  /\ UNCHANGED <<databaseVars, snapshot, profile, on, seen, server, since, faults>>

\* withMonthlyInsightsGenerationLock: connect and BEGIN ...
BeginGeneration(r) ==
  /\ Goto(r, "queueing", "waiting")
  /\ \E c \in Connections : Borrow(r, c)
  /\ UNCHANGED <<databaseVars, snapshot, profile, seen, answer, server, since, faults>>

\* Mutant of AcquireLock: a lock in the memory of the process.
AcquireLockOfProcess(r) ==
  /\ Goto(r, "waiting", "locked")
  /\ \A q \in Requests : server[q] = server[r] =>
       q = r \/ phase[q] \notin {"locked", "generating", "saving", "committing"}
  /\ lockedBy' = [lockedBy EXCEPT ![ProfileOf(r)] = r]
  /\ UNCHANGED <<figures, cached, writer, snapshot, profile, on, seen, answer, server,
                 since, faults>>

\* ... and wait for the advisory lock of the month, the model and the prompt.
AcquireLock(r) ==
  /\ Goto(r, "waiting", "locked")
  /\ lockedBy[ProfileOf(r)] = NoRequest
  /\ lockedBy' = [lockedBy EXCEPT ![ProfileOf(r)] = r]
  /\ UNCHANGED <<figures, cached, writer, snapshot, profile, on, seen, answer, server,
                 since, faults>>

\* The second look at the cache; COMMIT if there is nothing to generate.
LookAgain(r) ==
  /\ \/ /\ Goto(r, "locked", "answered")
        /\ Matches(r, View(on[r]).cached)
        /\ Answer(r, View(on[r]).cached)
        /\ EndTxn(r)
        /\ Return(r)
     \/ /\ Goto(r, "locked", "generating")
        /\ ~Matches(r, View(on[r]).cached)
        /\ UNCHANGED <<lockedBy, writer, snapshot, on, answer>>
  /\ UNCHANGED <<figures, cached, profile, seen, server, since, faults>>

\* Bedrock answers, or fails, or is aborted after 30 s, or its answer is not valid.
Generate(r) ==
  /\ Goto(r, "generating", "saving") \/ Goto(r, "generating", "failing")
  /\ UNCHANGED <<databaseVars, snapshot, profile, on, seen, answer, server, since,
                 faults>>

\* Mutant of SaveMonthlyInsights: the callback uses the pool, not the client.
SaveOnSecondConnection(r) ==
  /\ Goto(r, "saving", "committing")
  /\ Idle(r) # {}
  /\ writer = NoRequest
  /\ writer' = r
  /\ UNCHANGED <<figures, cached, lockedBy, snapshot, profile, on, seen, answer, server,
                 since, faults>>

\* The upsert waits for a transaction that has written the row; a snapshot
\* older than the row makes it fail.
SaveMonthlyInsights(r) ==
  /\ writer = NoRequest
  /\ \/ Goto(r, "saving", "committing") /\ View(on[r]).cached = cached /\ writer' = r
     \/ Goto(r, "saving", "failing") /\ View(on[r]).cached # cached /\ UNCHANGED writer
  /\ UNCHANGED <<figures, cached, lockedBy, snapshot, profile, on, seen, answer, server,
                 since, faults>>

Commit(r) ==
  /\ Goto(r, "committing", "answered")
  /\ cached' = Lookup(r)
  /\ Answer(r, Lookup(r))
  /\ EndTxn(r)
  /\ Return(r)
  /\ UNCHANGED <<figures, profile, seen, server, since, faults>>

\* If COMMIT itself had failed, nobody knows what had become of it.
MayHaveCommitted(r) ==
  \/ UNCHANGED cached
  \/ writer = r /\ cached' = Lookup(r)

\* Mutant of Rollback: the connection is kept.
RollbackOnly(r) ==
  /\ Goto(r, "failing", "failed")
  /\ MayHaveCommitted(r)
  /\ EndTxn(r)
  /\ UNCHANGED <<figures, snapshot, profile, on, seen, answer, server, since, faults>>

Rollback(r) ==
  /\ Goto(r, "failing", "failed")
  /\ MayHaveCommitted(r)
  /\ EndTxn(r)
  /\ Return(r)
  /\ UNCHANGED <<figures, profile, seen, answer, server, since, faults>>

-----------------------------------------------------------------------------
(* Failures.                                                               *)

\* No connection within 2 s, or a query outside a transaction fails.
GiveUp(r) ==
  /\ \E waiting \in {"arrived", "looking", "queueing"} : Goto(r, waiting, "failed")
  /\ Fault
  /\ UNCHANGED <<databaseVars, snapshot, profile, on, seen, answer, server, since>>

\* A query of the analytics fails.  A ROLLBACK that fails too is ignored, and
\* the connection goes back to the pool as it is.
AnalyticsFail(r) ==
  /\ Goto(r, "comparing", "failed")
  /\ \/ Return(r)
     \/ /\ RollbackMayFail
        /\ on' = [on EXCEPT ![r] = NoConnection]
        /\ UNCHANGED snapshot
  /\ Fault
  /\ UNCHANGED <<databaseVars, profile, seen, answer, server, since>>

\* A query of the generation fails: the lock was not granted within 35 s, ...
QueryFails(r) ==
  /\ \E query \in {"waiting", "locked", "saving", "committing"} : Goto(r, query, "failing")
  /\ Fault
  /\ UNCHANGED <<databaseVars, snapshot, profile, on, seen, answer, server, since>>

\* ROLLBACK fails, or the process dies.  The connection is closed and the pool
\* opens another one; the server finds out later (ServerSettles).
Abandon(r) ==
  /\ \E held \in Connected \ {"comparing"} : Goto(r, held, "failed")
  /\ Return(r)
  /\ Fault
  /\ UNCHANGED <<databaseVars, profile, seen, answer, server, since>>

\* The server ends the transaction of a connection that was closed.
ServerSettles(r) ==
  /\ phase[r] = "failed"
  /\ writer = r \/ \E p \in Profiles : lockedBy[p] = r
  /\ MayHaveCommitted(r)
  /\ EndTxn(r)
  /\ UNCHANGED <<figures, snapshot, profile, requestVars, server, since, faults>>

-----------------------------------------------------------------------------
RequestStep(r) ==
  \/ ReadCurrent(r)
  \/ ReadPrevious(r)
  \/ FindMonthlyInsights(r)
  \/ BeginGeneration(r)
  \/ LookAgain(r)
  \/ Generate(r)
  \/ SaveMonthlyInsights(r)
  \/ Commit(r)
  \/ Rollback(r)
  \/ ServerSettles(r)

Failure(r) == GiveUp(r) \/ AnalyticsFail(r) \/ QueryFails(r) \/ Abandon(r)

Next ==
  \/ CompleteStatement
  \/ \E r \in Requests : Arrive(r) \/ RequestStep(r) \/ AcquireLock(r) \/ Failure(r)

Spec == Init /\ [][Next]_vars

\* The event loop runs every handler, the database answers, a call of Bedrock
\* ends within 30 s.  The pool serves its waiters in turn, and PostgreSQL the
\* waiters of a lock, so nobody is overtaken for ever: strong fairness.
Fairness ==
  \A r \in Requests :
    /\ SF_vars(RequestStep(r))
    /\ SF_vars(AcquireLock(r))

FairSpec == Spec /\ Fairness

-----------------------------------------------------------------------------
(* Properties.                                                             *)

\* No connection is lost to the pool and none is used by two requests: every
\* way out of findMonthlyAnalytics and of the generation returns it, once.
ConnectionsAreReturned ==
  /\ \A r \in Requests : on[r] # NoConnection <=> phase[r] \in Connected
  /\ \A r, q \in Requests : on[r] = on[q] /\ r # q => on[r] = NoConnection

\* Nobody pays for insights that are there: while a request generates for some
\* figures, the cache does not have them (plans/phase-11.md, "同時cache miss").
GenerationIsNeeded ==
  \A r \in Requests :
    phase[r] \in {"generating", "saving", "committing"} => cached # Lookup(r)

\* The insights of an answer are of its process's model and prompt and of
\* figures that were, all at one moment, true after the request arrived,
\* however long it waited and whatever others saved meanwhile.
InsightsAreNotOld ==
  \A r \in Requests : phase[r] = "answered" =>
    /\ answer[r].profile = ProfileOf(r)
    /\ answer[r].current = answer[r].previous
    /\ answer[r].current >= since[r]

\* Every request is answered or fails, without any timeout: who holds the lock
\* needs no second connection.
RequestsEnd ==
  \A r \in Requests : phase[r] = "arrived" ~> phase[r] \in Ended

\* A slow Bedrock does not keep anybody from reading the figures: a request that
\* finds every connection lent does not find all of them with requests that wait
\* for Bedrock, or for the lock of one that does.  (API_DESIGN.md:268; the code
\* does not keep this.)
NumbersStayAvailable ==
  \A r \in Requests : phase[r] = "arrived" /\ Idle(r) = {} =>
    LET holders == {q \in Requests : on[q] # NoConnection /\ server[q] = server[r]}
    IN  \/ \A q \in holders : phase[q] # "generating"
        \/ \E q \in holders : phase[q] \notin {"waiting", "generating"}
=============================================================================
