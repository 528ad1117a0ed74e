------------------------ MODULE MonthlyInsightsProofs ------------------------
(***************************************************************************)
(* Why MonthlyInsights gives out neither old insights nor the same ones    *)
(* twice, for any number of requests, processes and configurations.        *)
(*                                                                         *)
(* What the pool lends and what the lock excludes holds whatever fails.    *)
(* That a request reads the present, and so the rest, needs that no        *)
(* connection goes back to the pool with its transaction still open, that  *)
(* is ~RollbackMayFail: with it the run LeakedTransaction shows an answer  *)
(* that is too old.                                                        *)
(***************************************************************************)
EXTENDS MonthlyInsights, TLAPS

-----------------------------------------------------------------------------
(* The invariant.                                                          *)

\* The phases of a transaction that has got the advisory lock.
Exclusive == {"locked", "generating", "saving", "committing"}

\* A request between the lock and its answer has the lock of its profile, and so
\* has the one whose upsert waits for its COMMIT, also when that one is gone.
LockIsHeld ==
  /\ \A r \in Requests : phase[r] \in Exclusive => lockedBy[ProfileOf(r)] = r
  /\ writer # NoRequest =>
       /\ lockedBy[ProfileOf(writer)] = writer
       /\ phase[writer] \in {"committing", "failing", "failed"}

\* A transaction with a snapshot is the one of a request that compares.
SnapshotsEnd ==
  \A c \in Connections : snapshot[c] # NoSnapshot =>
    \E r \in Requests : on[r] = c /\ phase[r] = "comparing"

\* The figures a request has read were true after it arrived, and from the
\* second aggregate on both are of one moment.
ReadsAreConsistent ==
  \A r \in Requests :
    /\ since[r] <= figures
    /\ phase[r] = "comparing" =>
         /\ since[r] <= seen[r].current
         /\ snapshot[on[r]] # NoSnapshot
         /\ snapshot[on[r]].figures = seen[r].current
    /\ phase[r] \notin {"idle", "arrived", "comparing", "failed"} =>
         /\ since[r] <= seen[r].current
         /\ seen[r].current = seen[r].previous
    /\ phase[r] = "answered" => answer[r] = Lookup(r)

-----------------------------------------------------------------------------
(* Types.                                                                  *)

\* A connection the pool lends is one of its own that nobody has.
LEMMA IdleIsFree ==
  ASSUME TypeOK, NEW r \in Requests, NEW c \in Idle(r)
  PROVE  c \in Connections /\ c # NoConnection /\ \A q \in Requests : on[q] # c
BY NothingAssumption DEF Idle, Connections, TypeOK

\* A statement sees figures and a row of the right kind.
LEMMA ViewType ==
  ASSUME TypeOK, NEW c \in Connections
  PROVE  View(c) \in Snapshots
BY DEF View, TypeOK, Snapshots

\* What a request looks up is a document of insights.
LEMMA LookupType ==
  ASSUME TypeOK, NEW r \in Requests
  PROVE  Lookup(r) \in Insights /\ ProfileOf(r) \in Profiles
BY DEF TypeOK, Lookup, ProfileOf, Insights

\* A connection that goes back leaves the types of both sides alone.
LEMMA ReturnType ==
  ASSUME TypeOK, NEW r \in Requests, Return(r)
  PROVE  /\ on' \in [Requests -> Connections \union {NoConnection}]
         /\ snapshot' \in [Connections -> Snapshots \union {NoSnapshot}]
BY DEF Return, TypeOK

\* So does the end of a transaction.
LEMMA EndTxnType ==
  ASSUME TypeOK, NEW r \in Requests, EndTxn(r)
  PROVE  /\ lockedBy' \in [Profiles -> Requests \union {NoRequest}]
         /\ writer' \in Requests \union {NoRequest}
BY DEF EndTxn, TypeOK

\* The invariant of the types and of the pool: a connection is lent to one
\* request at most, exactly while the request needs it.
PoolInv == TypeOK /\ ConnectionsAreReturned

\* A request has a connection while it is connected.
LEMMA ConnectedHasConnection ==
  ASSUME PoolInv, NEW r \in Requests, phase[r] \in Connected
  PROVE  on[r] \in Connections
BY DEF PoolInv, ConnectionsAreReturned, TypeOK

\* Types are kept by every step.
LEMMA NextType == ASSUME PoolInv, [Next]_vars PROVE TypeOK'
<1> USE DEF PoolInv, TypeOK, Goto, Fault, databaseVars, requestVars, Connected, Ended, Phases
<1> USE InsightsAssumption, NothingAssumption
<1>1. CASE UNCHANGED vars
  BY <1>1 DEF vars
<1>2. CASE CompleteStatement
  BY <1>2 DEF CompleteStatement, Versions
<1>3. ASSUME NEW r \in Requests, Arrive(r) PROVE TypeOK'
  BY <1>3 DEF Arrive
<1>4. ASSUME NEW r \in Requests, ReadCurrent(r) PROVE TypeOK'
  <2>1. PICK c \in Connections :
          /\ Borrow(r, c)
          /\ snapshot' = [snapshot EXCEPT ![c] = View(c)]
          /\ seen' = [seen EXCEPT ![r].current = View(c).figures]
    BY <1>4 DEF ReadCurrent
  <2>2. View(c) \in Snapshots /\ View(c).figures \in Versions
    BY ViewType DEF Snapshots
  <2>3. seen' \in [Requests -> [current: Versions, previous: Versions]]
    BY <2>1, <2>2
  <2> QED BY <1>4, <2>1, <2>2, <2>3 DEF ReadCurrent, Borrow
<1>5. ASSUME NEW r \in Requests, ReadPrevious(r) PROVE TypeOK'
  <2>1. View(on[r]).figures \in Versions
    BY <1>5, ConnectedHasConnection, ViewType DEF ReadPrevious, Snapshots
  <2>2. seen' \in [Requests -> [current: Versions, previous: Versions]]
    BY <1>5, <2>1 DEF ReadPrevious
  <2> QED BY <1>5, <2>2, ReturnType DEF ReadPrevious
<1>6. ASSUME NEW r \in Requests, FindMonthlyInsights(r) PROVE TypeOK'
  <2>1. CASE phase'[r] = "answered"
    <3>1. phase' = [phase EXCEPT ![r] = "answered"]
          /\ answer' = [answer EXCEPT ![r] = Lookup(r)]
      BY <1>6, <2>1 DEF FindMonthlyInsights, Matches, Answer
    <3>2. answer' \in [Requests -> Insights \union {NoInsights}]
      BY <3>1, LookupType
    <3>3. \A q \in Requests : answer'[q] \in Insights <=> phase'[q] = "answered"
      BY <3>1, LookupType
    <3> QED BY <1>6, <3>1, <3>2, <3>3 DEF FindMonthlyInsights
  <2>2. CASE phase'[r] # "answered"
    BY <1>6, <2>2 DEF FindMonthlyInsights
  <2> QED BY <2>1, <2>2
<1>7. ASSUME NEW r \in Requests, BeginGeneration(r) PROVE TypeOK'
  BY <1>7 DEF BeginGeneration, Borrow
<1>8. ASSUME NEW r \in Requests, AcquireLock(r) PROVE TypeOK'
  BY <1>8 DEF AcquireLock
<1>9. ASSUME NEW r \in Requests, LookAgain(r) PROVE TypeOK'
  <2>1. CASE phase'[r] = "answered"
    <3>1. phase' = [phase EXCEPT ![r] = "answered"] /\ phase[r] = "locked"
      BY <1>9, <2>1 DEF LookAgain
    <3>2. answer' = [answer EXCEPT ![r] = Lookup(r)] /\ EndTxn(r) /\ Return(r)
      BY <1>9, <3>1 DEF LookAgain, Matches, Answer
    <3>3. answer' \in [Requests -> Insights \union {NoInsights}]
      BY <3>2, LookupType
    <3>4. \A q \in Requests : answer'[q] \in Insights <=> phase'[q] = "answered"
      BY <3>1, <3>2, LookupType
    <3> QED BY <1>9, <3>1, <3>2, <3>3, <3>4, EndTxnType, ReturnType DEF LookAgain
  <2>2. CASE phase'[r] # "answered"
    BY <1>9, <2>2 DEF LookAgain
  <2> QED BY <2>1, <2>2
<1>10. ASSUME NEW r \in Requests, Generate(r) PROVE TypeOK'
  BY <1>10 DEF Generate
<1>11. ASSUME NEW r \in Requests, SaveMonthlyInsights(r) PROVE TypeOK'
  BY <1>11 DEF SaveMonthlyInsights
<1>12. ASSUME NEW r \in Requests, Commit(r) PROVE TypeOK'
  BY <1>12, LookupType, EndTxnType, ReturnType DEF Commit, Answer
<1>13. ASSUME NEW r \in Requests, Rollback(r) PROVE TypeOK'
  BY <1>13, LookupType, EndTxnType, ReturnType DEF Rollback, MayHaveCommitted
<1>14. ASSUME NEW r \in Requests, ServerSettles(r) PROVE TypeOK'
  BY <1>14, LookupType, EndTxnType DEF ServerSettles, MayHaveCommitted
<1>15. ASSUME NEW r \in Requests, Failure(r) PROVE TypeOK'
  <2>1. CASE GiveUp(r) \/ QueryFails(r)
    BY <2>1 DEF GiveUp, QueryFails
  <2>2. CASE AnalyticsFail(r)
    <3>1. /\ on' \in [Requests -> Connections \union {NoConnection}]
          /\ snapshot' \in [Connections -> Snapshots \union {NoSnapshot}]
      BY <2>2, ReturnType DEF AnalyticsFail
    <3>2. /\ phase[r] = "comparing" /\ phase' = [phase EXCEPT ![r] = "failed"]
          /\ faults < MaxFaults /\ faults' = faults + 1
          /\ UNCHANGED <<databaseVars, profile, seen, answer, server, since>>
      BY <2>2 DEF AnalyticsFail
    <3> QED BY <3>1, <3>2
  <2>3. CASE Abandon(r)
    BY <2>3, ReturnType DEF Abandon
  <2> QED BY <1>15, <2>1, <2>2, <2>3 DEF Failure
<1> QED BY <1>1, <1>2, <1>3, <1>4, <1>5, <1>6, <1>7, <1>8, <1>9, <1>10, <1>11, <1>12,
           <1>13, <1>14, <1>15 DEF Next, RequestStep

-----------------------------------------------------------------------------
(* The pool.                                                               *)

\* A step is that of one request: it moves the request and the connection of no
\* other one.
LEMMA OthersWait ==
  ASSUME TypeOK, NEW r \in Requests,
         Arrive(r) \/ RequestStep(r) \/ AcquireLock(r) \/ Failure(r),
         NEW q \in Requests \ {r}
  PROVE  /\ phase'[q] = phase[q] /\ on'[q] = on[q] /\ since'[q] = since[q]
         /\ seen'[q] = seen[q] /\ answer'[q] = answer[q]
<1> USE DEF TypeOK, Goto, Fault, requestVars, Return, Borrow, Answer
<1>1. CASE Arrive(r) \/ AcquireLock(r)
  BY <1>1 DEF Arrive, AcquireLock
<1>2. CASE ReadCurrent(r) \/ ReadPrevious(r) \/ FindMonthlyInsights(r) \/ BeginGeneration(r)
  BY <1>2 DEF ReadCurrent, ReadPrevious, FindMonthlyInsights, BeginGeneration
<1>3. CASE LookAgain(r) \/ Generate(r) \/ SaveMonthlyInsights(r)
  BY <1>3 DEF LookAgain, Generate, SaveMonthlyInsights
<1>4. CASE Commit(r) \/ Rollback(r) \/ ServerSettles(r)
  BY <1>4 DEF Commit, Rollback, ServerSettles
<1>5. CASE Failure(r)
  BY <1>5 DEF Failure, GiveUp, AnalyticsFail, QueryFails, Abandon
<1> QED BY <1>1, <1>2, <1>3, <1>4, <1>5 DEF RequestStep

\* What a step does to its own request's connection: it borrows one nobody has,
\* returns it, or keeps what it has, as its phases want it.
LEMMA OwnConnection ==
  ASSUME PoolInv, NEW r \in Requests,
         Arrive(r) \/ RequestStep(r) \/ AcquireLock(r) \/ Failure(r)
  PROVE  /\ on'[r] # NoConnection <=> phase'[r] \in Connected
         /\ on'[r] \in {on[r], NoConnection} \/ \A q \in Requests : on[q] # on'[r]
<1> DEFINE Goal ==
      /\ on'[r] # NoConnection <=> phase'[r] \in Connected
      /\ on'[r] \in {on[r], NoConnection} \/ \A q \in Requests : on[q] # on'[r]
<1> USE DEF PoolInv, ConnectionsAreReturned, TypeOK, Goto, Fault, requestVars, Connected
<1>1. CASE Arrive(r) \/ AcquireLock(r)
  BY <1>1 DEF Arrive, AcquireLock
<1>2. CASE ReadCurrent(r) \/ BeginGeneration(r)
  <2>1. PICK c \in Connections : Borrow(r, c)
    BY <1>2 DEF ReadCurrent, BeginGeneration
  <2>2. c # NoConnection /\ \A q \in Requests : on[q] # c
    BY <2>1, IdleIsFree DEF Borrow
  <2>3. on'[r] = c /\ phase'[r] \in Connected
    BY <1>2, <2>1 DEF Borrow, ReadCurrent, BeginGeneration
  <2> QED BY <2>2, <2>3
<1>3. CASE ReadPrevious(r) \/ FindMonthlyInsights(r)
  BY <1>3 DEF ReadPrevious, FindMonthlyInsights, Return
<1>4. CASE LookAgain(r) \/ Generate(r) \/ SaveMonthlyInsights(r)
  BY <1>4 DEF LookAgain, Generate, SaveMonthlyInsights, Return
<1>5. CASE Commit(r) \/ Rollback(r) \/ ServerSettles(r)
  BY <1>5 DEF Commit, Rollback, ServerSettles, Return
<1>6. CASE GiveUp(r) \/ QueryFails(r)
  BY <1>6 DEF GiveUp, QueryFails
<1>7. CASE AnalyticsFail(r) \/ Abandon(r)
  BY <1>7 DEF AnalyticsFail, Abandon, Return
<1> QED BY <1>1, <1>2, <1>3, <1>4, <1>5, <1>6, <1>7 DEF RequestStep, Failure

\* Every way out returns the connection, once.
LEMMA NextConnections == ASSUME PoolInv, [Next]_vars PROVE ConnectionsAreReturned'
<1>1. CASE UNCHANGED requestVars
  BY <1>1 DEF PoolInv, ConnectionsAreReturned, requestVars
<1>2. ASSUME NEW r \in Requests,
             Arrive(r) \/ RequestStep(r) \/ AcquireLock(r) \/ Failure(r)
      PROVE  ConnectionsAreReturned'
  <2>1. \A q \in Requests \ {r} : phase'[q] = phase[q] /\ on'[q] = on[q]
    BY <1>2, OthersWait DEF PoolInv
  <2>2. /\ on'[r] # NoConnection <=> phase'[r] \in Connected
        /\ on'[r] \in {on[r], NoConnection} \/ \A q \in Requests : on[q] # on'[r]
    BY <1>2, OwnConnection
  <2> QED BY <2>1, <2>2 DEF PoolInv, ConnectionsAreReturned
<1> QED BY <1>1, <1>2 DEF Next, vars, CompleteStatement

-----------------------------------------------------------------------------
(* The lock.                                                               *)

\* What a step of r does to the locks: it ends its transaction, takes the lock
\* that is free, or leaves them alone; and it enters the phases after the lock,
\* and writes, only with it.
LEMMA OwnLock ==
  ASSUME TypeOK, NEW r \in Requests,
         Arrive(r) \/ RequestStep(r) \/ AcquireLock(r) \/ Failure(r)
  PROVE  \/ EndTxn(r) /\ phase'[r] \in Ended
         \/ /\ lockedBy[ProfileOf(r)] = NoRequest /\ UNCHANGED writer
            /\ lockedBy' = [lockedBy EXCEPT ![ProfileOf(r)] = r]
            /\ phase[r] = "waiting" /\ phase'[r] = "locked"
         \/ /\ UNCHANGED <<lockedBy, writer>>
            /\ phase'[r] \in Exclusive => phase[r] \in Exclusive
            /\ phase[r] \in {"committing", "failing", "failed"} =>
                 phase'[r] \in {"committing", "failing", "failed"}
         \/ /\ UNCHANGED lockedBy /\ writer' = r
            /\ phase[r] = "saving" /\ phase'[r] = "committing"
<1> USE DEF TypeOK, Goto, requestVars, databaseVars, Exclusive, Ended
<1>1. CASE Arrive(r) \/ AcquireLock(r)
  BY <1>1 DEF Arrive, AcquireLock
<1>2. CASE ReadCurrent(r) \/ ReadPrevious(r) \/ FindMonthlyInsights(r) \/ BeginGeneration(r)
  BY <1>2 DEF ReadCurrent, ReadPrevious, FindMonthlyInsights, BeginGeneration
<1>3. CASE LookAgain(r) \/ Generate(r) \/ SaveMonthlyInsights(r)
  BY <1>3 DEF LookAgain, Generate, SaveMonthlyInsights
<1>4. CASE Commit(r) \/ Rollback(r) \/ ServerSettles(r)
  BY <1>4 DEF Commit, Rollback, ServerSettles
<1>5. CASE Failure(r)
  BY <1>5 DEF Failure, GiveUp, AnalyticsFail, QueryFails, Abandon, Connected
<1> QED BY <1>1, <1>2, <1>3, <1>4, <1>5 DEF RequestStep

\* The configuration of a process does not change while it runs.
LEMMA SameProfiles ==
  ASSUME [Next]_vars
  PROVE  UNCHANGED <<profile, server>>
BY DEF Next, vars, CompleteStatement, Arrive, AcquireLock, RequestStep, ReadCurrent,
   ReadPrevious, FindMonthlyInsights, BeginGeneration, LookAgain, Generate,
   SaveMonthlyInsights, Commit, Rollback, ServerSettles, Failure, GiveUp, AnalyticsFail,
   QueryFails, Abandon

\* LockIsHeld is inductive.
LEMMA NextLock == ASSUME PoolInv, LockIsHeld, [Next]_vars PROVE LockIsHeld'
<1>1. CASE UNCHANGED <<phase, lockedBy, writer>>
  BY <1>1, SameProfiles DEF LockIsHeld, ProfileOf
<1>2. ASSUME NEW r \in Requests,
             Arrive(r) \/ RequestStep(r) \/ AcquireLock(r) \/ Failure(r)
      PROVE  LockIsHeld'
  <2> USE InsightsAssumption
  <2> USE DEF PoolInv, TypeOK, LockIsHeld
  <2>1. \A q \in Requests \ {r} : phase'[q] = phase[q]
    BY <1>2, OthersWait
  <2>2. \A q \in Requests : ProfileOf(q)' = ProfileOf(q) /\ ProfileOf(q) \in Profiles
    BY SameProfiles, LookupType DEF ProfileOf
  <2>3. CASE EndTxn(r) /\ phase'[r] \in Ended
    BY <2>1, <2>2, <2>3 DEF EndTxn, Ended, Exclusive
  <2>4. CASE /\ lockedBy[ProfileOf(r)] = NoRequest /\ UNCHANGED writer
             /\ lockedBy' = [lockedBy EXCEPT ![ProfileOf(r)] = r]
             /\ phase[r] = "waiting" /\ phase'[r] = "locked"
    BY <2>1, <2>2, <2>4
  <2>5. CASE /\ UNCHANGED <<lockedBy, writer>>
             /\ phase'[r] \in Exclusive => phase[r] \in Exclusive
             /\ phase[r] \in {"committing", "failing", "failed"} =>
                  phase'[r] \in {"committing", "failing", "failed"}
    BY <2>1, <2>2, <2>5
  <2>6. CASE /\ UNCHANGED lockedBy /\ writer' = r
             /\ phase[r] = "saving" /\ phase'[r] = "committing"
    BY <2>1, <2>2, <2>6 DEF Exclusive
  <2> QED BY <1>2, <2>3, <2>4, <2>5, <2>6, OwnLock
<1> QED BY <1>1, <1>2 DEF Next, vars, CompleteStatement, databaseVars, requestVars

-----------------------------------------------------------------------------
(* What requests see.                                                      *)

\* Without a failing ROLLBACK whoever leaves "comparing" ends its snapshot.
LEMMA NextSnapshotsEnd ==
  ASSUME ~RollbackMayFail, PoolInv, SnapshotsEnd, [Next]_vars
  PROVE  SnapshotsEnd'
<1> USE DEF PoolInv, TypeOK, SnapshotsEnd, Goto, requestVars
<1>1. CASE UNCHANGED <<snapshot, requestVars>>
  BY <1>1
<1>2. ASSUME NEW r \in Requests, ReadCurrent(r) PROVE SnapshotsEnd'
  <2>1. PICK c \in Connections :
          Borrow(r, c) /\ snapshot' = [snapshot EXCEPT ![c] = View(c)]
    BY <1>2 DEF ReadCurrent
  <2>2. on'[r] = c /\ phase'[r] = "comparing" /\ phase[r] = "arrived"
    BY <1>2, <2>1 DEF Borrow, ReadCurrent
  <2> QED BY <1>2, <2>1, <2>2, OthersWait DEF RequestStep
<1>3. ASSUME NEW r \in Requests, Return(r), phase'[r] \notin {"comparing"},
             \A q \in Requests \ {r} : phase'[q] = phase[q] /\ on'[q] = on[q]
      PROVE  SnapshotsEnd'
  BY <1>3 DEF Return
<1>4. ASSUME NEW r \in Requests, UNCHANGED snapshot,
             phase[r] # "comparing" \/ (phase'[r] = "comparing" /\ on'[r] = on[r]),
             \A q \in Requests \ {r} : phase'[q] = phase[q] /\ on'[q] = on[q]
      PROVE  SnapshotsEnd'
  BY <1>4
<1>5. ASSUME NEW r \in Requests,
             Arrive(r) \/ RequestStep(r) \/ AcquireLock(r) \/ Failure(r)
      PROVE  SnapshotsEnd'
  <2>1. \A q \in Requests \ {r} : phase'[q] = phase[q] /\ on'[q] = on[q]
    BY <1>5, OthersWait
  <2>2. CASE ReadPrevious(r) \/ Commit(r) \/ Rollback(r) \/ Abandon(r)
    BY <1>3, <2>1, <2>2 DEF ReadPrevious, Commit, Rollback, Abandon
  <2>3. CASE LookAgain(r)
    BY <1>3, <1>4, <2>1, <2>3 DEF LookAgain
  <2>4. CASE AnalyticsFail(r)
    BY <1>3, <2>1, <2>4 DEF AnalyticsFail
  <2>5. CASE FindMonthlyInsights(r) \/ BeginGeneration(r) \/ AcquireLock(r) \/ Arrive(r)
    BY <1>4, <2>1, <2>5 DEF FindMonthlyInsights, BeginGeneration, AcquireLock, Arrive
  <2>6. CASE Generate(r) \/ SaveMonthlyInsights(r) \/ GiveUp(r) \/ QueryFails(r)
    BY <1>4, <2>1, <2>6 DEF Generate, SaveMonthlyInsights, GiveUp, QueryFails
  <2>7. CASE ServerSettles(r)
    BY <1>1, <2>7 DEF ServerSettles
  <2> QED BY <1>2, <1>5, <2>2, <2>3, <2>4, <2>5, <2>6, <2>7 DEF RequestStep, Failure
<1> QED BY <1>1, <1>5 DEF Next, vars, CompleteStatement

\* A connection that nobody compares on sees the present.
LEMMA SeesPresent ==
  ASSUME PoolInv, SnapshotsEnd, NEW c \in Connections,
         \A q \in Requests : on[q] = c => phase[q] # "comparing"
  PROVE  View(c) = [figures |-> figures, cached |-> cached]
BY DEF SnapshotsEnd, View

\* So does the connection of a transaction under the lock, and one that is idle.
LEMMA LockedSeesPresent ==
  ASSUME PoolInv, SnapshotsEnd, NEW r \in Requests, phase[r] \in Connected \ {"comparing"}
  PROVE  View(on[r]) = [figures |-> figures, cached |-> cached]
<1>1. on[r] \in Connections
  BY ConnectedHasConnection
<1>2. \A q \in Requests : on[q] = on[r] => phase[q] # "comparing"
  BY <1>1, NothingAssumption DEF PoolInv, ConnectionsAreReturned
<1> QED BY <1>1, <1>2, SeesPresent

\* The transaction that compares keeps its snapshot.
LEMMA ReadsCurrentFigures ==
  ASSUME PoolInv, SnapshotsEnd, ReadsAreConsistent, NEW r \in Requests, ReadCurrent(r)
  PROVE  /\ since'[r] <= seen'[r].current
         /\ snapshot'[on'[r]] # NoSnapshot
         /\ snapshot'[on'[r]].figures = seen'[r].current
<1> USE DEF PoolInv, TypeOK
<1>1. PICK c \in Connections :
        /\ Borrow(r, c)
        /\ snapshot' = [snapshot EXCEPT ![c] = View(c)]
        /\ seen' = [seen EXCEPT ![r].current = View(c).figures]
  BY DEF ReadCurrent
<1>2. View(c) = [figures |-> figures, cached |-> cached] /\ View(c) \in Snapshots
  BY <1>1, IdleIsFree, SeesPresent, ViewType DEF Borrow
<1>3. on'[r] = c /\ since'[r] = since[r] /\ since[r] <= figures
  BY <1>1 DEF Borrow, ReadCurrent, ReadsAreConsistent
<1>4. snapshot'[c] = View(c) /\ seen'[r].current = figures /\ View(c) # NoSnapshot
  BY <1>1, <1>2, NothingAssumption
<1> QED BY <1>2, <1>3, <1>4

\* Another request's step leaves the snapshot alone that r compares on.
LEMMA SnapshotIsKept ==
  ASSUME PoolInv, NEW r \in Requests,
         Arrive(r) \/ RequestStep(r) \/ AcquireLock(r) \/ Failure(r),
         NEW q \in Requests \ {r}, phase[q] = "comparing"
  PROVE  snapshot'[on[q]] = snapshot[on[q]]
<1> USE DEF PoolInv, TypeOK
<1>1. on[q] \in Connections /\ on[q] # on[r]
  BY ConnectedHasConnection, NothingAssumption DEF ConnectionsAreReturned, Connected
<1>2. CASE ReadCurrent(r)
  <2>1. PICK c \in Connections :
          Borrow(r, c) /\ snapshot' = [snapshot EXCEPT ![c] = View(c)]
    BY <1>2 DEF ReadCurrent
  <2>2. on[q] # c
    BY <2>1, IdleIsFree DEF Borrow
  <2> QED BY <1>1, <2>1, <2>2
<1>3. CASE Return(r) \/ UNCHANGED snapshot
  BY <1>1, <1>3 DEF Return
<1> QED BY <1>2, <1>3 DEF RequestStep, Failure, Arrive, AcquireLock, ReadPrevious,
    FindMonthlyInsights, BeginGeneration, LookAgain, Generate, SaveMonthlyInsights, Commit,
    Rollback, ServerSettles, GiveUp, AnalyticsFail, QueryFails, Abandon

\* The part of ReadsAreConsistent that is about r.
ReadsOf(r) ==
  /\ since[r] <= figures
  /\ phase[r] = "comparing" =>
       /\ since[r] <= seen[r].current
       /\ snapshot[on[r]] # NoSnapshot
       /\ snapshot[on[r]].figures = seen[r].current
  /\ phase[r] \notin {"idle", "arrived", "comparing", "failed"} =>
       /\ since[r] <= seen[r].current
       /\ seen[r].current = seen[r].previous
  /\ phase[r] = "answered" => answer[r] = Lookup(r)

\* The figures only grow.
LEMMA FiguresGrow ==
  ASSUME TypeOK, [Next]_vars
  PROVE  figures \in Nat /\ figures' \in Nat /\ figures <= figures'
<1> USE DEF TypeOK, Versions, databaseVars
<1>1. CASE CompleteStatement
  BY <1>1, InsightsAssumption DEF CompleteStatement
<1>2. CASE UNCHANGED figures
  BY <1>2, InsightsAssumption
<1> QED BY <1>1, <1>2 DEF Next, vars, Arrive, AcquireLock, RequestStep, ReadCurrent,
    ReadPrevious, FindMonthlyInsights, BeginGeneration, LookAgain, Generate,
    SaveMonthlyInsights, Commit, Rollback, ServerSettles, Failure, GiveUp, AnalyticsFail,
    QueryFails, Abandon

\* A request's own step keeps what is said of its reads.
LEMMA OwnReads ==
  ASSUME PoolInv, TypeOK', SnapshotsEnd, ReadsAreConsistent, [Next]_vars, NEW r \in Requests,
         Arrive(r) \/ RequestStep(r) \/ AcquireLock(r) \/ Failure(r)
  PROVE  ReadsOf(r)'
<1> USE DEF PoolInv, TypeOK, Goto, requestVars, databaseVars, ReadsOf
<1>1. ReadsOf(r)
  BY DEF ReadsAreConsistent
<1>2. /\ figures <= figures' /\ figures \in Nat /\ figures' \in Nat
      /\ since[r] \in Nat /\ seen[r].current \in Nat
  BY FiguresGrow DEF Versions
<1>3. Lookup(r) = [current |-> seen[r].current, previous |-> seen[r].previous,
                   profile |-> ProfileOf(r)]
      /\ ProfileOf(r)' = ProfileOf(r)
  BY SameProfiles DEF Lookup, ProfileOf
<1>4. CASE Arrive(r)
  BY <1>2, <1>4 DEF Arrive
<1>5. CASE ReadCurrent(r)
  BY <1>1, <1>2, <1>5, ReadsCurrentFigures DEF ReadCurrent
<1>6. CASE ReadPrevious(r)
  <2>1. on[r] \in Connections
    BY <1>6, ConnectedHasConnection DEF ReadPrevious, Connected
  <2>2. View(on[r]).figures = seen[r].current
    BY <1>1, <1>6, <2>1 DEF ReadPrevious, View
  <2> QED BY <1>1, <1>2, <1>6, <2>2 DEF ReadPrevious
<1>7. CASE FindMonthlyInsights(r)
  BY <1>1, <1>2, <1>3, <1>7 DEF FindMonthlyInsights, Matches, Answer, Lookup
<1>8. CASE BeginGeneration(r) \/ AcquireLock(r)
  BY <1>1, <1>2, <1>8 DEF BeginGeneration, AcquireLock
<1>9. CASE LookAgain(r)
  BY <1>1, <1>2, <1>3, <1>9 DEF LookAgain, Matches, Answer, Lookup
<1>10. CASE Generate(r) \/ SaveMonthlyInsights(r)
  BY <1>1, <1>2, <1>10 DEF Generate, SaveMonthlyInsights
<1>11. CASE Commit(r)
  BY <1>1, <1>2, <1>3, <1>11 DEF Commit, Answer, Lookup
<1>12. CASE Rollback(r) \/ ServerSettles(r)
  BY <1>1, <1>2, <1>12 DEF Rollback, ServerSettles
<1>13. CASE Failure(r)
  BY <1>1, <1>2, <1>13 DEF Failure, GiveUp, AnalyticsFail, QueryFails, Abandon
<1> QED BY <1>4, <1>5, <1>6, <1>7, <1>8, <1>9, <1>10, <1>11, <1>12, <1>13 DEF RequestStep

\* A step that moves neither r nor the snapshot it compares on keeps it, too.
LEMMA OthersReads ==
  ASSUME TypeOK, ReadsAreConsistent, [Next]_vars, NEW r \in Requests,
         phase'[r] = phase[r], on'[r] = on[r], since'[r] = since[r], seen'[r] = seen[r],
         answer'[r] = answer[r],
         phase[r] = "comparing" => snapshot'[on[r]] = snapshot[on[r]]
  PROVE  ReadsOf(r)'
<1>1. since[r] \in Nat
  BY DEF TypeOK, Versions
<1>2. since'[r] <= figures'
  BY <1>1, FiguresGrow DEF ReadsAreConsistent
<1>3. Lookup(r)' = Lookup(r)
  BY SameProfiles DEF Lookup, ProfileOf
<1> QED BY <1>2, <1>3 DEF ReadsAreConsistent, ReadsOf

\* ReadsAreConsistent is inductive.
LEMMA NextReads ==
  ASSUME PoolInv, TypeOK', SnapshotsEnd, ReadsAreConsistent, [Next]_vars
  PROVE  ReadsAreConsistent'
<1>1. SUFFICES ASSUME NEW q \in Requests PROVE ReadsOf(q)'
  BY DEF ReadsOf, ReadsAreConsistent
<1>2. CASE UNCHANGED <<snapshot, requestVars, since>>
  BY <1>2, OthersReads DEF requestVars, PoolInv
<1>3. ASSUME NEW r \in Requests,
             Arrive(r) \/ RequestStep(r) \/ AcquireLock(r) \/ Failure(r)
      PROVE  ReadsOf(q)'
  <2>1. CASE q = r
    BY <1>3, <2>1, OwnReads
  <2>2. CASE q # r
    BY <1>3, <2>2, OthersWait, SnapshotIsKept, OthersReads DEF PoolInv
  <2> QED BY <2>1, <2>2
<1> QED BY <1>2, <1>3 DEF Next, vars, CompleteStatement

-----------------------------------------------------------------------------
(* Generating only what is not there.                                      *)

\* The row changes by the COMMIT of a transaction under the lock of its profile.
LEMMA NextRow ==
  ASSUME PoolInv, LockIsHeld, [Next]_vars, cached' # cached
  PROVE  \E q \in Requests :
           /\ cached' = Lookup(q)
           /\ lockedBy[ProfileOf(q)] = q
           /\ phase'[q] \in Ended
           /\ \A r \in Requests \ {q} : phase'[r] = phase[r] /\ seen'[r] = seen[r]
<1> USE DEF databaseVars, Goto, PoolInv, TypeOK, Ended
<1>1. CASE UNCHANGED vars \/ CompleteStatement
  BY <1>1 DEF vars, CompleteStatement
<1>2. ASSUME NEW q \in Requests,
             Arrive(q) \/ RequestStep(q) \/ AcquireLock(q) \/ Failure(q)
      PROVE  /\ cached' = Lookup(q) /\ lockedBy[ProfileOf(q)] = q /\ phase'[q] \in Ended
             /\ \A r \in Requests \ {q} : phase'[r] = phase[r] /\ seen'[r] = seen[r]
  <2>1. Commit(q) \/ Rollback(q) \/ ServerSettles(q)
    BY <1>2 DEF Arrive, AcquireLock, RequestStep, ReadCurrent,
    ReadPrevious, FindMonthlyInsights, BeginGeneration, LookAgain, Generate,
    SaveMonthlyInsights, Failure, GiveUp, AnalyticsFail, QueryFails, Abandon
  <2>2. cached' = Lookup(q) /\ (writer = q \/ phase[q] = "committing")
    BY <2>1 DEF Commit, Rollback, ServerSettles, MayHaveCommitted
  <2>3. lockedBy[ProfileOf(q)] = q
    BY <2>2, InsightsAssumption DEF LockIsHeld, Exclusive
  <2>4. phase'[q] \in Ended
    BY <2>1 DEF Commit, Rollback, ServerSettles, requestVars
  <2> QED BY <1>2, <2>2, <2>3, <2>4, OthersWait
<1> QED BY <1>1, <1>2 DEF Next

\* A request that is, or begins, to generate has the lock of its profile, and its
\* figures are not in the cache.
LEMMA NextGenerationIsNeeded ==
  ASSUME PoolInv, LockIsHeld, SnapshotsEnd, GenerationIsNeeded, [Next]_vars
  PROVE  GenerationIsNeeded'
<1> USE DEF PoolInv, TypeOK
<1> DEFINE Paying == {"generating", "saving", "committing"}
<1> SUFFICES ASSUME NEW r \in Requests, phase'[r] \in Paying PROVE cached' # Lookup(r)'
  BY DEF GenerationIsNeeded
<1>1. /\ cached # Lookup(r) /\ Lookup(r)' = Lookup(r)
      /\ phase[r] \in Exclusive
  <2>1. CASE phase'[r] = phase[r] /\ seen'[r] = seen[r]
    BY <2>1, SameProfiles DEF GenerationIsNeeded, Lookup, ProfileOf, Exclusive
  <2>2. CASE Arrive(r) \/ RequestStep(r) \/ AcquireLock(r) \/ Failure(r)
    <3>1. LookAgain(r) \/ Generate(r) \/ SaveMonthlyInsights(r)
      BY <2>2 DEF Arrive, AcquireLock, RequestStep, ReadCurrent, ReadPrevious,
      FindMonthlyInsights, BeginGeneration, Commit, Rollback, ServerSettles, Failure,
      GiveUp, AnalyticsFail, QueryFails, Abandon, Goto, requestVars
    <3>2. seen' = seen
      BY <3>1 DEF LookAgain, Generate, SaveMonthlyInsights
    <3>3. Lookup(r)' = Lookup(r)
      BY <3>2, SameProfiles DEF Lookup, ProfileOf
    <3>4. CASE LookAgain(r)
      BY <3>3, <3>4, LockedSeesPresent DEF LookAgain, Matches, Goto, Exclusive, Connected
    <3>5. CASE Generate(r) \/ SaveMonthlyInsights(r)
      BY <3>3, <3>5 DEF Generate, SaveMonthlyInsights, Goto, GenerationIsNeeded, Exclusive
    <3> QED BY <3>1, <3>4, <3>5
  <2>3. ASSUME NEW q \in Requests \ {r},
               Arrive(q) \/ RequestStep(q) \/ AcquireLock(q) \/ Failure(q)
        PROVE  phase'[r] = phase[r] /\ seen'[r] = seen[r]
    BY <2>3, OthersWait
  <2> QED BY <2>1, <2>2, <2>3 DEF Next, vars, CompleteStatement, requestVars
<1>2. CASE cached' = cached
  BY <1>1, <1>2
<1>3. CASE cached' # cached
  <2>1. PICK q \in Requests :
          /\ cached' = Lookup(q) /\ lockedBy[ProfileOf(q)] = q /\ phase'[q] \in Ended
          /\ \A p \in Requests \ {q} : phase'[p] = phase[p] /\ seen'[p] = seen[p]
    BY <1>3, NextRow
  <2>2. q # r
    BY <2>1 DEF Ended
  <2>3. lockedBy[ProfileOf(r)] = r
    BY <1>1 DEF LockIsHeld
  <2>4. ProfileOf(q) # ProfileOf(r)
    BY <2>1, <2>2, <2>3
  <2>5. Lookup(q) # Lookup(r)
    BY <2>4 DEF Lookup
  <2> QED BY <1>1, <2>1, <2>5
<1> QED BY <1>2, <1>3

-----------------------------------------------------------------------------
(* The theorems.                                                           *)

\* Nobody has arrived at the start.
LEMMA InsightsInit ==
  ASSUME Init
  PROVE  PoolInv /\ LockIsHeld /\ SnapshotsEnd /\ ReadsAreConsistent /\ GenerationIsNeeded
<1> USE InsightsAssumption, NothingAssumption
<1> USE DEF Init
<1>1. PoolInv
  BY DEF PoolInv, TypeOK, ConnectionsAreReturned, Versions, Phases, Connected, Ended
<1>2. LockIsHeld /\ SnapshotsEnd /\ ReadsAreConsistent /\ GenerationIsNeeded
  BY DEF LockIsHeld, Exclusive, SnapshotsEnd, ReadsAreConsistent, GenerationIsNeeded
<1> QED BY <1>1, <1>2

\* Every variable keeps its type, and only an answered request has insights.
THEOREM InsightsTypes == Spec => []TypeOK
<1>1. PoolInv /\ [Next]_vars => PoolInv'
  BY NextType, NextConnections DEF PoolInv
<1>2. PoolInv => TypeOK
  BY DEF PoolInv
<1> QED BY <1>1, <1>2, InsightsInit, PTL DEF Spec

\* No connection is lost to a pool or lent twice, whatever fails: not even where
\* a ROLLBACK fails.
THEOREM PoolIsKept == Spec => []ConnectionsAreReturned
<1>1. PoolInv /\ [Next]_vars => PoolInv'
  BY NextType, NextConnections DEF PoolInv
<1>2. PoolInv => ConnectionsAreReturned
  BY DEF PoolInv
<1> QED BY <1>1, <1>2, InsightsInit, PTL DEF Spec

\* At most one transaction generates for a profile, in whatever process, and what
\* is written and not yet committed is written under the lock.
THEOREM LockExcludes == Spec => []LockIsHeld
<1>1. PoolInv /\ LockIsHeld /\ [Next]_vars => (PoolInv /\ LockIsHeld)'
  BY NextType, NextConnections, NextLock DEF PoolInv
<1> QED BY <1>1, InsightsInit, PTL DEF Spec

\* Where no ROLLBACK fails a generation is never for figures that the cache has.
THEOREM NothingIsPaidTwice ==
  ASSUME ~RollbackMayFail PROVE Spec => []GenerationIsNeeded
<1> DEFINE Inv == PoolInv /\ LockIsHeld /\ SnapshotsEnd /\ GenerationIsNeeded
<1>1. Inv /\ [Next]_vars => Inv'
  BY NextType, NextConnections, NextLock, NextSnapshotsEnd, NextGenerationIsNeeded DEF PoolInv
<1>2. Init => Inv
  BY InsightsInit
<1> QED BY <1>1, <1>2, PTL DEF Spec

\* Where no ROLLBACK fails an answer is of its own process's configuration, of one
\* moment, and not older than the request.
THEOREM AnswersAreNotOld ==
  ASSUME ~RollbackMayFail PROVE Spec => []InsightsAreNotOld
<1> DEFINE Inv == PoolInv /\ SnapshotsEnd /\ ReadsAreConsistent
<1>1. Inv /\ [Next]_vars => Inv'
  BY NextType, NextConnections, NextSnapshotsEnd, NextReads DEF PoolInv
<1>2. Init => Inv
  BY InsightsInit
<1>3. Inv => InsightsAreNotOld
  BY DEF PoolInv, TypeOK, Versions, ReadsAreConsistent, InsightsAreNotOld, Lookup
<1> QED BY <1>1, <1>2, <1>3, PTL DEF Spec
=============================================================================
