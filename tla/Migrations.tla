----------------------------- MODULE Migrations -----------------------------
(***************************************************************************)
(* The schema migrations: src/database/migrate.ts, run by one-off tasks    *)
(* that nothing keeps from overlapping, on a PostgreSQL database that an   *)
(* API of an older image may be using.                                     *)
(*                                                                         *)
(* A version is its number; an image carries the files 1..n for some n.    *)
(* A run is one READ COMMITTED transaction:                                *)
(*                                                                         *)
(*   idle -> creating -> checking -> running ----> recording -> checking   *)
(*              |            |          |              |                   *)
(*           naming      committing  altering -> queueing                  *)
(*                           |                                             *)
(*                         done                                            *)
(*                                                                         *)
(* with rollingBack -> failed after an error, and crashed from everywhere. *)
(* What a run wrote stays its own until the commit, but its locks make     *)
(* others wait: for the name of a table that is being created, for the     *)
(* objects a migration alters, for a version that is being inserted.       *)
(*                                                                         *)
(* 003 is the file whose statements lock one table in two modes: its DO    *)
(* block reads `statements` (ACCESS SHARE), its ALTER TABLE needs the table *)
(* for itself (ACCESS EXCLUSIVE).  In between an API may insert, and two   *)
(* runs that have both read wait for each other, until PostgreSQL finds    *)
(* the deadlock.                                                           *)
(***************************************************************************)
EXTENDS Naturals

CONSTANTS
  Runners,          \* the tasks that may run at the same time
  Latest,           \* the newest version
  Images,           \* the images in use, each named by its newest version
  Repeatable,       \* versions whose SQL does not fail when it is run twice
  MetadataVersion,  \* the version of 003_add_upload_metadata
  MaxFaults         \* bound: lost connections and killed tasks

Versions == 1..Latest

ASSUME MigrationsAssumption ==
  /\ Latest \in Nat
  /\ Images \subseteq Versions
  /\ Repeatable \subseteq Versions
  /\ MetadataVersion \in Versions \ {1}
  /\ MaxFaults \in Nat

VARIABLES
  pc,        \* pc[p]: where the run is
  image,     \* image[p]: the files its directory holds are 1..image[p]
  at,        \* at[p]: the file it is at, from 1
  created,   \* created[p]: its transaction has created schema_migrations
  ran,       \* ran[p]: the versions whose SQL its transaction has run
  inserted,  \* inserted[p]: the versions its transaction has recorded
  looked,    \* looked[p]: its transaction has read `statements` and locks it
  table,     \* schema_migrations exists
  recorded,  \* the versions in it
  applied,   \* applied[v]: how often the SQL of v has taken effect
  oldRow,    \* a statement without upload metadata exists
  faults     \* the failures so far

txnVars == <<created, ran, inserted, looked>>
schemaVars == <<table, recorded, applied, oldRow>>
vars == <<pc, image, at, txnVars, schemaVars, faults>>

\* At a file of its image.
AtFile == {"running", "altering", "queueing", "recording"}

Working == {"creating", "naming", "checking", "committing"} \union AtFile

TypeOK ==
  /\ pc \in [Runners -> Working \union {"idle", "rollingBack", "crashed", "done", "failed"}]
  /\ image \in [Runners -> Images]
  /\ at \in [Runners -> 1..(Latest + 1)]
  /\ \A p \in Runners :
       /\ at[p] <= image[p] + 1
       /\ pc[p] \in AtFile => at[p] <= image[p]
  /\ created \in [Runners -> BOOLEAN]
  /\ ran \in [Runners -> SUBSET Versions]
  /\ inserted \in [Runners -> SUBSET Versions]
  /\ looked \in [Runners -> BOOLEAN]
  /\ table \in BOOLEAN
  /\ recorded \subseteq Versions
  /\ applied \in [Versions -> Nat]
  /\ oldRow \in BOOLEAN
  /\ faults \in 0..MaxFaults

Init ==
  /\ pc = [p \in Runners |-> "idle"]
  /\ image \in [Runners -> Images]
  /\ at = [p \in Runners |-> 1]
  /\ created = [p \in Runners |-> FALSE]
  /\ ran = [p \in Runners |-> {}]
  /\ inserted = [p \in Runners |-> {}]
  /\ looked = [p \in Runners |-> FALSE]
  /\ table = FALSE
  /\ recorded = {}
  /\ applied = [v \in Versions |-> 0]
  /\ oldRow = FALSE
  /\ faults = 0

Goto(p, from, to) == pc[p] = from /\ pc' = [pc EXCEPT ![p] = to]

\* listMigrationFiles: the files of an image in the order of their numbers.
Files(n) == [i \in 1..n |-> i]

File(p) == Files(image[p])[at[p]]

\* Another run has this in its open transaction.
CreatedByOther(p) == \E q \in Runners \ {p} : created[q]
RunByOther(p, v) == \E q \in Runners \ {p} : v \in ran[q]
InsertedByOther(p, v) == \E q \in Runners \ {p} : v \in inserted[q]
ReadByOther(p) == \E q \in Runners \ {p} : looked[q]

\* A run is next for ACCESS EXCLUSIVE: later requests queue behind it.
SomeoneQueues == \E q \in Runners : pc[q] = "queueing"

-----------------------------------------------------------------------------
\* Mutant of Start: it goes on after the file the last run ended at.
StartWhereItWas(p) ==
  /\ pc[p] \in {"idle", "done"}
  /\ pc' = [pc EXCEPT ![p] = "creating"]
  /\ \E n \in Images : image' = [image EXCEPT ![p] = n]
  /\ UNCHANGED <<at, txnVars, schemaVars, faults>>

\* A run begins, with the image its task was started from ...
Start(p) ==
  /\ pc[p] \in {"idle", "done"}
  /\ pc' = [pc EXCEPT ![p] = "creating"]
  /\ \E n \in Images : image' = [image EXCEPT ![p] = n]
  /\ at' = [at EXCEPT ![p] = 1]
  /\ UNCHANGED <<txnVars, schemaVars, faults>>

\* ... and one that failed is repeated.
Repeat(p) ==
  /\ Goto(p, "failed", "creating")
  /\ at' = [at EXCEPT ![p] = 1]
  /\ UNCHANGED <<image, txnVars, schemaVars, faults>>

\* Mutant of CreateTable: CREATE TABLE without IF NOT EXISTS.
CreateTableAlways(p) ==
  /\ \/ table /\ Goto(p, "creating", "rollingBack")
     \/ ~table /\ Goto(p, "creating", "naming")
  /\ UNCHANGED <<image, at, txnVars, schemaVars, faults>>

\* CREATE TABLE IF NOT EXISTS looks for the committed table ...
CreateTable(p) ==
  /\ \/ table /\ Goto(p, "creating", "checking")
     \/ ~table /\ Goto(p, "creating", "naming")
  /\ UNCHANGED <<image, at, txnVars, schemaVars, faults>>

\* ... and otherwise claims the name, which fails if a run that it waited for
\* has committed the table in between.
ClaimName(p) ==
  /\ ~CreatedByOther(p)
  /\ \/ table /\ Goto(p, "naming", "rollingBack") /\ UNCHANGED created
     \/ /\ ~table
        /\ Goto(p, "naming", "checking")
        /\ created' = [created EXCEPT ![p] = TRUE]
  /\ UNCHANGED <<image, at, ran, inserted, looked, schemaVars, faults>>

\* SELECT 1 FROM schema_migrations: what is committed, and what it wrote.
CheckVersion(p) ==
  /\ \/ /\ at[p] > image[p]
        /\ Goto(p, "checking", "committing")
        /\ UNCHANGED at
     \/ /\ at[p] <= image[p]
        /\ File(p) \in recorded \union inserted[p]
        /\ pc[p] = "checking"
        /\ at' = [at EXCEPT ![p] = @ + 1]
        /\ UNCHANGED pc
     \/ /\ at[p] <= image[p]
        /\ File(p) \notin recorded \union inserted[p]
        /\ Goto(p, "checking", "running")
        /\ UNCHANGED at
  /\ UNCHANGED <<image, txnVars, schemaVars, faults>>

\* What version v builds on is there.
BuiltOn(p, v) == \A u \in 1..(v - 1) : applied[u] > 0 \/ u \in ran[p]

\* The SQL of v was not run before, or does not mind.
NotRunBefore(v) == v \in Repeatable \/ applied[v] = 0

\* Mutant of RunSql: the SQL is run on a connection of its own.
RunSqlAtOnce(p) ==
  /\ Goto(p, "running", "recording")
  /\ File(p) # MetadataVersion /\ BuiltOn(p, File(p)) /\ NotRunBefore(File(p))
  /\ applied' = [applied EXCEPT ![File(p)] = @ + 1]
  /\ UNCHANGED <<image, at, txnVars, table, recorded, oldRow, faults>>

\* The SQL of a file waits for a run that alters the same objects, then takes
\* effect or fails.
RunSql(p) ==
  /\ pc[p] = "running"
  /\ File(p) # MetadataVersion
  /\ File(p) \in Repeatable \/ ~RunByOther(p, File(p))
  /\ \/ /\ BuiltOn(p, File(p)) /\ NotRunBefore(File(p))
        /\ Goto(p, "running", "recording")
        /\ ran' = [ran EXCEPT ![p] = @ \union {File(p)}]
     \/ /\ ~(BuiltOn(p, File(p)) /\ NotRunBefore(File(p)))
        /\ Goto(p, "running", "rollingBack")
        /\ UNCHANGED ran
  /\ UNCHANGED <<image, at, created, inserted, looked, schemaVars, faults>>

-----------------------------------------------------------------------------
(* The two halves of 003.                                                  *)

\* The DO block waits for a run that has altered `statements` or is next to,
\* and raises an exception if there is a row; the lock stays.
LookForRows(p) ==
  /\ pc[p] = "running"
  /\ File(p) = MetadataVersion
  /\ ~RunByOther(p, MetadataVersion) /\ ~SomeoneQueues
  /\ looked' = [looked EXCEPT ![p] = TRUE]
  /\ \/ BuiltOn(p, MetadataVersion) /\ ~oldRow /\ Goto(p, "running", "altering")
     \/ /\ ~BuiltOn(p, MetadataVersion) \/ oldRow
        /\ Goto(p, "running", "rollingBack")
  /\ UNCHANGED <<image, at, created, ran, inserted, schemaVars, faults>>

\* The ALTER TABLE has to wait until nobody else has read the table ...
QueueForTable(p) ==
  /\ ReadByOther(p)
  /\ Goto(p, "altering", "queueing")
  /\ UNCHANGED <<image, at, txnVars, schemaVars, faults>>

\* ... for ever, if that run waits as well: one of them is chosen to fail.
LoseDeadlock(p) ==
  /\ \E q \in Runners \ {p} : pc[q] = "queueing"
  /\ Goto(p, "queueing", "rollingBack")
  /\ UNCHANGED <<image, at, txnVars, schemaVars, faults>>

\* Mutant of AlterStatements: the columns have a default.
AlterWithDefault(p) ==
  /\ pc[p] \in {"altering", "queueing"}
  /\ ~ReadByOther(p)
  /\ \/ /\ applied[MetadataVersion] = 0
        /\ Goto(p, pc[p], "recording")
        /\ ran' = [ran EXCEPT ![p] = @ \union {MetadataVersion}]
     \/ applied[MetadataVersion] > 0 /\ Goto(p, pc[p], "rollingBack") /\ UNCHANGED ran
  /\ UNCHANGED <<image, at, created, inserted, looked, schemaVars, faults>>

\* ADD COLUMN ... NOT NULL without a default fails if there is a row by now, or
\* the column.
AlterStatements(p) ==
  /\ pc[p] \in {"altering", "queueing"}
  /\ ~ReadByOther(p)
  /\ \/ /\ applied[MetadataVersion] = 0 /\ ~oldRow
        /\ Goto(p, pc[p], "recording")
        /\ ran' = [ran EXCEPT ![p] = @ \union {MetadataVersion}]
     \/ /\ applied[MetadataVersion] > 0 \/ oldRow
        /\ Goto(p, pc[p], "rollingBack")
        /\ UNCHANGED ran
  /\ UNCHANGED <<image, at, created, inserted, looked, schemaVars, faults>>

-----------------------------------------------------------------------------
\* Mutant of RecordVersion: `version` is not a primary key.
RecordVersionAgain(p) ==
  /\ Goto(p, "recording", "checking")
  /\ inserted' = [inserted EXCEPT ![p] = @ \union {File(p)}]
  /\ at' = [at EXCEPT ![p] = @ + 1]
  /\ UNCHANGED <<image, created, ran, looked, schemaVars, faults>>

\* INSERT INTO schema_migrations waits for a run that inserts the same version
\* and fails if that run has committed.
RecordVersion(p) ==
  /\ pc[p] = "recording"
  /\ ~InsertedByOther(p, File(p))
  /\ \/ /\ File(p) \in recorded
        /\ Goto(p, "recording", "rollingBack")
        /\ UNCHANGED <<inserted, at>>
     \/ /\ File(p) \notin recorded
        /\ Goto(p, "recording", "checking")
        /\ inserted' = [inserted EXCEPT ![p] = @ \union {File(p)}]
        /\ at' = [at EXCEPT ![p] = @ + 1]
  /\ UNCHANGED <<image, created, ran, looked, schemaVars, faults>>

\* The transaction of p is over, and its locks are gone.
EndTxn(p) ==
  /\ created' = [created EXCEPT ![p] = FALSE]
  /\ ran' = [ran EXCEPT ![p] = {}]
  /\ inserted' = [inserted EXCEPT ![p] = {}]
  /\ looked' = [looked EXCEPT ![p] = FALSE]

\* The server commits.
CommitTxn(p) ==
  /\ table' = (table \/ created[p])
  /\ recorded' = recorded \union inserted[p]
  /\ applied' = [v \in Versions |-> applied[v] + (IF v \in ran[p] THEN 1 ELSE 0)]
  /\ EndTxn(p)
  /\ UNCHANGED <<image, at, oldRow>>

Commit(p) == Goto(p, "committing", "done") /\ CommitTxn(p) /\ UNCHANGED faults

\* Mutant of Rollback: the error is not thrown again.
RollbackQuietly(p) ==
  /\ Goto(p, "rollingBack", "done")
  /\ EndTxn(p)
  /\ UNCHANGED <<image, at, schemaVars, faults>>

\* ROLLBACK, and the error is thrown again.
Rollback(p) ==
  /\ Goto(p, "rollingBack", "failed")
  /\ EndTxn(p)
  /\ UNCHANGED <<image, at, schemaVars, faults>>

-----------------------------------------------------------------------------
\* A query fails or the task is killed.  The server finds out later, and may
\* have been asked to commit.
Lose(p) ==
  /\ pc[p] \in Working
  /\ faults < MaxFaults
  /\ faults' = faults + 1
  /\ pc' = [pc EXCEPT ![p] = IF @ = "committing" THEN "crashed" ELSE "rollingBack"]
  /\ UNCHANGED <<image, at, txnVars, schemaVars>>

\* The COMMIT whose answer was lost was carried out, or was not.
CommitInDoubt(p) == Goto(p, "crashed", "failed") /\ CommitTxn(p) /\ UNCHANGED faults

AbortInDoubt(p) ==
  /\ Goto(p, "crashed", "failed")
  /\ EndTxn(p)
  /\ UNCHANGED <<image, at, schemaVars, faults>>

\* An API older than MetadataVersion inserts a statement.  The locks of a run
\* that has run 002 (its foreign key) or a later file make it wait, and so does
\* a run that is next for the table; the lock of the DO block does not.
InsertOldRow ==
  /\ applied[1] > 0
  /\ applied[MetadataVersion] = 0
  /\ \A p \in Runners : ran[p] = {}
  /\ ~SomeoneQueues
  /\ oldRow' = TRUE
  /\ UNCHANGED <<pc, image, at, txnVars, table, recorded, applied, faults>>

-----------------------------------------------------------------------------
RunnerStep(p) ==
  \/ CreateTable(p) \/ ClaimName(p)
  \/ CheckVersion(p)
  \/ RunSql(p)
  \/ LookForRows(p) \/ QueueForTable(p) \/ LoseDeadlock(p) \/ AlterStatements(p)
  \/ RecordVersion(p)
  \/ Commit(p) \/ Rollback(p)
  \/ CommitInDoubt(p) \/ AbortInDoubt(p)

Next ==
  \/ \E p \in Runners : Start(p) \/ Repeat(p) \/ RunnerStep(p) \/ Lose(p)
  \/ InsertOldRow

Spec == Init /\ [][Next]_vars

\* Every query is answered or fails, a deadlock is found, and the operator
\* repeats a run that failed.
Fairness ==
  \A p \in Runners : WF_vars(RunnerStep(p)) /\ WF_vars(Repeat(p))

FairSpec == Spec /\ Fairness

-----------------------------------------------------------------------------
(* Properties.                                                             *)

\* However many runs overlap, fail or are repeated, no migration takes effect
\* twice, also one whose SQL would not fail the second time
\* (plans/phase-02.md, "Migration").
AppliedOnce == \A v \in Versions : applied[v] <= 1

\* All or nothing: what has taken effect is what is recorded, whatever failed
\* on the way and whether or not the answer of a COMMIT was lost.
RecordedIsApplied == recorded = {v \in Versions : applied[v] > 0}

\* A run that reports success has left the schema of its image, which no other
\* run takes away (docs/phase-13-deployment-troubleshooting.md starts the
\* services then).
DoneIsApplied == \A p \in Runners : pc[p] = "done" => 1..image[p] \subseteq recorded

\* Once the upload metadata are columns every statement was inserted with them.
\* The look of 003 alone would not do: an API that is still running inserts
\* between it and the ALTER, which then fails for want of a default.
MetadataIsComplete == MetadataVersion \in recorded => ~oldRow

\* Overlapping runs do not wait for each other for ever, also where both have
\* read `statements` and want to alter it, and do not fail each other for ever:
\* the schema of an image that is run is there in the end, unless statements
\* without metadata forbid it.
SchemaArrives ==
  \A p \in Runners : \A n \in Images :
    pc[p] = "creating" /\ image[p] = n ~> 1..n \subseteq recorded \/ oldRow
=============================================================================
