-------------------------- MODULE MigrationsProofs --------------------------
(***************************************************************************)
(* Migrations is safe with any number of runs, images, versions and        *)
(* failures.  The invariant says what the transaction of a run holds: the  *)
(* versions it has inserted are those whose SQL it has run, nobody else    *)
(* has them, and they are the files up to the one it is at.                *)
(***************************************************************************)
EXTENDS Migrations, TLAPS

\* What a transaction ran and what it recorded differ only by the file it is
\* about to record; a transaction that is rolled back may have run any.
RanIsInserted ==
  \A p \in Runners :
    /\ pc[p] = "recording" => ran[p] = inserted[p] \union {at[p]}
    /\ pc[p] \notin {"recording", "rollingBack"} => ran[p] = inserted[p]

\* A version is recorded by one transaction, open or committed.
OneRecorder ==
  \A p \in Runners :
    /\ inserted[p] \intersect recorded = {}
    /\ \A q \in Runners \ {p} : inserted[p] \intersect inserted[q] = {}

\* The SQL of a version has taken effect once if it is recorded, or never.
AppliedIsRecorded ==
  \A v \in Versions : applied[v] = IF v \in recorded THEN 1 ELSE 0

\* The run p has found or recorded all files before the one it is at, and alters
\* `statements` in the middle of 003.
Behind(p) ==
  /\ pc[p] \in {"creating", "naming"} => at[p] = 1
  /\ pc[p] = "committing" => at[p] > image[p]
  /\ pc[p] \in {"checking", "committing"} \union AtFile =>
       \A v \in Versions : v < at[p] => v \in recorded \union inserted[p]
  /\ pc[p] \in {"altering", "queueing"} => at[p] = MetadataVersion

FilesAreBehind == \A p \in Runners : Behind(p)

\* A statement without metadata is there only before 003, also in the
\* transactions that are still open.
OldRowsAreBefore ==
  oldRow =>
    /\ MetadataVersion \notin recorded
    /\ \A p \in Runners : MetadataVersion \notin ran[p]

SafetyInv ==
  /\ RanIsInserted
  /\ OneRecorder
  /\ AppliedIsRecorded
  /\ FilesAreBehind
  /\ OldRowsAreBefore
  /\ DoneIsApplied

-----------------------------------------------------------------------------
\* What the types say about the numbers of a run.
LEMMA Numbers ==
  ASSUME TypeOK, NEW p \in Runners
  PROVE  /\ Latest \in Nat
         /\ image[p] \in Nat /\ 1 <= image[p] /\ image[p] <= Latest
         /\ at[p] \in Nat /\ 1 <= at[p] /\ at[p] <= image[p] + 1
         /\ pc[p] \in AtFile => at[p] <= image[p]
<1>1. Latest \in Nat /\ \A n \in Images : n \in Nat /\ 1 <= n /\ n <= Latest
  BY MigrationsAssumption DEF MigrationsAssumption, Versions
<1>2. image[p] \in Images /\ at[p] \in 1..(Latest + 1)
  BY DEF TypeOK
<1>3. at[p] <= image[p] + 1 /\ (pc[p] \in AtFile => at[p] <= image[p])
  BY DEF TypeOK
<1>4. at[p] \in Nat /\ 1 <= at[p]
  BY <1>1, <1>2
<1> QED
  BY <1>1, <1>2, <1>3, <1>4

\* The file a run is at is the version of that number.
LEMMA FileIsItsNumber ==
  ASSUME TypeOK, NEW p \in Runners, at[p] <= image[p]
  PROVE  File(p) = at[p] /\ at[p] \in Versions
BY Numbers DEF File, Files, Versions

\* The steps, each with the run that takes it.
LEMMA StepsOfNext ==
  ASSUME [Next]_vars
  PROVE  \/ \E p \in Runners :
              \/ Start(p) \/ Repeat(p) \/ CreateTable(p) \/ ClaimName(p)
              \/ CheckVersion(p) \/ RunSql(p) \/ RecordVersion(p)
              \/ LookForRows(p) \/ QueueForTable(p) \/ LoseDeadlock(p) \/ AlterStatements(p)
              \/ Commit(p) \/ Rollback(p) \/ Lose(p)
              \/ CommitInDoubt(p) \/ AbortInDoubt(p)
         \/ InsertOldRow
         \/ UNCHANGED vars
BY DEF Next, RunnerStep

\* The invariant holds at the start.
LEMMA InitIsSafe == Init => TypeOK /\ SafetyInv
<1> SUFFICES ASSUME Init PROVE TypeOK /\ SafetyInv
  OBVIOUS
<1> USE MigrationsAssumption DEF Init
<1>1. TypeOK
  <2>1. Latest \in Nat /\ MaxFaults \in Nat /\ \A n \in Images : n \in Nat /\ 1 <= n
    BY DEF MigrationsAssumption, Versions
  <2>2. at \in [Runners -> 1..(Latest + 1)]
    BY <2>1
  <2>3. applied \in [Versions -> Nat] /\ faults \in 0..MaxFaults
    BY <2>1
  <2>4. ASSUME NEW p \in Runners PROVE at[p] <= image[p] + 1
    <3>1. at[p] = 1 /\ image[p] \in Images
      OBVIOUS
    <3> QED
      BY ONLY <2>1, <3>1
  <2>5. \A p \in Runners : pc[p] \in AtFile => at[p] <= image[p]
    BY DEF AtFile
  <2>6. pc \in [Runners -> Working \union {"idle", "rollingBack", "crashed", "done", "failed"}]
    OBVIOUS
  <2>7. /\ image \in [Runners -> Images] /\ created \in [Runners -> BOOLEAN]
        /\ ran \in [Runners -> SUBSET Versions] /\ inserted \in [Runners -> SUBSET Versions]
        /\ looked \in [Runners -> BOOLEAN]
        /\ table \in BOOLEAN /\ recorded \subseteq Versions /\ oldRow \in BOOLEAN
    OBVIOUS
  <2> QED
    BY <2>2, <2>3, <2>4, <2>5, <2>6, <2>7 DEF TypeOK
<1>2. RanIsInserted /\ OneRecorder
  BY DEF RanIsInserted, OneRecorder
<1>3. AppliedIsRecorded
  BY DEF AppliedIsRecorded
<1>4. FilesAreBehind /\ OldRowsAreBefore /\ DoneIsApplied
  BY DEF FilesAreBehind, Behind, AtFile, OldRowsAreBefore, DoneIsApplied
<1> QED BY <1>1, <1>2, <1>3, <1>4 DEF SafetyInv

-----------------------------------------------------------------------------
\* Every step keeps the types.
LEMMA TypeStep == TypeOK /\ [Next]_vars => TypeOK'
<1> SUFFICES ASSUME TypeOK, [Next]_vars PROVE TypeOK'
  OBVIOUS
<1> USE MigrationsAssumption
<1>1. CASE UNCHANGED vars
  BY <1>1 DEF vars, txnVars, schemaVars, TypeOK
<1>2. CASE InsertOldRow
  BY <1>2 DEF InsertOldRow, txnVars, TypeOK
<1>3. ASSUME NEW p \in Runners, Start(p) PROVE TypeOK'
  <2>1. \A n \in Images : n \in Nat /\ 1 <= n
    BY DEF MigrationsAssumption, Versions
  <2>2. 1 \in 1..(Latest + 1)
    BY DEF MigrationsAssumption
  <2> QED
    BY <1>3, <2>1, <2>2 DEF Start, txnVars, schemaVars, TypeOK, Working, AtFile
<1>4. ASSUME NEW p \in Runners, Repeat(p) PROVE TypeOK'
  <2>1. 1 \in 1..(Latest + 1) /\ \A q \in Runners : image[q] \in Nat
    BY Numbers DEF MigrationsAssumption
  <2> QED
    BY <1>4, <2>1 DEF Repeat, Goto, txnVars, schemaVars, TypeOK, Working, AtFile
<1>5. ASSUME NEW p \in Runners, CreateTable(p) PROVE TypeOK'
  BY <1>5 DEF CreateTable, Goto, txnVars, schemaVars, TypeOK, Working, AtFile
<1>6. ASSUME NEW p \in Runners, ClaimName(p) PROVE TypeOK'
  BY <1>6 DEF ClaimName, Goto, schemaVars, TypeOK, Working, AtFile
<1>7. ASSUME NEW p \in Runners, CheckVersion(p) PROVE TypeOK'
  <2> USE DEF CheckVersion, Goto, txnVars, schemaVars, TypeOK, Working, AtFile
  <2>1. CASE at[p] > image[p]
    BY <1>7, <2>1, Numbers
  <2>2. CASE at[p] <= image[p] /\ UNCHANGED at
    BY <1>7, <2>2
  <2>3. CASE at[p] <= image[p] /\ at' = [at EXCEPT ![p] = @ + 1] /\ UNCHANGED pc
    <3>1. at[p] + 1 \in 1..(Latest + 1) /\ at[p] + 1 <= image[p] + 1
      BY <2>3, Numbers
    <3>2. pc[p] \notin AtFile
      BY <1>7, <2>3
    <3> QED
      BY <1>7, <2>3, <3>1, <3>2
  <2> QED
    BY <1>7, <2>1, <2>2, <2>3, Numbers
<1>8. ASSUME NEW p \in Runners, RunSql(p) PROVE TypeOK'
  <2>1. File(p) \in Versions
    BY <1>8, FileIsItsNumber DEF RunSql, TypeOK, AtFile
  <2> QED
    BY <1>8, <2>1 DEF RunSql, Goto, schemaVars, TypeOK, Working, AtFile
<1>9. ASSUME NEW p \in Runners, RecordVersion(p) PROVE TypeOK'
  <2>1. File(p) \in Versions
    BY <1>9, FileIsItsNumber DEF RecordVersion, TypeOK, AtFile
  <2>2. at[p] + 1 \in 1..(Latest + 1) /\ at[p] + 1 <= image[p] + 1
    BY <1>9, Numbers DEF RecordVersion, AtFile
  <2> QED
    BY <1>9, <2>1, <2>2 DEF RecordVersion, Goto, schemaVars, TypeOK, Working, AtFile
<1>10. ASSUME NEW p \in Runners, Goto(p, "committing", "done") \/ Goto(p, "crashed", "failed"),
              CommitTxn(p), faults' = faults
       PROVE TypeOK'
  BY <1>10 DEF Goto, CommitTxn, EndTxn, TypeOK, Working, AtFile
<1>11. ASSUME NEW p \in Runners, Rollback(p) \/ AbortInDoubt(p) PROVE TypeOK'
  BY <1>11 DEF Rollback, AbortInDoubt, Goto, EndTxn, schemaVars, TypeOK, Working, AtFile
<1>12. ASSUME NEW p \in Runners, Lose(p) PROVE TypeOK'
  BY <1>12 DEF Lose, txnVars, schemaVars, TypeOK, Working, AtFile
<1>13. ASSUME NEW p \in Runners, LookForRows(p) PROVE TypeOK'
  BY <1>13 DEF LookForRows, Goto, schemaVars, TypeOK, Working, AtFile
<1>14. ASSUME NEW p \in Runners, QueueForTable(p) \/ LoseDeadlock(p) PROVE TypeOK'
  BY <1>14 DEF QueueForTable, LoseDeadlock, Goto, txnVars, schemaVars, TypeOK, Working, AtFile
<1>15. ASSUME NEW p \in Runners, AlterStatements(p) PROVE TypeOK'
  <2>1. MetadataVersion \in Versions
    BY DEF MigrationsAssumption
  <2> QED
    BY <1>15, <2>1 DEF AlterStatements, Goto, schemaVars, TypeOK, Working, AtFile
<1> QED
  BY StepsOfNext, <1>1, <1>2, <1>3, <1>4, <1>5, <1>6, <1>7, <1>8, <1>9, <1>10, <1>11, <1>12,
     <1>13, <1>14, <1>15
     DEF Commit, CommitInDoubt

\* A run that has not reached the files yet owes nothing.
LEMMA StartIsSafe ==
  ASSUME TypeOK, SafetyInv, NEW p \in Runners, Start(p)
  PROVE  SafetyInv'
<1> USE DEF TypeOK, SafetyInv, Start, txnVars, schemaVars
<1>1. RanIsInserted'
  BY DEF RanIsInserted
<1>2. OneRecorder'
  BY DEF OneRecorder
<1>3. AppliedIsRecorded'
  BY DEF AppliedIsRecorded
<1>4. FilesAreBehind'
  BY DEF FilesAreBehind, Behind, AtFile
<1>5. OldRowsAreBefore'
  BY DEF OldRowsAreBefore
<1>6. DoneIsApplied'
  BY DEF DoneIsApplied
<1> QED BY <1>1, <1>2, <1>3, <1>4, <1>5, <1>6

\* A repeated run starts over.
LEMMA RepeatIsSafe ==
  ASSUME TypeOK, SafetyInv, NEW p \in Runners, Repeat(p)
  PROVE  SafetyInv'
<1> USE DEF TypeOK, SafetyInv, Repeat, Goto, txnVars, schemaVars
<1>1. RanIsInserted'
  BY DEF RanIsInserted
<1>2. OneRecorder'
  BY DEF OneRecorder
<1>3. AppliedIsRecorded'
  BY DEF AppliedIsRecorded
<1>4. FilesAreBehind'
  BY DEF FilesAreBehind, Behind, AtFile
<1>5. OldRowsAreBefore'
  BY DEF OldRowsAreBefore
<1>6. DoneIsApplied'
  BY DEF DoneIsApplied
<1> QED BY <1>1, <1>2, <1>3, <1>4, <1>5, <1>6

\* No file is before the first.
LEMMA CreateTableIsSafe ==
  ASSUME TypeOK, SafetyInv, NEW p \in Runners, CreateTable(p)
  PROVE  SafetyInv'
<1> USE DEF TypeOK, SafetyInv, CreateTable, Goto, txnVars, schemaVars
<1>1. RanIsInserted'
  BY DEF RanIsInserted
<1>2. OneRecorder'
  BY DEF OneRecorder
<1>3. AppliedIsRecorded'
  BY DEF AppliedIsRecorded
<1>4. FilesAreBehind'
  <2>1. at[p] = 1 /\ \A v \in Versions : v \in Nat /\ 1 <= v
    BY DEF FilesAreBehind, Behind, AtFile, Versions
  <2>2. Behind(p)'
    BY <2>1 DEF Behind, AtFile
  <2>3. ASSUME NEW q \in Runners \ {p} PROVE Behind(q)'
    BY DEF FilesAreBehind, Behind, AtFile
  <2> QED BY <2>2, <2>3 DEF FilesAreBehind
<1>5. OldRowsAreBefore'
  BY DEF OldRowsAreBefore
<1>6. DoneIsApplied'
  BY DEF DoneIsApplied
<1> QED BY <1>1, <1>2, <1>3, <1>4, <1>5, <1>6

\* The same after the table has been created.
LEMMA ClaimNameIsSafe ==
  ASSUME TypeOK, SafetyInv, NEW p \in Runners, ClaimName(p)
  PROVE  SafetyInv'
<1> USE DEF TypeOK, SafetyInv, ClaimName, Goto, schemaVars
<1>1. RanIsInserted'
  BY DEF RanIsInserted
<1>2. OneRecorder'
  BY DEF OneRecorder
<1>3. AppliedIsRecorded'
  BY DEF AppliedIsRecorded
<1>4. FilesAreBehind'
  <2>1. at[p] = 1 /\ \A v \in Versions : v \in Nat /\ 1 <= v
    BY DEF FilesAreBehind, Behind, AtFile, Versions
  <2>2. Behind(p)'
    BY <2>1 DEF Behind, AtFile
  <2>3. ASSUME NEW q \in Runners \ {p} PROVE Behind(q)'
    BY DEF FilesAreBehind, Behind, AtFile
  <2> QED BY <2>2, <2>3 DEF FilesAreBehind
<1>5. OldRowsAreBefore'
  BY DEF OldRowsAreBefore
<1>6. DoneIsApplied'
  BY DEF DoneIsApplied
<1> QED BY <1>1, <1>2, <1>3, <1>4, <1>5, <1>6

\* A run passes a file only because it is recorded.
LEMMA CheckVersionIsSafe ==
  ASSUME TypeOK, SafetyInv, NEW p \in Runners, CheckVersion(p)
  PROVE  SafetyInv'
<1> USE DEF TypeOK, SafetyInv, CheckVersion, Goto, txnVars, schemaVars
<1>1. RanIsInserted'
  BY DEF RanIsInserted
<1>2. OneRecorder'
  BY DEF OneRecorder
<1>3. AppliedIsRecorded'
  BY DEF AppliedIsRecorded
<1>4. FilesAreBehind'
  <2>1. ASSUME NEW q \in Runners \ {p} PROVE Behind(q)'
    BY DEF FilesAreBehind, Behind, AtFile
  <2>2. CASE at[p] > image[p]
    BY <2>1, <2>2, Numbers DEF FilesAreBehind, Behind, AtFile
  <2>3. CASE at[p] <= image[p] /\ pc' = [pc EXCEPT ![p] = "running"] /\ UNCHANGED at
    BY <2>1, <2>3 DEF FilesAreBehind, Behind, AtFile
  <2>4. CASE at[p] <= image[p] /\ at' = [at EXCEPT ![p] = @ + 1] /\ UNCHANGED pc
    <3>1. at[p] \in recorded \union inserted[p] /\ at[p] \in Nat
      BY <2>4, FileIsItsNumber, Numbers
    <3>2. \A v \in Versions : v \in Nat /\ (v < at[p] + 1 => v < at[p] \/ v = at[p])
      BY <3>1 DEF Versions
    <3>3. Behind(p)'
      BY <2>4, <3>1, <3>2 DEF FilesAreBehind, Behind, AtFile
    <3> QED BY <2>1, <3>3 DEF FilesAreBehind
  <2> QED BY <2>2, <2>3, <2>4, Numbers
<1>5. OldRowsAreBefore'
  BY DEF OldRowsAreBefore
<1>6. DoneIsApplied'
  BY DEF DoneIsApplied
<1> QED BY <1>1, <1>2, <1>3, <1>4, <1>5, <1>6

\* What is run is the file the run is at, which is not 003.
LEMMA RunSqlIsSafe ==
  ASSUME TypeOK, SafetyInv, NEW p \in Runners, RunSql(p)
  PROVE  SafetyInv'
<1> USE DEF TypeOK, SafetyInv, RunSql, Goto, schemaVars
<1>0. File(p) = at[p] /\ at[p] \in Versions
  BY FileIsItsNumber DEF AtFile
<1>1. RanIsInserted'
  BY <1>0 DEF RanIsInserted
<1>2. OneRecorder'
  BY DEF OneRecorder
<1>3. AppliedIsRecorded'
  BY DEF AppliedIsRecorded
<1>4. FilesAreBehind'
  BY DEF FilesAreBehind, Behind, AtFile
<1>5. OldRowsAreBefore'
  BY <1>0 DEF OldRowsAreBefore
<1>6. DoneIsApplied'
  BY DEF DoneIsApplied
<1> QED BY <1>1, <1>2, <1>3, <1>4, <1>5, <1>6

\* The look of 003 proves nothing: a row may come before the ALTER.
LEMMA LookForRowsIsSafe ==
  ASSUME TypeOK, SafetyInv, NEW p \in Runners, LookForRows(p)
  PROVE  SafetyInv'
<1> USE DEF TypeOK, SafetyInv, LookForRows, Goto, schemaVars
<1>0. File(p) = at[p]
  BY FileIsItsNumber DEF AtFile
<1>1. RanIsInserted'
  BY DEF RanIsInserted
<1>2. OneRecorder'
  BY DEF OneRecorder
<1>3. AppliedIsRecorded'
  BY DEF AppliedIsRecorded
<1>4. FilesAreBehind'
  BY <1>0 DEF FilesAreBehind, Behind, AtFile
<1>5. OldRowsAreBefore'
  BY DEF OldRowsAreBefore
<1>6. DoneIsApplied'
  BY DEF DoneIsApplied
<1> QED BY <1>1, <1>2, <1>3, <1>4, <1>5, <1>6

\* Nor does the wait for the table, whether it ends well or in a deadlock.
LEMMA WaitIsSafe ==
  ASSUME TypeOK, SafetyInv, NEW p \in Runners, QueueForTable(p) \/ LoseDeadlock(p)
  PROVE  SafetyInv'
<1> USE DEF TypeOK, SafetyInv, QueueForTable, LoseDeadlock, Goto, txnVars, schemaVars
<1>1. RanIsInserted'
  BY DEF RanIsInserted
<1>2. OneRecorder'
  BY DEF OneRecorder
<1>3. AppliedIsRecorded'
  BY DEF AppliedIsRecorded
<1>4. FilesAreBehind'
  BY DEF FilesAreBehind, Behind, AtFile
<1>5. OldRowsAreBefore'
  BY DEF OldRowsAreBefore
<1>6. DoneIsApplied'
  BY DEF DoneIsApplied
<1> QED BY <1>1, <1>2, <1>3, <1>4, <1>5, <1>6

\* The ALTER takes effect only while there is no row, and keeps the table.
LEMMA AlterStatementsIsSafe ==
  ASSUME TypeOK, SafetyInv, NEW p \in Runners, AlterStatements(p)
  PROVE  SafetyInv'
<1> USE DEF TypeOK, SafetyInv, AlterStatements, Goto, schemaVars
<1>0. pc[p] \in {"altering", "queueing"} /\ at[p] = MetadataVersion
  BY DEF FilesAreBehind, Behind
<1>1. RanIsInserted'
  BY <1>0 DEF RanIsInserted
<1>2. OneRecorder'
  BY DEF OneRecorder
<1>3. AppliedIsRecorded'
  BY DEF AppliedIsRecorded
<1>4. FilesAreBehind'
  BY <1>0 DEF FilesAreBehind, Behind, AtFile
<1>5. OldRowsAreBefore'
  BY DEF OldRowsAreBefore
<1>6. DoneIsApplied'
  BY DEF DoneIsApplied
<1> QED BY <1>1, <1>2, <1>3, <1>4, <1>5, <1>6

\* The wait for other inserts keeps the recorder unique.
LEMMA RecordVersionIsSafe ==
  ASSUME TypeOK, SafetyInv, NEW p \in Runners, RecordVersion(p)
  PROVE  SafetyInv'
<1> USE DEF TypeOK, SafetyInv, RecordVersion, Goto, schemaVars
<1>0. File(p) = at[p] /\ at[p] \in Versions
  BY FileIsItsNumber DEF AtFile
<1>1. RanIsInserted'
  BY <1>0 DEF RanIsInserted
<1>2. OneRecorder'
  BY <1>0 DEF OneRecorder, InsertedByOther
<1>3. AppliedIsRecorded'
  BY DEF AppliedIsRecorded
<1>4. FilesAreBehind'
  <2>1. ASSUME NEW q \in Runners \ {p} PROVE Behind(q)'
    BY DEF FilesAreBehind, Behind, AtFile
  <2>2. CASE at[p] \in recorded
    BY <1>0, <2>1, <2>2 DEF FilesAreBehind, Behind, AtFile
  <2>3. CASE at[p] \notin recorded
    <3>1. \A v \in Versions : v < at[p] + 1 => v < at[p] \/ v = at[p]
      BY Numbers DEF Versions
    <3>2. Behind(p)'
      BY <1>0, <2>3, <3>1 DEF FilesAreBehind, Behind, AtFile
    <3> QED BY <2>1, <3>2 DEF FilesAreBehind
  <2> QED BY <2>2, <2>3
<1>5. OldRowsAreBefore'
  BY DEF OldRowsAreBefore
<1>6. DoneIsApplied'
  BY DEF DoneIsApplied
<1> QED BY <1>1, <1>2, <1>3, <1>4, <1>5, <1>6

\* A transaction that is rolled back leaves nothing.
LEMMA RollbackIsSafe ==
  ASSUME TypeOK, SafetyInv, NEW p \in Runners, Rollback(p) \/ AbortInDoubt(p)
  PROVE  SafetyInv'
<1> USE DEF TypeOK, SafetyInv, Rollback, AbortInDoubt, Goto, EndTxn, schemaVars
<1>1. RanIsInserted'
  <2>1. ran'[p] = {} /\ inserted'[p] = {} /\ pc'[p] = "failed"
    OBVIOUS
  <2>2. \A q \in Runners \ {p} :
          ran'[q] = ran[q] /\ inserted'[q] = inserted[q] /\ pc'[q] = pc[q] /\ at'[q] = at[q]
    OBVIOUS
  <2> QED BY <2>1, <2>2 DEF RanIsInserted
<1>2. OneRecorder'
  BY DEF OneRecorder
<1>3. AppliedIsRecorded'
  BY DEF AppliedIsRecorded
<1>4. FilesAreBehind'
  BY DEF FilesAreBehind, Behind, AtFile
<1>5. OldRowsAreBefore'
  BY DEF OldRowsAreBefore
<1>6. DoneIsApplied'
  BY DEF DoneIsApplied
<1> QED BY <1>1, <1>2, <1>3, <1>4, <1>5, <1>6

\* A lost connection changes where the run is, and nothing it holds.
LEMMA LoseIsSafe ==
  ASSUME TypeOK, SafetyInv, NEW p \in Runners, Lose(p)
  PROVE  SafetyInv'
<1> USE DEF TypeOK, SafetyInv, Lose, txnVars, schemaVars
<1>1. RanIsInserted'
  BY DEF RanIsInserted
<1>2. OneRecorder'
  BY DEF OneRecorder
<1>3. AppliedIsRecorded'
  BY DEF AppliedIsRecorded
<1>4. FilesAreBehind'
  BY DEF FilesAreBehind, Behind, AtFile
<1>5. OldRowsAreBefore'
  BY DEF OldRowsAreBefore
<1>6. DoneIsApplied'
  BY DEF DoneIsApplied
<1> QED BY <1>1, <1>2, <1>3, <1>4, <1>5, <1>6

\* A commit moves what was run and recorded out of the transaction together.
LEMMA CommitTxnIsSafe ==
  ASSUME TypeOK, SafetyInv, NEW p \in Runners, CommitTxn(p),
         Goto(p, "committing", "done") \/ Goto(p, "crashed", "failed")
  PROVE  SafetyInv'
<1> USE DEF TypeOK, SafetyInv, CommitTxn, EndTxn, Goto
<1>0. /\ ran[p] = inserted[p] /\ ran'[p] = {} /\ inserted'[p] = {}
      /\ \A q \in Runners \ {p} :
           pc'[q] = pc[q] /\ ran'[q] = ran[q] /\ inserted'[q] = inserted[q]
  BY DEF RanIsInserted
<1>1. RanIsInserted'
  BY <1>0 DEF RanIsInserted
<1>2. OneRecorder'
  BY <1>0 DEF OneRecorder
<1>3. AppliedIsRecorded'
  <2>1. ASSUME NEW v \in Versions PROVE applied'[v] = IF v \in recorded' THEN 1 ELSE 0
    <3>1. applied[v] = (IF v \in recorded THEN 1 ELSE 0) /\ ~(v \in recorded /\ v \in ran[p])
      BY <1>0 DEF AppliedIsRecorded, OneRecorder
    <3>2. applied'[v] = applied[v] + (IF v \in ran[p] THEN 1 ELSE 0)
      OBVIOUS
    <3>3. v \in recorded' <=> v \in recorded \/ v \in ran[p]
      BY <1>0
    <3> QED BY ONLY <3>1, <3>2, <3>3
  <2> QED BY <2>1 DEF AppliedIsRecorded
<1>4. FilesAreBehind'
  BY <1>0 DEF FilesAreBehind, Behind, AtFile
<1>5. OldRowsAreBefore'
  BY <1>0 DEF OldRowsAreBefore
<1>6. DoneIsApplied'
  <2>1. ASSUME NEW q \in Runners \ {p}, pc'[q] = "done" PROVE 1..image'[q] \subseteq recorded'
    BY <1>0, <2>1 DEF DoneIsApplied
  <2>2. ASSUME pc'[p] = "done" PROVE 1..image'[p] \subseteq recorded'
    <3>1. pc[p] = "committing"
      BY <2>2
    <3>2. at[p] > image[p] /\ \A v \in Versions : v < at[p] => v \in recorded'
      BY <3>1 DEF FilesAreBehind, Behind, AtFile
    <3>3. \A v \in 1..image[p] : v \in Versions /\ v < at[p]
      BY <3>2, Numbers DEF Versions
    <3> QED BY <3>2, <3>3
  <2> QED BY <2>1, <2>2 DEF DoneIsApplied
<1> QED BY <1>1, <1>2, <1>3, <1>4, <1>5, <1>6

\* Old rows are inserted only while 003 is neither applied nor under way.
LEMMA InsertOldRowIsSafe ==
  ASSUME TypeOK, SafetyInv, InsertOldRow
  PROVE  SafetyInv'
<1> USE DEF SafetyInv, InsertOldRow, txnVars
<1>1. /\ RanIsInserted' /\ OneRecorder' /\ AppliedIsRecorded' /\ FilesAreBehind' /\ DoneIsApplied'
  BY DEF RanIsInserted, OneRecorder, AppliedIsRecorded, FilesAreBehind, Behind, DoneIsApplied
<1>2. OldRowsAreBefore'
  <2>1. MetadataVersion \notin recorded
    BY MigrationsAssumption DEF MigrationsAssumption, AppliedIsRecorded
  <2> QED BY <2>1 DEF OldRowsAreBefore
<1> QED BY <1>1, <1>2

\* Every step keeps the invariant.
LEMMA SafetyStep == TypeOK /\ SafetyInv /\ [Next]_vars => SafetyInv'
<1> SUFFICES ASSUME TypeOK, SafetyInv, [Next]_vars PROVE SafetyInv'
  OBVIOUS
<1>1. CASE UNCHANGED vars
  BY <1>1 DEF vars, txnVars, schemaVars, SafetyInv, RanIsInserted, OneRecorder,
       AppliedIsRecorded, FilesAreBehind, Behind, OldRowsAreBefore, DoneIsApplied
<1>2. CASE InsertOldRow
  BY <1>2, InsertOldRowIsSafe
<1>3. ASSUME NEW p \in Runners, Start(p) \/ Repeat(p) \/ CreateTable(p) \/ ClaimName(p)
      PROVE SafetyInv'
  BY <1>3, StartIsSafe, RepeatIsSafe, CreateTableIsSafe, ClaimNameIsSafe
<1>4. ASSUME NEW p \in Runners, CheckVersion(p) \/ RunSql(p) \/ RecordVersion(p)
      PROVE SafetyInv'
  BY <1>4, CheckVersionIsSafe, RunSqlIsSafe, RecordVersionIsSafe
<1>5. ASSUME NEW p \in Runners, Commit(p) \/ CommitInDoubt(p) PROVE SafetyInv'
  BY <1>5, CommitTxnIsSafe DEF Commit, CommitInDoubt
<1>6. ASSUME NEW p \in Runners, Rollback(p) \/ AbortInDoubt(p) \/ Lose(p) PROVE SafetyInv'
  BY <1>6, RollbackIsSafe, LoseIsSafe
<1>7. ASSUME NEW p \in Runners,
             LookForRows(p) \/ QueueForTable(p) \/ LoseDeadlock(p) \/ AlterStatements(p)
      PROVE SafetyInv'
  BY <1>7, LookForRowsIsSafe, WaitIsSafe, AlterStatementsIsSafe
<1> QED
  BY StepsOfNext, <1>1, <1>2, <1>3, <1>4, <1>5, <1>6, <1>7

-----------------------------------------------------------------------------
\* The variables keep their types, and a run that is at a file has one.
THEOREM TypeIsInvariant == Spec => []TypeOK
<1>1. Init => TypeOK
  BY InitIsSafe
<1>2. TypeOK /\ [Next]_vars => TypeOK'
  BY TypeStep
<1> QED BY <1>1, <1>2, PTL DEF Spec

\* The invariant holds in every reachable state.
THEOREM SafetyIsInvariant == Spec => [](TypeOK /\ SafetyInv)
<1>1. Init => TypeOK /\ SafetyInv
  BY InitIsSafe
<1>2. TypeOK /\ SafetyInv /\ [Next]_vars => (TypeOK /\ SafetyInv)'
  BY TypeStep, SafetyStep
<1> QED BY <1>1, <1>2, PTL DEF Spec

\* No migration takes effect twice, however many runs overlap.
THEOREM MigrationsApplyOnce == Spec => []AppliedOnce
<1>1. TypeOK /\ SafetyInv => AppliedOnce
  BY DEF SafetyInv, AppliedIsRecorded, AppliedOnce
<1> QED BY <1>1, SafetyIsInvariant, PTL

\* schema_migrations says what the schema is, through every failure.
THEOREM MigrationsAreAtomic == Spec => []RecordedIsApplied
<1>1. TypeOK /\ SafetyInv => RecordedIsApplied
  BY DEF TypeOK, SafetyInv, AppliedIsRecorded, RecordedIsApplied
<1> QED BY <1>1, SafetyIsInvariant, PTL

\* A run that reports success has left the whole schema of its image.
THEOREM SuccessIsTrue == Spec => []DoneIsApplied
<1>1. TypeOK /\ SafetyInv => DoneIsApplied
  BY DEF SafetyInv
<1> QED BY <1>1, SafetyIsInvariant, PTL

\* No statement without metadata outlives the migration that requires it.
THEOREM MetadataStaysComplete == Spec => []MetadataIsComplete
<1>1. TypeOK /\ SafetyInv => MetadataIsComplete
  BY DEF SafetyInv, OldRowsAreBefore, MetadataIsComplete
<1> QED BY <1>1, SafetyIsInvariant, PTL
=============================================================================
