--------------------------- MODULE SystemInvariant ---------------------------
(***************************************************************************)
(* Why the safety properties of StatementSystem hold: what is true between *)
(* any two steps about messages, jobs, transactions and rows together.     *)
(* None of AckOnlySettled, LinesOfOneAttempt, TerminalIsFinal and          *)
(* LeaseIsExclusive is inductive by itself; the conjunction below is, and  *)
(* implies or preserves each of them.                                      *)
(***************************************************************************)
EXTENDS StatementSystem

\* The claim was checked under the row lock and the outcome is still open.
SaveStates == {"checked", "written", "completed", "inDoubt"}

\* A message that was sent and a job that was received are about a statement,
\* and a job is about the statement of its message.
WorkIsBound ==
  /\ \A m \in Messages : message[m].place # "unsent" => message[m].stmt \in Statements
  /\ \A t \in Attempts : pc[t] # "unused" =>
       /\ Stmt(t) \in Statements
       /\ job[t].message \in Messages
       /\ message[job[t].message].place # "unsent"
       /\ message[job[t].message].stmt = Stmt(t)

\* Statements, or orphans of statements, have read the clock in the past.
ClockIsAhead ==
  /\ \A t \in Attempts : asOf[t] <= now
  /\ \A o \in orphans : o.at <= now

\* Whatever concerns a statement came after its INSERT.
RegisteredFirst ==
  /\ \A r \in Requests : phase[r] # "idle" => row[target[r]].status # "ABSENT"
  /\ \A m \in Messages :
       message[m].place # "unsent" => row[message[m].stmt].status # "ABSENT"

\* An attempt has no transaction before it begins to save, and only with lines.
SaveFollowsOcr ==
  \A t \in Attempts :
    /\ txn[t] # "none" => pc[t] \in {"saving", "rollback", "acking", "acked", "left"}
    /\ pc[t] = "saving" => result[t] # {}

\* Fencing: the claim an attempt found under the row lock is its own until its
\* transaction ends.
SaverHoldsClaim ==
  \A t \in Attempts : txn[t] \in SaveStates =>
    /\ lockedBy[Stmt(t)] = t
    /\ row[Stmt(t)].status = "PROCESSING"
    /\ row[Stmt(t)].token = t
    /\ result[t] # {}

\* The handler answers ACK when the statement is settled.
AckFollowsOutcome ==
  \A t \in Attempts : pc[t] = "acking" => row[Stmt(t)].status \in Terminal

\* The lines of a statement that is COMPLETED are those of a transaction that
\* committed; there are none before.
LinesFollowCommit ==
  \A s \in Statements :
    \/ row[s].status # "COMPLETED" /\ lines[s] = NoLines
    \/ /\ row[s].status = "COMPLETED"
       /\ \E t \in Attempts :
            /\ txn[t] = "committed"
            /\ result[t] # {}
            /\ lines[s] = [n \in LineNumbers |-> IF n \in result[t] THEN t ELSE NoAttempt]

\* Attempt t is the token of a row, or of a claim that may still reach one.
ClaimedBy(t) ==
  \/ \E s \in Statements : row[s].token = t
  \/ \E o \in orphans : o.op = "claim" /\ o.token = t

BeforeClaim == {"unused", "received", "claiming"}

\* A token is used for one claim only: the attempt that is to draw it, or waits
\* for its claim, is not known yet; one that gave up may claim once.
TokensAreNew ==
  /\ \A t \in Attempts : pc[t] \in BeforeClaim => ~ClaimedBy(t)
  /\ \A o \in orphans : o.op = "claim" =>
       /\ o.token \in Attempts
       /\ \A s \in Statements : row[s].token # o.token
       /\ \A p \in orphans : p.op = "claim" /\ p.token = o.token => p = o
  /\ \A s \in Statements : row[s].status = "ABSENT" => row[s].token = NoAttempt

SourceFailures == {"SOURCE_OBJECT_NOT_FOUND", "SOURCE_OBJECT_INVALID"}

\* HeadObject comes before everything that follows the upload, and an object
\* that nobody has changed since is the one it found.
CheckedFirst ==
  /\ \A s \in Statements :
       /\ row[s].status \notin {"ABSENT", "UPLOAD_PENDING"} => trust[s] # "unchecked"
       /\ trust[s] = "checked" => object[s] = "matching"
  /\ \A r \in Requests : phase[r] \notin {"idle", "heading"} => trust[target[r]] # "unchecked"
  /\ \A m \in Messages : message[m].place # "unsent" => trust[message[m].stmt] # "unchecked"
  /\ \A o \in orphans : o.op = "markUploaded" => trust[o.stmt] # "unchecked"

\* Who is about to record a failure of the image has met a changed one.
FailuresAreFound ==
  /\ \A t \in Attempts : pc[t] \in {"failing", "marking"} /\ verdict[t] \in SourceFailures
       => trust[Stmt(t)] = "changed"
  /\ \A o \in orphans : o.code \in SourceFailures => trust[o.stmt] = "changed"
  /\ SourceFailureNeedsChange

\* A statement may become QUEUED without its request only if it is known as
\* stranded.
QueueingIsKnown ==
  /\ \A o \in orphans : o.op = "markQueued" => o.stmt \in stranded
  /\ QueuedIsBacked

\* The inductive invariant.
SafetyInv ==
  /\ WorkIsBound
  /\ ClockIsAhead
  /\ RegisteredFirst
  /\ SaveFollowsOcr
  /\ SaverHoldsClaim
  /\ AckFollowsOutcome
  /\ LinesFollowCommit
  /\ AckOnlySettled
=============================================================================
