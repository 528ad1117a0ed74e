------------------------------ MODULE JobQueue ------------------------------
(***************************************************************************)
(* The SQS queue of analyze jobs, its dead-letter queue, and the calls of  *)
(* src/queue/sqs-job-queue.ts.                                             *)
(*                                                                         *)
(* SQS itself is external: it is modelled as the settings of               *)
(* infra/lib/messaging-stack.ts and the calls of the adapter use it.  A    *)
(* received message stays in the queue, invisible for VisibilityTime, and  *)
(* is delivered again unless it was deleted; a message received MaxReceive *)
(* times goes to the dead-letter queue instead; delivery is at least once, *)
(* so an invisible message may be delivered too; and a message nobody      *)
(* receives is dropped at the end of the retention period.                 *)
(***************************************************************************)
EXTENDS Environment

CONSTANTS
  NoStatement,     \* the body of a message not sent yet
  Messages,        \* message ids; bound: the number of messages ever sent
  VisibilityTime,  \* visibilityTimeout
  MaxReceive       \* maxReceiveCount

ASSUME QueueAssumption ==
  /\ NoStatement \notin Statements
  /\ VisibilityTime \in Nat \ {0}
  /\ MaxReceive \in Nat \ {0}

VARIABLE message   \* message[m]: what the service knows of message m

Places == {"unsent", "queue", "deadLetter", "expired", "deleted"}

NotSent == [place |-> "unsent", stmt |-> NoStatement, visibleAt |-> 0, receives |-> 0]

QueueTypeOK ==
  message \in [Messages ->
    [place: Places, stmt: Statements \union {NoStatement},
     visibleAt: Nat, receives: 0..MaxReceive]]

QueueInit == message = [m \in Messages |-> NotSent]

Visible(m) == message[m].place = "queue" /\ message[m].visibleAt <= now

\* sendAnalyzeJob.
SendAnalyzeJob(m, s) ==
  /\ message[m].place = "unsent"
  /\ message' = [message EXCEPT ![m] =
       [place |-> "queue", stmt |-> s, visibleAt |-> now, receives |-> 0]]

\* receiveOne: the message is hidden and its receive count goes up.
Deliver(m) ==
  /\ message[m].receives < MaxReceive
  /\ message' = [message EXCEPT ![m] =
       [place |-> "queue", stmt |-> @.stmt,
        visibleAt |-> now + VisibilityTime, receives |-> @.receives + 1]]

\* deleteMessage with the receipt handle of a delivery.  The handle of an
\* earlier delivery is accepted, but may leave the message in the queue.
DeleteMessage(m, receipt) ==
  \/ message' = [message EXCEPT ![m].place = IF @ = "queue" THEN "deleted" ELSE @]
  \/ receipt # message[m].receives /\ UNCHANGED message

\* Mutant of MoveToDeadLetter: one delivery too late.
MoveToDeadLetterLate(m) ==
  /\ Visible(m)
  /\ message[m].receives > MaxReceive
  /\ message' = [message EXCEPT ![m].place = "deadLetter"]

\* The redrive policy.
MoveToDeadLetter(m) ==
  /\ Visible(m)
  /\ message[m].receives = MaxReceive
  /\ message' = [message EXCEPT ![m].place = "deadLetter"]

\* The retention period ends.
Expire(m) ==
  /\ message[m].place = "queue"
  /\ message' = [message EXCEPT ![m].place = "expired"]

\* The message still exists, or the service and not a worker disposed of it.
Kept(m) == message[m].place \in {"queue", "deadLetter", "expired"}
=============================================================================
