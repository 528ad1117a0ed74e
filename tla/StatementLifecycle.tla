------------------------- MODULE StatementLifecycle -------------------------
(***************************************************************************)
(* What the system promises about a statement, with no message, lease,     *)
(* transaction or request in sight: its status moves along one path, one   *)
(* attempt at a time holds it while it is processed, and the result of the *)
(* holder becomes visible as a whole, once, together with COMPLETED.       *)
(* StatementSystem implements it.                                          *)
(***************************************************************************)
EXTENDS Naturals

CONSTANTS Statements, LineNumbers, Attempts, NoAttempt

VARIABLES
  status,   \* status[s]: how far statement s has come
  holder,   \* holder[s]: the attempt that processes it
  outcome   \* outcome[s][n]: the attempt that recognised line n, once visible

vars == <<status, holder, outcome>>

NoOutcome == [n \in LineNumbers |-> NoAttempt]

Init ==
  /\ status = [s \in Statements |-> "ABSENT"]
  /\ holder = [s \in Statements |-> NoAttempt]
  /\ outcome = [s \in Statements |-> NoOutcome]

\* A step of the status that concerns nobody's work.
Move(s, from, to) ==
  /\ status[s] = from
  /\ status' = [status EXCEPT ![s] = to]
  /\ UNCHANGED <<holder, outcome>>

Register(s) == Move(s, "ABSENT", "UPLOAD_PENDING")
Upload(s)   == Move(s, "UPLOAD_PENDING", "UPLOADED")
Enqueue(s)  == Move(s, "UPLOADED", "QUEUED")
Withdraw(s) == Move(s, "QUEUED", "UPLOADED")

\* An attempt takes the statement, or takes it over from another one.
Claim(s, t) ==
  /\ status[s] \in {"QUEUED", "PROCESSING"}
  /\ \A u \in Statements : holder[u] # t
  /\ status' = [status EXCEPT ![s] = "PROCESSING"]
  /\ holder' = [holder EXCEPT ![s] = t]
  /\ UNCHANGED outcome

\* The holder gives it up, with its result or with none.
Finish(s, to, recognised) ==
  /\ status[s] = "PROCESSING"
  /\ status' = [status EXCEPT ![s] = to]
  /\ holder' = [holder EXCEPT ![s] = NoAttempt]
  /\ outcome' = [outcome EXCEPT ![s] =
       [n \in LineNumbers |-> IF n \in recognised THEN holder[s] ELSE NoAttempt]]

Complete(s) == \E recognised \in (SUBSET LineNumbers) \ {{}} :
                 Finish(s, "COMPLETED", recognised)

Fail(s) == Finish(s, "FAILED", {})

Next ==
  \E s \in Statements :
    \/ Register(s) \/ Upload(s) \/ Enqueue(s) \/ Withdraw(s)
    \/ \E t \in Attempts : Claim(s, t)
    \/ Complete(s) \/ Fail(s)

Spec == Init /\ [][Next]_vars
=============================================================================
