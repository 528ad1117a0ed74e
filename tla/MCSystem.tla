------------------------------ MODULE MCSystem ------------------------------
(***************************************************************************)
(* Model checking of StatementSystem.                                      *)
(***************************************************************************)
EXTENDS SystemInvariant, TLC

\* The values of each of these sets are interchangeable.
Symmetry ==
  Permutations(Statements) \union Permutations(Attempts) \union Permutations(Messages)
    \union Permutations(Requests) \union Permutations(LineNumbers)

\* The system just after a first analyze request, its clients gone: every
\* statement is queued with one message; its image may have changed since it
\* was checked.  The runs that are about the workers start here and spend
\* their states on them.
QueuedInit ==
  /\ EnvInit
  /\ row = [s \in Statements |-> [NoRow EXCEPT !.status = "QUEUED"]]
  /\ lines = [s \in Statements |-> NoLines]
  /\ lockedBy = [s \in Statements |-> NoAttempt]
  /\ orphans = {}
  /\ \E first \in [Statements -> Messages] :
       /\ \A s, u \in Statements : first[s] = first[u] => s = u
       /\ message = [m \in Messages |->
            IF \E s \in Statements : first[s] = m
            THEN [NotSent EXCEPT !.place = "queue",
                                 !.stmt = CHOOSE s \in Statements : first[s] = m]
            ELSE NotSent]
  /\ object \in [Statements -> Objects]
  /\ trust = [s \in Statements |-> IF object[s] = "matching" THEN "checked" ELSE "changed"]
  /\ JobInit
  /\ ApiInit

QueuedSpec == QueuedInit /\ [][Backend]_vars

\* Just before that: every statement is uploaded and an analyze request has
\* read it.
RequestedInit ==
  /\ EnvInit
  /\ row = [s \in Statements |-> [NoRow EXCEPT !.status = "UPLOADED"]]
  /\ lines = [s \in Statements |-> NoLines]
  /\ lockedBy = [s \in Statements |-> NoAttempt]
  /\ orphans = {}
  /\ QueueInit
  /\ object \in [Statements -> Objects]
  /\ trust = [s \in Statements |-> IF object[s] = "matching" THEN "checked" ELSE "changed"]
  /\ JobInit
  /\ phase = [r \in Requests |-> "queueing"]
  /\ target \in [Requests -> Statements]
  /\ stranded = {}

RequestedFairSpec == RequestedInit /\ [][Backend]_vars /\ Fairness
=============================================================================
