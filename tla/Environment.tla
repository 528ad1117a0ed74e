---------------------------- MODULE Environment ----------------------------
(***************************************************************************)
(* What every part of the system shares and none of it controls: the       *)
(* statement ids, the clock and the failures.                              *)
(*                                                                         *)
(* There is one clock.  PostgreSQL reads it as NOW() to grant and to test  *)
(* a lease, SQS reads it to make an undeleted message visible again.       *)
(*                                                                         *)
(* A failure is a lost connection, a timeout, an aborted call or a killed  *)
(* process.  The actions that fail call `Fault`, which counts them.        *)
(***************************************************************************)
EXTENDS Naturals

CONSTANTS
  Statements,  \* statement ids
  MaxTime,     \* bound: the clock stops here
  MaxFaults    \* bound: the number of failures of a behaviour

ASSUME BoundsAssumption == MaxTime \in Nat /\ MaxFaults \in Nat

VARIABLES
  now,         \* the time
  faults       \* the failures so far

envVars == <<now, faults>>

EnvTypeOK == now \in Nat /\ faults \in 0..MaxFaults

EnvInit == now = 0 /\ faults = 0

\* One more failure.
Fault ==
  /\ faults < MaxFaults
  /\ faults' = faults + 1
  /\ now' = now

\* Time passes.  The specifications add when it is worth letting it pass.
Advance ==
  /\ now < MaxTime
  /\ now' = now + 1
  /\ faults' = faults
=============================================================================
