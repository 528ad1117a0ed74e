------------------------------ MODULE MCInsights ------------------------------
(***************************************************************************)
(* Model checking of MonthlyInsights.                                      *)
(***************************************************************************)
EXTENDS MonthlyInsights, TLC

\* The values of each of these sets are interchangeable.
Symmetry == Permutations(Requests) \union Permutations(Servers) \union Permutations(Profiles)
=============================================================================
