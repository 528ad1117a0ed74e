------------------------------ MODULE MCWorker ------------------------------
(***************************************************************************)
(* Model checking of AnalyzeWorker.                                        *)
(***************************************************************************)
EXTENDS AnalyzeWorker
=============================================================================
