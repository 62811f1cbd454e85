------------------------------ MODULE MCMetrics ------------------------------
(***************************************************************************)
(* A small instance of Metrics: two callers that run jobs, either of which *)
(* may call JobFinished once more, one scraper, durations of either sign.  *)
(***************************************************************************)
EXTENDS Metrics, TLC

MCDurations == {-1, 1}
CallerSymmetry == Permutations(Callers)
=============================================================================
