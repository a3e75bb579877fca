-------------------------- MODULE MCAnalysisService --------------------------
(***************************************************************************)
(* Instances of AnalysisService, with its mapping to AnalysisLedger, for   *)
(* TLC.                                                                    *)
(***************************************************************************)
EXTENDS AnalysisRefinement, TLC

CONSTANTS h1, h2, h3, w1, w2, j1, j2, j3, k1, k2, good, bad, junk

MCOutcome == [p \in Payloads |-> CASE p = good -> "ok"
                                     [] p = bad  -> "malformed_dataset"
                                     [] p = junk -> "rejected"]

Symmetry == Permutations(Handlers) \cup Permutations(JobIDs)
=============================================================================
