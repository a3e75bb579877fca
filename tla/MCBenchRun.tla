----------------------------- MODULE MCBenchRun -----------------------------
(***************************************************************************)
(* Instances of BenchRun for TLC: every pair of declared controls from a   *)
(* small set, symmetric or not, supported by the host or not.              *)
(***************************************************************************)
EXTENDS BenchRun

Declared(warmups, measures, postures, limits) ==
  [warmup : warmups, measured : measures, posture : postures,
   concurrency : limits, maxProcs : limits]

\* What both sides may agree on, and what only one of them declares.
Agreed == {[s \in Sides |-> c] :
             c \in Declared(0..1, 0..2, {"cold", "other", ""}, 0..2)}
Disagreed == [Sides -> Declared({1}, 1..2, {"cold", "warm"}, 1..2)]

MCScenarios == Agreed \cup Disagreed
=============================================================================
