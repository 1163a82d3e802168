----------------------------- MODULE MCResearch -----------------------------
(***************************************************************************)
(* Small instances of Research for TLC: two consumers, one agent, batches  *)
(* of up to three iterations, rounds due at every second iteration.        *)
(***************************************************************************)
EXTENDS ResearchRefinement

\* The abstract specification, as the cfg names it.
BatchSpec == Batch!Spec
=============================================================================
