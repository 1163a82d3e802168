------------------------ MODULE ResearchRefinement ------------------------
(***************************************************************************)
(* Research seen as a TrainingBatch: a batch is under way while the caller *)
(* is inside search's loop, and what has been processed is numProcessed.   *)
(***************************************************************************)
EXTENDS Research

Batch == INSTANCE TrainingBatch WITH
           training  <- pc \in Searching,
           requested <- maxIterations,
           done      <- numProcessed,
           open      <- consumeRunning
=============================================================================
