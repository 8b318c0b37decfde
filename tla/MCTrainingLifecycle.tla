-------------------------- MODULE MCTrainingLifecycle --------------------------
(* Instances of TrainingLifecycle for TLC.                                  *)
EXTENDS TrainingLifecycle, TLC

\* Execution names are interchangeable, and so are the requests of one kind.
Symmetry ==
  Permutations(Executions) \union Permutations(Submitters)
    \union Permutations(Pollers) \union Permutations(Cancellers)
==============================================================================
