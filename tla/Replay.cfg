\* All proportions of environments, rollouts, intervals and chunks.
SPECIFICATION Spec
CONSTANTS
  Trainings <- Proportions
  ReportInterval = 3
  MaxChunks = 8
  NoRow = NoRow
INVARIANTS TypeOK BundleIsAccepted EveryRowIsInAFullChunk EvaluationsKeepPace
CHECK_DEADLOCK FALSE
