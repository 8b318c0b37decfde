\* The rollout does not divide timesteps.
SPECIFICATION Spec
CONSTANTS
  Trainings <- Overshooting
  ReportInterval = 3
  MaxChunks = 40
  NoRow = NoRow
INVARIANTS CheckpointsWithinTotal
CHECK_DEADLOCK FALSE
