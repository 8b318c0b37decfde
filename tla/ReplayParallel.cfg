\* Two environments, otherwise aligned.
SPECIFICATION Spec
CONSTANTS
  Trainings <- Parallel
  ReportInterval = 3
  MaxChunks = 40
  NoRow = NoRow
INVARIANTS RangesMatchRows
CHECK_DEADLOCK FALSE
