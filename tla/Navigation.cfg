\* Worlds of four to twelve units, up to eight episodes and three steps of an episode.
SPECIFICATION Spec
CONSTANTS
  Names <- MCNames
  Bundles <- MCBundles
  BoundaryInset = 2
  Clearance = 1
  GridSize = 2
  MinValidPercent = 50
  ProbeStep = 3
  MaxChunkSteps = 8
INVARIANTS TypeOK RobotStaysClear GoalRewardIsSuccess EvaluationFitsItsChunk AcceptedIsTrainable
PROPERTY NothingIsDrivenThrough
