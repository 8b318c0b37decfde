\* Training raises; nothing else fails.
SPECIFICATION Spec
CONSTANTS
  Executions = {e1}
  NoExecution = NoExecution
  MaxAttempts = 1
  PersistAttempts = 1
  TotalSteps = 1
  Faults = {"long_traceback"}
  Submitters = {s1}
  Pollers = {g1}
  Cancellers = {}
  NoLease = NoLease
PROPERTIES FailedTrainingHasItsBundle
