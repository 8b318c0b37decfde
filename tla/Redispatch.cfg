\* Without any failure, only slowness.
SPECIFICATION Spec
CONSTANTS
  Executions = {e1}
  NoExecution = NoExecution
  MaxAttempts = 1
  PersistAttempts = 1
  TotalSteps = 1
  Faults = {}
  Submitters = {s1}
  Pollers = {}
  Cancellers = {c1, c2}
  NoLease = NoLease
PROPERTIES NoCallAfterAnOperation
