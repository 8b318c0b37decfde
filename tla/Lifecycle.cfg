\* The dispatch, its trainer and its retried task fail at every step.
SPECIFICATION Spec
CONSTANTS
  Executions = {e1, e2}
  NoExecution = NoExecution
  MaxAttempts = 2
  PersistAttempts = 2
  TotalSteps = 2
  Faults = {"request", "firestore", "trainer", "publish", "long_traceback", "run_job"}
  Submitters = {s1}
  Pollers = {g1}
  Cancellers = {c1}
  NoLease = NoLease
SYMMETRY Symmetry
INVARIANTS TypeOK OneExecution DocumentsAgree OnlyTheNamedExecutionTrains NothingTrainsForAClosedResult
PROPERTIES TerminalIsFinal ProgressNeverRollsBack KeepsPromise
