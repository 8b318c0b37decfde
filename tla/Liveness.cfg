\* A polled submission terminates, and a stopped execution is reported.
SPECIFICATION LiveSpec
CONSTANTS
  Executions = {e1}
  NoExecution = NoExecution
  MaxAttempts = 1
  PersistAttempts = 1
  TotalSteps = 1
  Faults = {"request", "trainer", "run_job", "firestore", "long_traceback"}
  Submitters = {s1}
  Pollers = {g1}
  Cancellers = {c1}
  NoLease = NoLease
PROPERTIES EventuallyTerminal StoppedIsReported
