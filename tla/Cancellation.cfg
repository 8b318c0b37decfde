\* Two cancelling requests contend for the lease.
SPECIFICATION Spec
CONSTANTS
  Executions = {e1, e2}
  NoExecution = NoExecution
  MaxAttempts = 1
  PersistAttempts = 1
  TotalSteps = 1
  Faults = {"request", "cancel"}
  Submitters = {s1}
  Pollers = {}
  Cancellers = {c1, c2}
  NoLease = NoLease
SYMMETRY Symmetry
INVARIANTS CancelledMeansStopped RequestedWasAccepted
PROPERTIES LeaseIsFenced
