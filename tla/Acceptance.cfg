\* Three requests about one key: repeated, conflicting, polling and cancelling.
SPECIFICATION Spec
CONSTANTS
  Requests = {r1, r2, r3}
  Keys = {k1}
  Scenarios = {s1, s2, s3}
  Tokens = {t1, t2}
  NoRoom = {s3}
  TransactionAttempts = 2
  Faults = {"request", "firestore", "contention", "lost_commit"}
  None = None
SYMMETRY Symmetry
INVARIANTS TypeOK AcceptedIsBound RunsOnceUnlessCancelled
PROPERTIES OnlyTheTokenCancels KeepsPromise
