\* Three attempts of a task leave what they leave in the bucket.
SPECIFICATION Spec
CONSTANTS
  Chunks = {c1, c2}
  Versions = {v1, v2}
  MaxAttempts = 3
  Absent = Absent
INVARIANTS TypeOK ManifestIsComplete RecordedIsThere
PROPERTIES ObjectsAreImmutable
CHECK_DEADLOCK FALSE
