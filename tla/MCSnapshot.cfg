SPECIFICATION Spec
CONSTANTS
  Reaches = "task"
  MaxRuns = 2
INVARIANTS TypeOK SnapshotAtGate
PROPERTY ToldGoesOn
\* All runs are over.
CHECK_DEADLOCK FALSE
