SPECIFICATION Spec
CONSTANTS
  Timeout = 2
  PollCap = 2
  MaxLag = 2
  MaxBuilds = 2
INVARIANTS TypeOK SnapshotAtGate NothingLeft
PROPERTY BuildEnds
\* All builds are over.
CHECK_DEADLOCK FALSE
