SPECIFICATION Spec
CONSTANTS
  Files <- MCFiles
  Dirs <- MCDirs
  DirOf <- MCDirOf
  QueueMax = 2
  MaxOpens = 4
INVARIANTS TypeOK OrderOfOpens TracedOpens EachOnce
PROPERTY RecordEnds
\* The recording is over.
CHECK_DEADLOCK FALSE
