SPECIFICATION Spec
CONSTANTS
  Sites <- MCSites
  MaxLaunches = 2
INVARIANTS AtMostOneStart SettledIsReleased ColdIsNotGated
PROPERTIES ResumesOwnProcess KeepsPromise LaunchServes
\* The last launch may be over, its process gone or running for ever.
CHECK_DEADLOCK FALSE
