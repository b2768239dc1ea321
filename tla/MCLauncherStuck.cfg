\* The claim that a launch reported warm has been released.
SPECIFICATION Spec
CONSTANTS
  Sites <- MCSites
  MaxLaunches = 2
INVARIANT WarmIsReleased
\* The last launch may be over, its process gone or running for ever.
CHECK_DEADLOCK FALSE
