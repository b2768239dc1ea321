\* The claim that the fallback always has a bundle to run.
SPECIFICATION Spec
CONSTANTS
  Sites <- MCSites
  MaxLaunches = 2
INVARIANT FallbackHasBundle
\* The last launch may be over, its process gone or running for ever.
CHECK_DEADLOCK FALSE
