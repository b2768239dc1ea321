SPECIFICATION Spec
CONSTANTS
  Timeout = 5
  PollCap = 3
  MaxOther = 2
  MaxLag = 4
INVARIANTS SeenMeansCreated InTime MissOnlyInWindow
PROPERTY Ends
\* Once the wait is over nothing is left to do.
CHECK_DEADLOCK FALSE
