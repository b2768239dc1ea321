\* The claim that a timeout means there was no token.
SPECIFICATION Spec
CONSTANTS
  Timeout = 5
  PollCap = 3
  MaxOther = 2
  MaxLag = 0
INVARIANT NoTokenMissed
CHECK_DEADLOCK FALSE
