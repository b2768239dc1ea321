SPECIFICATION Spec
CONSTANT MaxRuns = 3
INVARIANT Replayed
CHECK_DEADLOCK FALSE
