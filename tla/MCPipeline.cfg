SPECIFICATION Spec
CONSTANT MaxRuns = 7
INVARIANTS OneSeed NoMixture
\* All runs are over.
CHECK_DEADLOCK FALSE
