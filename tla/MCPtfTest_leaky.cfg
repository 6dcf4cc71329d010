CONSTANTS
    Tests <- MCLeakyTests

SPECIFICATION Spec

\* The test process exits after the runner has read its verdict.
CHECK_DEADLOCK FALSE

INVARIANT PassMeansAllChecksPassed
