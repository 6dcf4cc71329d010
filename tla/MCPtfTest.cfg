CONSTANTS
    Tests <- MCRecordingTests

SPECIFICATION Spec

\* The test process exits after the runner has read its verdict.
CHECK_DEADLOCK FALSE

INVARIANT PassOrRaised
