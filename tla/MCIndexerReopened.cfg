\* One restart, then blocks past the next breakpoint.
SPECIFICATION Spec
CONSTANTS
    BREAKPOINT_INTERVAL = 2
    SlotContents <- MCSingleBlocks
    BridgeFunds = 5
    MaxBlocks = 5
    MaxNoise = 0
    MaxRestarts = 1
INVARIANT HealthcheckAnswers
\* A process that cannot open its database stays down.
CHECK_DEADLOCK FALSE
