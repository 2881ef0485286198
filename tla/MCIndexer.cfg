\* Five blocks and two breakpoints; the process is killed twice.
SPECIFICATION Spec
CONSTANTS
    BREAKPOINT_INTERVAL = 2
    SlotContents <- MCSlotContents
    BridgeFunds = 3
    MaxBlocks = 5
    MaxNoise = 1
    MaxRestarts = 2
INVARIANTS
    TypeOK
    NoBlockIsSkipped
    AnswersAreHistory
    CalculableUntilReopened
    CurrentIsFinal
\* A process that cannot open its database stays down.
CHECK_DEADLOCK FALSE
