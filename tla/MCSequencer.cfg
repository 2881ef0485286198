\* Two deposits and two faults: a checkpoint that is not saved and a crash have
\* what was handled reported again.
CONSTANTS
    w1 = w1
    d1 = d1
    d2 = d2
    None = None
    UserTxs = {}
    Withdrawals = {}
    Deposits = {d1, d2}
    Undecodable = {}
    BridgeFunds = 2
    Size <- MCSize
    MaxBlockSize = 1000
    HeaderSize = 52
    ClockSize = 153
    BLOCK_HEADER_OVERHEAD = 200
    MaxTxsInBlock = 2
    MempoolSize = 1
    PUBLISH_INBOX_CAPACITY = 1
    MaxBlocks = 6
    MaxIdleBlocks = 1
    MaxSends = 0
    MaxFaults = 2
SPECIFICATION Spec
SYMMETRY Interchangeable
INVARIANTS
    DatabaseIsAChain
    DepositsAreMintedOnce
    RecordsOutliveTheirBlock
    RecordedAreQueued
\* The bound on blocks ends every behaviour.
CHECK_DEADLOCK FALSE
