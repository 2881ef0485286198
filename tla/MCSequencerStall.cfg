\* Senders ahead of the drive task, and no fault.
CONSTANTS
    w1 = w1
    d1 = d1
    d2 = d2
    None = None
    UserTxs = {w1}
    Withdrawals = {w1}
    Deposits = {d1}
    Undecodable = {}
    BridgeFunds = 2
    Size <- MCSize
    MaxBlockSize = 1000
    HeaderSize = 52
    ClockSize = 153
    BLOCK_HEADER_OVERHEAD = 200
    MaxTxsInBlock = 2
    MempoolSize = 1
    PUBLISH_INBOX_CAPACITY = 1
    MaxBlocks = 6
    MaxIdleBlocks = 1
    MaxSends = 2
    MaxFaults = 0
SPECIFICATION FairSpec
PROPERTY
    BuiltAreStored
CHECK_DEADLOCK FALSE
