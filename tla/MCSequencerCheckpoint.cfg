\* A crash between the checkpoint and a deposit.
CONSTANTS
    w1 = w1
    d1 = d1
    d2 = d2
    None = None
    UserTxs = {}
    Withdrawals = {}
    Deposits = {d1}
    Undecodable = {}
    BridgeFunds = 2
    Size <- MCSize
    MaxBlockSize = 1000
    HeaderSize = 52
    ClockSize = 153
    BLOCK_HEADER_OVERHEAD = 200
    MaxTxsInBlock = 2
    MempoolSize = 1
    PUBLISH_INBOX_CAPACITY = 1
    MaxBlocks = 3
    MaxIdleBlocks = 2
    MaxSends = 0
    MaxFaults = 1
SPECIFICATION Spec
INVARIANT
    ObservedAreRecorded
CHECK_DEADLOCK FALSE
