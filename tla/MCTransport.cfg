\* One buffer in each pool, three packets of the controller and one of the host.
SPECIFICATION FairSpec
CONSTANTS
    PktLen <- MCPktLen
    TxLen <- MCTxLen
    Count <- MCCount
    Room <- MCRoom
    MaxRx = 3
    MaxTx = 1
INVARIANTS
    TypeOK
    FramesWhole
    OnlyReportsLost
    BuffersAccounted
PROPERTY EveryPacketEnds
CHECK_DEADLOCK FALSE
