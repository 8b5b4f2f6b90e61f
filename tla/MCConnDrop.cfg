\* Two slots for two links with one handle.
SPECIFICATION FairSpec
CONSTANTS
    MaxConn = 2
    Handles = {h1}
    NoHandle = none
    Txs = {t1}
    NoTx = noTx
    Pkts = 1
    Bufs = 1
    Backlog = 0
    MaxWire = 1
    MaxLinks = 2
    MaxSends = 1
PROPERTY DropIsReported
CHECK_DEADLOCK FALSE
