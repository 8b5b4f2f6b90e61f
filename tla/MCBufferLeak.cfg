\* One link and two packets.
SPECIFICATION Spec
CONSTANTS
    MaxConn = 1
    Handles = {h1}
    NoHandle = none
    Txs = {t1}
    NoTx = noTx
    Pkts = 1
    Bufs = 2
    Backlog = 0
    MaxWire = 2
    MaxLinks = 1
    MaxSends = 2
INVARIANT EveryBufferReturned
CHECK_DEADLOCK FALSE
