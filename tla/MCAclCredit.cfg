\* One link, two packets and a controller with one buffer.
SPECIFICATION Spec
CONSTANTS
    MaxConn = 1
    Handles = {h1}
    NoHandle = none
    Txs = {t1}
    NoTx = noTx
    Pkts = 1
    Bufs = 2
    Backlog = 0
    MaxWire = 2
    MaxLinks = 1
    MaxSends = 2
INVARIANT FreeControllerBuffers
CHECK_DEADLOCK FALSE
