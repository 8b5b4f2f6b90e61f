\* Two links with one handle, without any packet.
SPECIFICATION Spec
CONSTANTS
    MaxConn = 1
    Handles = {h1}
    NoHandle = none
    Txs = {t1}
    NoTx = noTx
    Pkts = 1
    Bufs = 1
    Backlog = 0
    MaxWire = 2
    MaxLinks = 2
    MaxSends = 0
INVARIANT DeadOnlyIfDropped
CHECK_DEADLOCK FALSE
