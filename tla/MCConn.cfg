\* Two slots and two handles, two links one after the other or at once; one event is
\* received per turn of the main loop, as in every port.
SPECIFICATION Spec
CONSTANTS
    MaxConn = 2
    Handles = {h1, h2}
    NoHandle = none
    Txs = {t1}
    NoTx = noTx
    Pkts = 1
    Bufs = 2
    Backlog = 0
    MaxWire = 1
    MaxLinks = 2
    MaxSends = 2
SYMMETRY Symmetry
INVARIANTS
    TypeOK
    TxContextsAccounted
    RefsMatchHolders
    FreeSlotIsIdle
    PendingMirrorsSent
    CreditsNeverLost
CHECK_DEADLOCK FALSE
