\* Three buffers, two holders; the uint8_t widths are scaled down to W and R.
SPECIFICATION Spec
CONSTANTS
    N = 3
    W = 5
    R = 8
    Holders = {h1, h2}
INVARIANTS
    TypeOK
    RefsAccounted
    FreeExactlyOnce
    SizeExact
PROPERTIES
    ImplementsPool
