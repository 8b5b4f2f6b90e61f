\* Start-up with every chipset phase and feature, then commands one at a time.
SPECIFICATION Spec
CONSTANTS
    Flags = {"ADV", "SCAN"}
    Plain = "LE_SET_ADV_DATA"
    Prng = TRUE
    MaxInFlight = 1
    MaxAppCmds = 3
CHECK_DEADLOCK FALSE
INVARIANTS
    TypeOK
    ReadyMeansConfigured
    FlagsFollowController
PROPERTIES
    EventuallyReady
