\* Two commands on their way at once share cmd_data_new.
SPECIFICATION Spec
CONSTANTS
    Flags = {"ADV", "SCAN"}
    Plain = "LE_SET_ADV_DATA"
    Prng = TRUE
    MaxInFlight = 2
    MaxAppCmds = 2
CHECK_DEADLOCK FALSE
INVARIANTS
    FlagsFollowController
