\* Delays 0 (K_NO_WAIT), 1 and 2; deadlines stay below W / 2.
SPECIFICATION Spec
CONSTANTS
    Works = {w1, w2}
    Timers = {t1}
    NoItem = none
    Delays = {0, 1, 2}
    W = 16
    MaxNow = 4
    MaxCalls = 2
SYMMETRY ItemSymmetry
INVARIANTS
    TypeOK
    SortedByDeadline
    TimersFollowStartStop
PROPERTIES
    NeverEarlyNorOvertaken
    PollingDrains
    SubmissionOrder
