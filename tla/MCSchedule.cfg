\* k_work_schedule alone, against the comment at its call in gatt.c.
SPECIFICATION ScheduleSpec
CONSTANTS
    Works = {w1, w2}
    Timers = {t1}
    NoItem = none
    Delays = {0, 1, 2}
    W = 16
    MaxNow = 4
    MaxCalls = 2
PROPERTIES
    ScheduleKeepsDeadline
