------------------------------ MODULE Timeouts -------------------------------
(***************************************************************************)
(* The timeout list of src/src/common/timeout.c and its two users: work    *)
(* items (work.h) and timers (timer.c).  Everything the host defers runs   *)
(* from here: timeout_polling_work takes the expired items off the head of *)
(* the list and calls their handlers, which may submit, reschedule, cancel *)
(* or restart any item, their own included.                                *)
(*                                                                         *)
(* A deadline is an int32_t built from the uint32_t tick counter; W is the *)
(* number of values of those types.  `now` and `due` keep the real time,   *)
(* which the code does not have, to say what it should do.                 *)
(***************************************************************************)
EXTENDS Integers, Sequences, SequencesExt

CONSTANTS
    Works,      \* struct k_work and struct k_work_delayable
    Timers,     \* struct k_timer
    NoItem,     \* not an item: no handler is running
    Delays,     \* delays a caller asks for, in ticks; 0 is K_NO_WAIT
    W,          \* 2^32 in the code
    MaxNow,     \* bound: the last tick a run looks at
    MaxCalls    \* bound: calls between two steps of the polling loop

Items == Works \cup Timers

ASSUME TimeoutsAssumption ==
    /\ Works \cap Timers = {}
    /\ NoItem \notin Items
    /\ W \in Nat /\ W % 2 = 0 /\ W > 0
    /\ 0 \in Delays /\ Delays \subseteq 0 .. (W \div 2 - 1)
    /\ MaxNow \in Nat /\ MaxCalls \in Nat

VARIABLES
    list,       \* timeout_list, head first
    dticks,     \* to->dticks as stored: the deadline modulo W
    period,     \* timer->period
    polling,    \* timeout_polling_work is running
    running,    \* the item whose handler it is calling
    now,        \* real time; curr_tick is now % W
    due,        \* the real time each item was last asked to fire at
    active,     \* timers started and neither stopped nor expired for good
    calls       \* calls made since the last step of the polling loop

vars == <<list, dticks, period, polling, running, now, due, active, calls>>

CurrTick == now % W                                 \* sys_clock_tick_get
Signed(x) == IF x >= W \div 2 THEN x - W ELSE x     \* an int32_t from its bits

Armed == ToSet(list)

\* A handler, or the rest of the main loop, can call the API.
Caller == (running # NoItem \/ ~ polling) /\ calls < MaxCalls

-----------------------------------------------------------------------------
(* Wrong variants of the code, each of which breaks a property of this module. *)

\* `>=` in the search of z_add_timeout: among equal deadlines, the last comes first.
SortInLifo(l, d, i) ==
    LET k == SelectInSeq(l, LAMBDA t : Signed(d[t]) >= Signed(d[i]))
    IN  IF k = 0 THEN Append(l, i) ELSE InsertAt(l, k, i)

\* z_add_timeout that appends without a search.
SortInAtTail(l, d, i) == Append(l, i)

\* `<` for `<=` in the polling loop.
HeadExpiredStrict == list # <<>> /\ dticks[Head(list)] < CurrTick

\* The polling loop takes whatever is first.
HeadExpiredAlways == list # <<>>

\* k_timer_stop that does not abort the timeout.
TimerStopLinked(t) ==
    /\ Caller
    /\ active' = active \ {t}
    /\ calls' = calls + 1
    /\ UNCHANGED <<list, dticks, period, polling, running, now, due>>

\* k_timer_start that shortens the period by a tick without looking at zero.
TimerStartShort(t, delay, p) ==
    /\ Caller
    /\ dticks' = [dticks EXCEPT ![t] = (CurrTick + delay) % W]
    /\ list' = SortInLifo(RemoveFirst(list, t), dticks', t)
    /\ due' = [due EXCEPT ![t] = now + delay]
    /\ period' = [period EXCEPT ![t] = p - 1]
    /\ active' = active \cup {t}
    /\ calls' = calls + 1
    /\ UNCHANGED <<polling, running, now>>

-----------------------------------------------------------------------------
\* `first() != NULL && first()->dticks <= sys_clock_tick_get()`, compared unsigned.
HeadExpired == list # <<>> /\ dticks[Head(list)] <= CurrTick

\* z_abort_timeout of item i: off the list if it is linked.
Abort(l, i) == RemoveFirst(l, i)

\* z_add_timeout: before the first item with a later deadline, compared as int32_t.
SortIn(l, d, i) ==
    LET k == SelectInSeq(l, LAMBDA t : Signed(d[t]) > Signed(d[i]))
    IN  IF k = 0 THEN Append(l, i) ELSE InsertAt(l, k, i)

\* z_abort_timeout, then z_add_timeout with the given delay.
Rearm(i, delay) ==
    /\ dticks' = [dticks EXCEPT ![i] = (CurrTick + delay) % W]
    /\ list' = SortIn(Abort(list, i), dticks', i)
    /\ due' = [due EXCEPT ![i] = now + delay]

Init ==
    /\ list = <<>>
    /\ dticks = [i \in Items |-> 0]
    /\ due = [i \in Items |-> 0]
    /\ period = [t \in Timers |-> 0]
    /\ active = {}
    /\ polling = FALSE
    /\ running = NoItem
    /\ now = 0
    /\ calls = 0

\* sys_clock_announce, from the tick source of the platform, at any moment.
Announce ==
    /\ now < MaxNow
    /\ now' = now + 1
    /\ UNCHANGED <<list, dticks, period, polling, running, due, active, calls>>

\* The main loop calls timeout_polling_work.
StartPolling ==
    /\ ~ polling
    /\ polling' = TRUE
    /\ UNCHANGED <<list, dticks, period, running, now, due, active, calls>>

\* The loop takes the first item off the list and calls z_work_expiration_handler.
FireWork ==
    /\ polling /\ running = NoItem
    /\ HeadExpired
    /\ Head(list) \in Works
    /\ list' = Tail(list)
    /\ running' = Head(list)
    /\ calls' = 0
    /\ UNCHANGED <<dticks, period, polling, now, due, active>>

\* ... or z_timer_expiration_handler, which restarts a periodic timer before it calls
\* the expiry function, so that the function can stop the timer.
FireTimer ==
    LET t == Head(list) IN
    /\ polling /\ running = NoItem
    /\ HeadExpired
    /\ t \in Timers
    /\ running' = t
    /\ calls' = 0
    /\ IF period[t] # 0
       THEN /\ dticks' = [dticks EXCEPT ![t] = (CurrTick + period[t]) % W]
            /\ list' = SortIn(Tail(list), dticks', t)
            /\ due' = [due EXCEPT ![t] = now + period[t]]
            /\ UNCHANGED active
       ELSE /\ list' = Tail(list)
            /\ active' = active \ {t}
            /\ UNCHANGED <<dticks, due>>
    /\ UNCHANGED <<period, polling, now>>

HandlerReturns ==
    /\ running # NoItem
    /\ running' = NoItem
    /\ UNCHANGED <<list, dticks, period, polling, now, due, active, calls>>

\* timeout_polling_work returns to the main loop.
StopPolling ==
    /\ polling /\ running = NoItem
    /\ ~ HeadExpired
    /\ polling' = FALSE
    /\ calls' = 0
    /\ UNCHANGED <<list, dticks, period, running, now, due, active>>

\* k_work_reschedule, and k_work_submit with delay 0.
Reschedule(i, delay) ==
    /\ Caller
    /\ Rearm(i, delay)
    /\ calls' = calls + 1
    /\ UNCHANGED <<period, polling, running, now, active>>

\* k_work_schedule has no code of its own.
Schedule(i, delay) == Reschedule(i, delay)

\* k_work_cancel, k_work_cancel_delayable
CancelWork(i) ==
    /\ Caller
    /\ list' = Abort(list, i)
    /\ calls' = calls + 1
    /\ UNCHANGED <<dticks, period, polling, running, now, due, active>>

TimerStart(t, delay, p) ==
    /\ Caller
    /\ Rearm(t, delay)
    /\ period' = [period EXCEPT ![t] = p]
    /\ active' = active \cup {t}
    /\ calls' = calls + 1
    /\ UNCHANGED <<polling, running, now>>

\* k_timer_stop; the stop function it may call is the application's.
TimerStop(t) ==
    /\ Caller
    /\ list' = Abort(list, t)
    /\ active' = active \ {t}
    /\ calls' = calls + 1
    /\ UNCHANGED <<dticks, period, polling, running, now, due>>

Next ==
    \/ Announce
    \/ StartPolling \/ FireWork \/ FireTimer \/ HandlerReturns \/ StopPolling
    \/ \E i \in Works, d \in Delays : Reschedule(i, d)
    \/ \E i \in Works, d \in Delays : Schedule(i, d)
    \/ \E i \in Works : CancelWork(i)
    \/ \E t \in Timers, d, p \in Delays : TimerStart(t, d, p)
    \/ \E t \in Timers : TimerStop(t)

Spec == Init /\ [][Next]_vars

-----------------------------------------------------------------------------
Fires(i) == running = NoItem /\ running' = i

\* The types; and no item is linked twice, however handlers submit and cancel items, their own
\* included: sys_dlist_insert of a linked node would cut the list.
TypeOK ==
    /\ list \in Seq(Items) /\ IsInjective(list)
    /\ dticks \in [Items -> 0 .. (W - 1)]
    /\ due \in [Items -> Nat]
    /\ period \in [Timers -> Delays]
    /\ polling \in BOOLEAN
    /\ running \in Items \cup {NoItem}
    /\ active \subseteq Timers
    /\ now \in 0 .. MaxNow
    /\ calls \in 0 .. MaxCalls

\* The head of the list is the only item the loop looks at, so the list must be in
\* the order of the real deadlines.
SortedByDeadline ==
    \A a, b \in 1 .. Len(list) : a < b => due[list[a]] <= due[list[b]]

\* A handler runs at its deadline or later, and never before another item whose
\* deadline is earlier.
NeverEarlyNorOvertaken ==
    [][\A i \in Items : Fires(i) =>
          /\ due[i] <= now
          /\ \A j \in Armed : due[i] <= due[j]]_vars

\* timeout_polling_work returns only when nothing is left to run: a submission made
\* by a handler does not wait for the next turn of the main loop.
PollingDrains ==
    [][polling /\ ~ polling' => \A i \in Armed : now < due[i]]_vars

\* Items with the same deadline run in the order they were submitted: what is put on
\* the list goes behind everything that is there with the same deadline or an earlier.
SubmissionOrder ==
    [][\A i \in Armed, j \in ToSet(list') \ Armed :
          i \in ToSet(list') /\ due'[i] <= due'[j]
             => \E a, b \in 1 .. Len(list') : a < b /\ list'[a] = i /\ list'[b] = j]_vars

\* A timer is on the list exactly as long as it is started: one that is stopped, by
\* its own expiry function or by anyone else, does not come back, and a periodic one
\* is never forgotten.
TimersFollowStartStop == Armed \cap Timers = active

-----------------------------------------------------------------------------
\* A host that only ever schedules its work items.
ScheduleNext ==
    \/ Announce
    \/ StartPolling \/ FireWork \/ HandlerReturns \/ StopPolling
    \/ \E i \in Works, d \in Delays : Schedule(i, d)

ScheduleSpec == Init /\ [][ScheduleNext]_vars

\* "Use `k_work_schedule` to keep the original deadline, instead of re-setting the
\* timeout whenever a new notification is appended" (src/src/host/gatt.c:2618): an item
\* that is on the list keeps its deadline until it runs.
ScheduleKeepsDeadline ==
    [][\A i \in Works : i \in Armed /\ i \in ToSet(list') => due'[i] = due[i]]_vars
=============================================================================
