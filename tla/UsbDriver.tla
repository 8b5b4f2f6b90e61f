------------------------------- MODULE UsbDriver -------------------------------
(***************************************************************************)
(* The USB driver of the ports for Windows (windows_driver_libusb.c): a    *)
(* thread that writes, one that reads events, one that reads data, one     *)
(* that resets the driver when the chipset has asked for it, the main loop *)
(* and the timer thread (windows_bt_timer_impl.c), which share queues,     *)
(* flags, and the pools of bt_buf.c, with the sleep of the host            *)
(* (hci_core.c).  The queues have locks, the flags and pools have none: a  *)
(* step is what lies between two accesses to them.                         *)
(***************************************************************************)
EXTENDS Naturals, Sequences, FiniteSets

CONSTANTS
    Count,      \* buffers of each pool
    Monitor,    \* CONFIG_BT_MONITOR_SLEEP
    Resets,     \* bound: how often the chipset asks for a reset
    MaxIn,      \* bound: packets of the controller on each endpoint
    MaxOut      \* bound: packets of the host from each pool

Reads  == {"evt", "in"}         \* evt_pool and acl_in_pool, each of a thread
Writes == {"cmd", "out"}        \* hci_cmd_pool and the pools of data, of one thread
Pools  == Reads \cup Writes
Wakers == Reads \cup {"timer"}

\* What the module assumes of its constants; MCLayers asserts it of each instance.
UsbDriverAssumption ==
    /\ Count \in [Pools -> Nat \ {0}] /\ Monitor \in BOOLEAN
    /\ Resets \in Nat /\ MaxIn \in [Reads -> Nat] /\ MaxOut \in [Writes -> Nat]

VARIABLES
    usb,    \* the controller: generation, packets sent on each endpoint, those unread, those it got
    mem,    \* pools, queues and flags
    rx,     \* the threads that read, and the timer's: where each is, the packet it has, its buffer
    tx,     \* the thread that writes: where it is, the packet it has, the write index it saw
    main,   \* the main loop: where it is, the packet it has, what waits in the host
    reset,  \* the thread that resets: where it is, how often it may start
    seen    \* not in the code: what bt_recv was given, what was flushed, which races happened

vars == <<usb, mem, rx, tx, main, reset, seen>>

NoPkt == [ep |-> "none", n |-> 0, gen |-> 0, adv |-> FALSE]

-----------------------------------------------------------------------------
(* The pools: rings of Count[p] + 1 slots without a lock (spool.c). *)

Next1(p, i) == (i + 1) % (Count[p] + 1)
Size(p) == LET s == mem.ring[p] IN
           IF s.w >= s.r THEN s.w - s.r ELSE Count[p] + 1 - (s.r - s.w)

Made == [p \in Pools |-> [w |-> Count[p], r |-> 0]]     \* bt_buf_pool_init
Cleared == [p \in Pools |-> [w |-> 0, r |-> 0]]         \* bt_buf_monitor_sleep

Alloc(m, p) == [m EXCEPT !.ring[p].r = Next1(p, @)]

\* spool_enqueue by a thread that saw the write index w; nothing tells it of another one.
Enqueue(m, p, w) == [m EXCEPT !.ring[p].w = Next1(p, w)]

\* A buffer is given back to a pool that was cleared: its array is NULL.
Broken(m) == seen.broken \/ ~m.made

-----------------------------------------------------------------------------
(* Reading.  The timer thread is a reader without packets. *)

Inside(t) == rx[t].pc \in {"flag", "buffer", "push", "end", "unlock"}
OtherInside(t) == \E u \in Wakers \ {t} : Inside(u)

At(t, pc) == rx[t].pc = pc
To(t, pc) == rx' = [rx EXCEPT ![t].pc = pc]

\* The top of the loop: a read starts only if there is a buffer for it, or asleep.
Top(t) ==
    /\ t \in Reads /\ At(t, "top")
    /\ IF ~mem.enable THEN To(t, "ended")
       ELSE (Size(t) > 0 \/ mem.asleep) /\ To(t, "read")
    /\ UNCHANGED <<usb, mem, tx, main, reset, seen>>

\* bt_sleep_wakeup_with_timeout in the timer thread.
TimerWakes ==
    /\ At("timer", "top") /\ mem.asleep
    /\ To("timer", "start")
    /\ UNCHANGED <<usb, mem, tx, main, reset, seen>>

\* usb_interrupt_read fails or times out: the events of the last run are all read.
ReadFails(t) ==
    /\ t \in Reads /\ At(t, "read") /\ usb.pipe[t] = <<>>
    /\ To(t, "top")
    /\ mem' = IF t = "evt" THEN [mem EXCEPT !.ready = TRUE] ELSE mem
    /\ UNCHANGED <<usb, tx, main, reset, seen>>

\* A packet comes; events of the last run are dropped.
ReadSucceeds(t) ==
    LET pkt == Head(usb.pipe[t])
        stale == t = "evt" /\ ~mem.ready
    IN  /\ t \in Reads /\ At(t, "read") /\ usb.pipe[t] # <<>>
        /\ usb' = [usb EXCEPT !.pipe[t] = Tail(@)]
        /\ rx' = IF stale THEN [rx EXCEPT ![t].pc = "top"]
                 ELSE [rx EXCEPT ![t].pc = IF Monitor THEN "start" ELSE "buffer", ![t].pkt = pkt]
        /\ seen' = IF stale THEN [seen EXCEPT !.flushed = @ \cup {pkt}] ELSE seen
        /\ UNCHANGED <<mem, tx, main, reset>>

\* bt_sleep_wakeup_work_start.  Ghost: the main loop has looked at the flag, and is not asleep yet.
WakeStart(t) ==
    /\ At(t, "start")
    /\ mem' = [mem EXCEPT !.lock = TRUE]
    /\ To(t, "flag")
    /\ seen' = [seen EXCEPT !.torn = @ \/ main.pc \in {"allowed", "cleared"}]
    /\ UNCHANGED <<usb, tx, main, reset>>
\* Ghost: the pools are made anew a second time.
WakePools(t) ==
    /\ At(t, "flag")
    /\ mem' = IF mem.asleep THEN [mem EXCEPT !.ring = Made, !.made = TRUE] ELSE mem
    /\ To(t, IF t = "timer" THEN "end" ELSE "buffer")
    /\ seen' = [seen EXCEPT !.torn = @ \/ (mem.asleep /\ OtherInside(t))]
    /\ UNCHANGED <<usb, tx, main, reset>>

\* bt_check_rx_evt_need_drop, bt_buf_get_controller_tx_evt, bt_buf_get_controller_tx_acl; without a
\* buffer the thread sleeps for ever.
Buffer(t) ==
    LET after == IF Monitor THEN "end" ELSE "top"
        drop == rx[t].pkt.adv /\ Size(t) < 3
    IN  /\ t \in Reads /\ At(t, "buffer")
        /\ rx' = IF drop THEN [rx EXCEPT ![t].pc = after, ![t].pkt = NoPkt]
                 ELSE [rx EXCEPT ![t].pc = IF Size(t) > 0 THEN "push" ELSE "stuck"]
        /\ mem' = IF drop \/ Size(t) = 0 THEN mem ELSE Alloc(mem, t)
        /\ seen' = IF drop THEN [seen EXCEPT !.dropped = @ \cup {rx[t].pkt}] ELSE seen
        /\ UNCHANGED <<usb, tx, main, reset>>

\* push_rx_queue.
Push(t) ==
    /\ t \in Reads /\ At(t, "push")
    /\ mem' = [mem EXCEPT !.rxq = Append(@, rx[t].pkt)]
    /\ rx' = [rx EXCEPT ![t].pc = IF Monitor THEN "end" ELSE "top", ![t].pkt = NoPkt]
    /\ UNCHANGED <<usb, tx, main, reset, seen>>

\* bt_sleep_wakeup_work_end.
WakeEnd(t) ==
    /\ At(t, "end")
    /\ mem' = [mem EXCEPT !.asleep = FALSE]
    /\ To(t, "unlock")
    /\ UNCHANGED <<usb, tx, main, reset, seen>>
Unlock(t) ==
    /\ At(t, "unlock")
    /\ mem' = [mem EXCEPT !.lock = FALSE]
    /\ To(t, "top")
    /\ UNCHANGED <<usb, tx, main, reset, seen>>

Read(t) ==
    \/ Top(t) \/ ReadFails(t) \/ ReadSucceeds(t) \/ WakeStart(t) \/ WakePools(t)
    \/ Buffer(t) \/ Push(t) \/ WakeEnd(t) \/ Unlock(t)

-----------------------------------------------------------------------------
(* Writing. *)

\* tx_process_loop, up to the packet it takes.
TakePacket ==
    /\ tx.pc = "top"
    /\ IF ~mem.enable THEN tx' = [tx EXCEPT !.pc = "ended"] /\ UNCHANGED mem
       ELSE /\ mem.ready /\ mem.txq # <<>>
            /\ tx' = [tx EXCEPT !.pc = "write", !.pkt = Head(mem.txq)]
            /\ mem' = [mem EXCEPT !.txq = Tail(@)]
    /\ UNCHANGED <<usb, rx, main, reset, seen>>

\* usb_control_msg, usb_interrupt_write; an error is printed.
Write ==
    /\ tx.pc = "write"
    /\ \E got \in BOOLEAN : usb' = IF got THEN [usb EXCEPT !.got = Append(@, tx.pkt)] ELSE usb
    /\ tx' = [tx EXCEPT !.pc = "unref"]
    /\ UNCHANGED <<mem, rx, main, reset, seen>>

\* net_buf_unref, in two steps.  Ghost: the main loop is in the midst of the same.
Unref ==
    /\ tx.pc = "unref"
    /\ tx' = [tx EXCEPT !.pc = "store", !.w = mem.ring[tx.pkt.ep].w]
    /\ seen' = [seen EXCEPT !.raced = @ \/ (main.pc = "store" /\ tx.pkt.ep = "out")]
    /\ UNCHANGED <<usb, mem, rx, main, reset>>
Store ==
    /\ tx.pc = "store"
    /\ mem' = Enqueue(mem, tx.pkt.ep, tx.w)
    /\ tx' = [pc |-> "top", pkt |-> NoPkt, w |-> 0]
    /\ seen' = [seen EXCEPT !.broken = Broken(mem)]
    /\ UNCHANGED <<usb, rx, main, reset>>

-----------------------------------------------------------------------------
(* The main loop. *)

MainTo(pc) == main' = [main EXCEPT !.pc = pc]

\* The host works unless it sleeps.
Turn ==
    /\ main.pc = "top"
    /\ MainTo(IF mem.asleep THEN "loop" ELSE "work")
    /\ UNCHANGED <<usb, mem, rx, tx, reset, seen>>

\* In bt_polling_work: a buffer is taken for a command or for data, ...
Prepare(p) ==
    /\ main.pc = "work" /\ Size(p) > 0 /\ main.made[p] < MaxOut[p]
    /\ mem' = Alloc(mem, p)
    /\ main' = [main EXCEPT !.made[p] = @ + 1,
                            !.unsent = Append(@, [NoPkt EXCEPT !.ep = p, !.n = main.made[p] + 1])]
    /\ UNCHANGED <<usb, rx, tx, reset, seen>>
\* ... sent (hci_driver_send), ...
Send ==
    /\ main.pc = "work" /\ main.unsent # <<>>
    /\ mem' = [mem EXCEPT !.txq = Append(@, Head(main.unsent))]
    /\ main' = [main EXCEPT !.unsent = Tail(@)]
    /\ UNCHANGED <<usb, rx, tx, reset, seen>>
\* ... or given back with its connection (process_unack_tx, bt_conn_unref of a queue), ...
Purge ==
    /\ main.pc = "work" /\ main.unsent # <<>> /\ Head(main.unsent).ep = "out"
    /\ main' = [main EXCEPT !.pc = "store", !.w = mem.ring["out"].w]
    /\ seen' = [seen EXCEPT !.raced = @ \/ (tx.pc = "store" /\ tx.pkt.ep = "out")]
    /\ UNCHANGED <<usb, mem, rx, tx, reset>>
PurgeStore ==
    /\ main.pc = "store"
    /\ mem' = Enqueue(mem, "out", main.w)
    /\ main' = [main EXCEPT !.pc = "work", !.unsent = Tail(@), !.w = 0]
    /\ UNCHANGED <<usb, rx, tx, reset, seen>>
\* ... and what came is handled, in the end with its buffer (hci_rx_thread, hci_event_prio).
Handle ==
    /\ main.pc = "work" /\ main.queue # <<>>
    /\ LET p == Head(main.queue) IN
       /\ mem' = Enqueue(mem, p, mem.ring[p].w)
       /\ main' = [main EXCEPT !.queue = Tail(@)]
    /\ seen' = [seen EXCEPT !.broken = Broken(mem)]
    /\ UNCHANGED <<usb, rx, tx, reset>>

\* bt_check_allow_sleep.  Ghost: a thread that is inside has had its lock taken by another one.
AllowSleep == Monitor /\ ~mem.lock /\ \A p \in Pools : Size(p) = Count[p]
EndWork ==
    /\ main.pc = "work"
    /\ MainTo(IF AllowSleep THEN "allowed" ELSE "loop")
    /\ seen' = [seen EXCEPT !.torn = @ \/ (AllowSleep /\ ~mem.lock /\ \E t \in Wakers : Inside(t))]
    /\ UNCHANGED <<usb, mem, rx, tx, reset>>

\* bt_sleep_prepare_work.
Clear ==
    /\ main.pc = "allowed"
    /\ mem' = [mem EXCEPT !.ring = Cleared, !.made = FALSE]
    /\ MainTo("cleared")
    /\ UNCHANGED <<usb, rx, tx, reset, seen>>
FallAsleep ==
    /\ main.pc = "cleared"
    /\ mem' = [mem EXCEPT !.asleep = TRUE]
    /\ MainTo("loop")
    /\ UNCHANGED <<usb, rx, tx, reset, seen>>

\* libusb_main_loop: pop_rx_queue, then bt_recv.
Pop ==
    /\ main.pc = "loop"
    /\ IF mem.rxq = <<>> THEN MainTo("top") /\ UNCHANGED mem
       ELSE /\ main' = [main EXCEPT !.pc = "recv", !.pkt = Head(mem.rxq)]
            /\ mem' = [mem EXCEPT !.rxq = Tail(@)]
    /\ UNCHANGED <<usb, rx, tx, reset, seen>>
Recv ==
    /\ main.pc = "recv"
    /\ main' = [main EXCEPT !.pc = "top", !.pkt = NoPkt, !.queue = Append(@, main.pkt.ep)]
    /\ seen' = [seen EXCEPT !.given = Append(@, main.pkt)]
    /\ UNCHANGED <<usb, mem, rx, tx, reset>>

-----------------------------------------------------------------------------
(* The reset of the driver, asked for by the chipset (csr8510). *)

\* reset_usb_driver, from a handler in the main loop; the controller restarts meanwhile.  What the
\* endpoints still hold may stay, or not.
AskReset ==
    /\ main.pc = "work" /\ reset.pc = "off" /\ reset.left > 0 /\ ~Monitor
    /\ reset' = [pc |-> "sleep", left |-> reset.left - 1]
    /\ \E kept \in SUBSET Reads :
         /\ usb' = [usb EXCEPT !.gen = @ + 1, !.pipe = [t \in Reads |-> IF t \in kept THEN @[t] ELSE <<>>]]
         /\ seen' = [seen EXCEPT !.flushed = @ \cup UNION {{usb.pipe[t][i] : i \in DOMAIN usb.pipe[t]} : t \in Reads \ kept}]
    /\ UNCHANGED <<mem, rx, tx, main>>

\* reset_driver_process: the threads are told to end, ...
Disable ==
    /\ reset.pc = "sleep"
    /\ mem' = [mem EXCEPT !.enable = FALSE]
    /\ reset' = [reset EXCEPT !.pc = "join"]
    /\ UNCHANGED <<usb, rx, tx, main, seen>>
\* ... and have: pthread_join of each.  usb_open_process may fail.
Joined == tx.pc = "ended" /\ \A t \in Reads : At(t, "ended")
Join ==
    /\ reset.pc = "join" /\ Joined
    /\ \/ /\ mem' = [mem EXCEPT !.enable = TRUE, !.ready = FALSE]
          /\ reset' = [reset EXCEPT !.pc = "create"]
       \/ reset' = [reset EXCEPT !.pc = "failed"] /\ UNCHANGED mem
    /\ UNCHANGED <<usb, rx, tx, main, seen>>
\* The threads are made before the queues are empty; what is in them is lost, buffers and all.
Create ==
    /\ reset.pc = "create"
    /\ tx' = [tx EXCEPT !.pc = "top"]
    /\ rx' = [t \in Wakers |-> IF t \in Reads THEN [rx[t] EXCEPT !.pc = "top"] ELSE rx[t]]
    /\ reset' = [reset EXCEPT !.pc = "queues"]
    /\ UNCHANGED <<usb, mem, main, seen>>
InitQueues ==
    /\ reset.pc = "queues"
    /\ mem' = [mem EXCEPT !.txq = <<>>, !.rxq = <<>>]
    /\ seen' = [seen EXCEPT !.flushed = @ \cup {mem.rxq[i] : i \in DOMAIN mem.rxq},
                            !.leaked = [p \in Pools |-> @[p] + Cardinality({i \in DOMAIN mem.rxq : mem.rxq[i].ep = p})
                                                             + Cardinality({i \in DOMAIN mem.txq : mem.txq[i].ep = p})]]
    /\ reset' = [reset EXCEPT !.pc = "callback"]
    /\ UNCHANGED <<usb, rx, tx, main>>
Callback ==
    /\ reset.pc = "callback"
    /\ reset' = [reset EXCEPT !.pc = "off"]
    /\ UNCHANGED <<usb, mem, rx, tx, main, seen>>

-----------------------------------------------------------------------------
\* The controller sends.
Emit(t, adv) ==
    /\ usb.sent[t] < MaxIn[t] /\ (adv => t = "evt")
    /\ usb' = [usb EXCEPT !.sent[t] = @ + 1,
                          !.pipe[t] = Append(@, [ep |-> t, n |-> usb.sent[t] + 1, gen |-> usb.gen, adv |-> adv])]
    /\ UNCHANGED <<mem, rx, tx, main, reset, seen>>

Init ==
    /\ usb = [gen |-> 0, sent |-> [t \in Reads |-> 0], pipe |-> [t \in Reads |-> <<>>], got |-> <<>>]
    /\ mem = [ring |-> Made, made |-> TRUE, txq |-> <<>>, rxq |-> <<>>,
              enable |-> TRUE, ready |-> FALSE, asleep |-> FALSE, lock |-> FALSE]
    /\ rx = [t \in Wakers |-> [pc |-> "top", pkt |-> NoPkt]]
    /\ tx = [pc |-> "top", pkt |-> NoPkt, w |-> 0]
    /\ main = [pc |-> "top", pkt |-> NoPkt, queue |-> <<>>, unsent |-> <<>>, w |-> 0, made |-> [p \in Writes |-> 0]]
    /\ reset = [pc |-> "off", left |-> Resets]
    /\ seen = [given |-> <<>>, dropped |-> {}, flushed |-> {}, leaked |-> [p \in Pools |-> 0],
               raced |-> FALSE, torn |-> FALSE, broken |-> FALSE]

Next ==
    \/ \E t \in Wakers : Read(t)
    \/ TimerWakes
    \/ TakePacket \/ Write \/ Unref \/ Store
    \/ Turn \/ Send \/ Purge \/ PurgeStore \/ Handle \/ EndWork \/ Clear \/ FallAsleep \/ Pop \/ Recv
    \/ \E p \in Writes : Prepare(p)
    \/ AskReset \/ Disable \/ Join \/ Create \/ InitQueues \/ Callback
    \/ \E t \in Reads, adv \in BOOLEAN : Emit(t, adv)

Spec == Init /\ [][Next]_vars

-----------------------------------------------------------------------------
TypeOK ==
    /\ mem.ring \in [Pools -> [w : Nat, r : Nat]]
    /\ \A p \in Pools : mem.ring[p].w <= Count[p] /\ mem.ring[p].r <= Count[p]
    /\ {mem.made, mem.enable, mem.ready, mem.asleep, mem.lock} \subseteq BOOLEAN
    /\ \A t \in Reads : rx[t].pkt.ep \in {t, "none"}
    /\ tx.pkt.ep \in Writes \cup {"none"}
    /\ reset.left \in 0 .. Resets

\* Places where packets of the endpoint t are, in the order they went through them.
OfEp(s, t) == SelectSeq(s, LAMBDA p : p.ep = t)
Path(t) == OfEp(seen.given \o <<main.pkt>> \o mem.rxq \o <<rx[t].pkt>> \o usb.pipe[t], t)

\* What the controller sends on an endpoint is given to the host in order and once, and nothing of it
\* is lost, but advertising reports when few buffers are left, and what a reset flushes.  What the
\* host sends gets to the controller in order and once.
InOrder ==
    /\ \A t \in Reads :
         LET path == Path(t)
             gone == seen.dropped \cup seen.flushed
         IN  /\ \A i, j \in DOMAIN path : i < j => path[i].n < path[j].n
             /\ \A n \in 1 .. usb.sent[t] :
                  (\E i \in DOMAIN path : path[i].n = n) \/ (\E p \in gone : p.ep = t /\ p.n = n)
    /\ \A p \in seen.dropped : p.adv
    /\ Resets = 0 => \A p \in seen.flushed : p.ep = "evt"
    /\ \A i, j \in DOMAIN usb.got :
         (i < j /\ usb.got[i].ep = usb.got[j].ep) => usb.got[i].n < usb.got[j].n

HeldBy(p) ==
    LET there(s) == Cardinality({i \in DOMAIN s : s[i].ep = p})
    IN  there(mem.txq) + there(mem.rxq) + there(main.unsent)
          + Cardinality({i \in DOMAIN main.queue : main.queue[i] = p})
          + (IF main.pkt.ep = p THEN 1 ELSE 0)
          + (IF tx.pkt.ep = p THEN 1 ELSE 0)
          + (IF p \in Reads /\ rx[p].pc = "push" THEN 1 ELSE 0)

\* Every buffer is free or in use by one, but those a reset leaves in the queues, and those of a pool
\* two threads gave buffers to at a time; while the pools are cleared none is in use.
Accounted ==
    ~seen.torn => /\ \A p \in Pools : (p = "out" /\ seen.raced)
                       \/ Size(p) + HeldBy(p) + seen.leaked[p] = IF mem.made THEN Count[p] ELSE 0
                  /\ ~mem.made => mem.asleep \/ main.pc = "cleared"
                  /\ ~seen.broken

\* A thread that reads has a buffer for what it reads: it is not stuck for ever.
NeverStuck == ~seen.torn => \A t \in Reads : ~At(t, "stuck")

\* Once the driver is reset, the host gets no event of the controller's last run, unless the main loop
\* had it already.
ResetForgets ==
    reset.pc = "off" => /\ \A i \in DOMAIN mem.rxq : mem.rxq[i].ep = "evt" => mem.rxq[i].gen = usb.gen
                        /\ rx["evt"].pkt # NoPkt => rx["evt"].pkt.gen = usb.gen

UsbKept == InOrder /\ Accounted /\ NeverStuck /\ ResetForgets
=============================================================================
