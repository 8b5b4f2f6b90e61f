------------------------------ MODULE Transport ------------------------------
(***************************************************************************)
(* The H:4 transport (src/src/drivers/hci_h4.c), the pools its packets     *)
(* come from (src/src/common/bt_buf.c) and the sleep of the host, which    *)
(* clears and restores those pools (src/src/host/hci_core.c).              *)
(*                                                                         *)
(* The main loop calls bt_hci_h4_polling once per turn, asleep or awake.   *)
(* A call transmits what the serial driver takes, and receives one piece   *)
(* of a packet: its type, a part of its header, or a part of its payload.  *)
(* The driver moves as many bytes as it likes.  A byte on the wire is      *)
(* <<packet, position>>, so that the properties can tell what became of    *)
(* it; position 0 is the H:4 type.                                         *)
(*                                                                         *)
(* The wake-up of the timer is one step, as in the RT-Thread ports, where  *)
(* the timer callback is an interrupt.                                     *)
(***************************************************************************)
EXTENDS Naturals, Sequences, FiniteSetsExt, SequencesExt

CONSTANTS
    PktLen,     \* length field of each kind of packet the controller sends
    TxLen,      \* length of each kind of packet the host sends, header included
    Count,      \* buffers of each pool
    Room,       \* size of a buffer of each pool the receiver uses
    MaxRx,      \* bound: packets of the controller
    MaxTx       \* bound: packets of the host

Pools   == {"evt", "num", "acl", "cmd", "aclTx"}
RxPools == {"evt", "num", "acl"}
Kinds   == DOMAIN PktLen
TxKinds == DOMAIN TxLen

\* Advertising report, other LE meta event, Number Of Completed Packets, Command
\* Complete, Disconnection Complete, other event, data.  An LE meta event has a subevent code.
ASSUME TransportAssumption ==
    /\ Kinds \subseteq {"adv", "meta", "ncp", "cc", "disc", "event", "acl", "aclLong"}
    /\ TxKinds \subseteq {"cmd", "aclTx"}
    /\ PktLen \in [Kinds -> Nat] /\ \A kind \in Kinds \cap {"adv", "meta"} : PktLen[kind] > 0
    /\ TxLen \in [TxKinds -> Nat \ {0}]
    /\ Count \in [Pools -> Nat \ {0}] /\ Room \in [RxPools -> Nat]
    /\ MaxRx \in Nat /\ MaxTx \in Nat

VARIABLES
    sent,       \* kinds of the packets the controller sent, in order
    wire,       \* bytes on their way to the host
    rx,         \* type, remaining, hdrLen, haveHdr, discardable, discard and header
    rxBuf,      \* rx.buf: its pool and the bytes in it
    rxQueue,    \* bt_dev.rx_queue: the pool and packet of each buffer
    received,   \* bytes of each packet given to bt_recv
    lost,       \* packets that were discarded
    given,      \* kinds of the packets given to h4_send, in order
    txFifo,     \* tx.fifo
    tx,         \* tx.buf, whether its type went out, and the bytes that did
    out,        \* bytes on their way to the controller
    free,       \* free buffers of each pool; 0 while the pools are cleared
    asleep,     \* bt_monitor_sleep_flag
    monitor     \* CONFIG_BT_MONITOR_SLEEP

rxVars == <<sent, wire, rx, rxBuf, rxQueue, received, lost>>
txVars == <<given, txFifo, tx, out>>
vars   == <<rxVars, txVars, free, asleep, monitor>>

-----------------------------------------------------------------------------
IsAcl(kind)  == kind \in {"acl", "aclLong"}
IsMeta(kind) == kind \in {"adv", "meta"}

TypeOf(kind) == IF IsAcl(kind) THEN "acl" ELSE "evt"

\* The header as it ends up in the buffer: an LE meta event's has its subevent code.
HdrLen(kind)     == IF IsAcl(kind) THEN 4 ELSE IF IsMeta(kind) THEN 3 ELSE 2
PayloadLen(kind) == PktLen[kind] - (IF IsMeta(kind) THEN 1 ELSE 0)
FrameLen(kind)   == HdrLen(kind) + PayloadLen(kind)

\* bytes[i] is the byte at position i of packet p; a frame on the wire starts at 0.
Body(p, kind)  == [i \in 1 .. FrameLen(kind) |-> <<p, i>>]
Frame(p, kind) == <<<<p, 0>>>> \o Body(p, kind)

\* bt_buf_get_evt and bt_buf_get_rx: the pool of a packet.
PoolOf(kind) == IF IsAcl(kind) THEN "acl" ELSE IF kind = "ncp" THEN "num" ELSE "evt"

\* Longer than the buffers of its pool: what the configuration of the host promised
\* the controller would not send.
Oversize(kind) == FrameLen(kind) > Room[PoolOf(kind)]

NoBuf  == [pool |-> "none", bytes |-> <<>>]
NoTx   == [pkt |-> 0, typed |-> FALSE, done |-> 0]
RxIdle == [type |-> "none", remaining |-> 0, hdrLen |-> 0, haveHdr |-> FALSE,
           discardable |-> FALSE, discard |-> 0, hdr |-> <<>>]

\* The kind a header says the packet is of.
KindOf(hdr) == sent[hdr[1][1]]

Tailroom(buf) == Room[buf.pool] - Len(buf.bytes)

\* net_buf_alloc, net_buf_unref of a buffer nobody shares.
Release(pool) == free' = [free EXCEPT ![pool] = @ + 1]

Init ==
    /\ sent = <<>> /\ wire = <<>> /\ rx = RxIdle /\ rxBuf = NoBuf
    /\ rxQueue = <<>> /\ received = <<>> /\ lost = {}
    /\ given = <<>> /\ txFifo = <<>> /\ tx = NoTx /\ out = <<>>
    /\ free = Count /\ asleep = FALSE /\ monitor \in BOOLEAN

-----------------------------------------------------------------------------
(* Wrong variants of the code, each of which breaks a property of this module. *)

\* get_evt_hdr that takes every event for one without a subevent code.
AfterHeaderNoSubevent(r) ==
    IF r.remaining > 0 THEN r
    ELSE [r EXCEPT !.haveHdr = TRUE, !.remaining = PktLen[KindOf(r.hdr)]]

\* get_rx that discards any event when there is no buffer.
NoBufferDiscards ==
    /\ lost' = lost \cup {rx.hdr[1][1]}
    /\ rx' = [RxIdle EXCEPT !.discard = rx.remaining]
    /\ UNCHANGED <<wire, rxBuf, rxQueue, received, free>>

\* bt_buf_check_allow_sleep that looks at the receive pools only.
AllowSleepRxOnly == \A p \in RxPools : free[p] = Count[p]

\* hci_rx_thread with a handler that does not unref its buffer.
RxThreadKeepsBuffer ==
    /\ ~ asleep /\ rxQueue # <<>>
    /\ rxQueue' = Tail(rxQueue)
    /\ UNCHANGED <<sent, wire, rx, rxBuf, received, lost, txVars, free, asleep, monitor>>

\* read_header that does not look at the room of the buffer left over.
IntoLeftUnchecked(r) ==
    /\ rx' = r /\ UNCHANGED lost
    /\ rxBuf' = IF r.haveHdr /\ rxBuf # NoBuf THEN [rxBuf EXCEPT !.bytes = @ \o r.hdr] ELSE rxBuf

-----------------------------------------------------------------------------
(* Reception.  recv(n, k): the driver returns k of at most n bytes. *)

Recv(n, k) == k \in 1 .. n /\ k <= Len(wire) /\ wire' = SubSeq(wire, k + 1, Len(wire))

\* h4_get_type; a byte that is no type is skipped.
GetType ==
    /\ rx.discard = 0 /\ ~ rx.haveHdr /\ rx.type = "none"
    /\ Recv(1, 1)
    /\ rx' = IF Head(wire)[2] # 0 THEN rx
             ELSE LET kind == sent[Head(wire)[1]]
                      n == IF IsAcl(kind) THEN 4 ELSE 2 IN
                  [RxIdle EXCEPT !.type = TypeOf(kind), !.remaining = n, !.hdrLen = n]
    /\ UNCHANGED <<sent, rxBuf, rxQueue, received, lost, txVars, free, asleep, monitor>>

\* get_evt_hdr: the header of an LE meta event is one byte longer, which is known as
\* soon as the event code is there.
WithSubevent(r) ==
    IF r.type = "evt" /\ r.hdrLen = 2 /\ r.remaining < 2 /\ IsMeta(KindOf(r.hdr))
    THEN [r EXCEPT !.remaining = @ + 1, !.hdrLen = @ + 1] ELSE r

AfterHeader(r) ==
    IF r.remaining > 0 THEN r
    ELSE LET kind == KindOf(r.hdr) IN
         [r EXCEPT !.haveHdr = TRUE, !.discardable = kind = "adv",
                   !.remaining = PktLen[kind] - (IF r.type = "evt" THEN r.hdrLen - 2 ELSE 0)]

\* read_header, when the buffer of a packet that did not fit is still there: the packet
\* goes into it, or is discarded as well.
IntoLeftBuffer(r) ==
    IF ~ r.haveHdr \/ rxBuf = NoBuf
    THEN rx' = r /\ UNCHANGED <<rxBuf, lost>>
    ELSE IF r.remaining > Tailroom(rxBuf)
         THEN /\ rx' = [RxIdle EXCEPT !.discard = r.remaining]
              /\ lost' = lost \cup {r.hdr[1][1]} /\ UNCHANGED rxBuf
         ELSE /\ rx' = r /\ rxBuf' = [rxBuf EXCEPT !.bytes = @ \o r.hdr]
              /\ UNCHANGED lost

ReadHeader ==
    /\ rx.discard = 0 /\ ~ rx.haveHdr /\ rx.type # "none"
    /\ \E k \in 1 .. rx.remaining :
        /\ Recv(rx.remaining, k)
        /\ IntoLeftBuffer(AfterHeader(WithSubevent(
               [rx EXCEPT !.remaining = @ - k, !.hdr = @ \o SubSeq(wire, 1, k)])))
    /\ UNCHANGED <<sent, rxQueue, received, txVars, free, asleep, monitor>>

\* bt_recv: hci_event_prio ends with the buffer for the events that only it handles;
\* everything else waits in rx_queue.
Deliver(buf, hdr) ==
    LET kind == KindOf(hdr) IN
    /\ received' = Append(received, buf.bytes)
    /\ rxQueue' = IF kind \in {"cc", "ncp"} THEN rxQueue
                  ELSE Append(rxQueue, [pool |-> buf.pool, pkt |-> hdr[1][1]])

\* The rest of read_payload, with r and buf as they are once there is a buffer and
\* `taken` buffers were taken from its pool.
ReadInto(buf, taken) ==
    \E k \in 0 .. rx.remaining :
        /\ IF k = 0 THEN UNCHANGED wire ELSE Recv(rx.remaining, k)
        /\ k = 0 => rx.remaining = 0 \/ taken > 0
        /\ LET full == [buf EXCEPT !.bytes = @ \o SubSeq(wire, 1, k)] IN
           IF k < rx.remaining
           THEN /\ rx' = [rx EXCEPT !.remaining = @ - k]
                /\ rxBuf' = full
                /\ free' = [free EXCEPT ![buf.pool] = @ - taken]
                /\ UNCHANGED <<received, rxQueue>>
           ELSE /\ rx' = RxIdle /\ rxBuf' = NoBuf
                /\ Deliver(full, rx.hdr)
                /\ free' = [free EXCEPT ![buf.pool] =
                               @ - taken + (IF KindOf(rx.hdr) \in {"cc", "ncp"} THEN 1 ELSE 0)]
    /\ UNCHANGED lost

\* No buffer: only an advertising report is discarded; the others wait.
NoBuffer ==
    /\ rx.discardable
    /\ lost' = lost \cup {rx.hdr[1][1]}
    /\ rx' = [RxIdle EXCEPT !.discard = rx.remaining]
    /\ UNCHANGED <<wire, rxBuf, rxQueue, received, free>>

\* A buffer it does not fit in is kept, empty, for the next packet.
DoesNotFit(pool) ==
    /\ lost' = lost \cup {rx.hdr[1][1]}
    /\ rx' = [RxIdle EXCEPT !.discard = rx.remaining]
    /\ rxBuf' = [pool |-> pool, bytes |-> <<>>]
    /\ free' = [free EXCEPT ![pool] = @ - 1]
    /\ UNCHANGED <<wire, rxQueue, received>>

ReadPayload ==
    /\ rx.discard = 0 /\ rx.haveHdr
    /\ IF rxBuf # NoBuf THEN ReadInto(rxBuf, 0)
       ELSE LET pool == PoolOf(KindOf(rx.hdr)) IN
            IF free[pool] = 0 THEN NoBuffer
            ELSE IF Room[pool] < rx.remaining THEN DoesNotFit(pool)
                 ELSE ReadInto([pool |-> pool, bytes |-> rx.hdr], 1)
    /\ UNCHANGED <<sent, txVars, asleep, monitor>>

\* h4_discard
Discard ==
    /\ rx.discard > 0
    /\ \E k \in 1 .. rx.discard :
        Recv(rx.discard, k) /\ rx' = [rx EXCEPT !.discard = @ - k]
    /\ UNCHANGED <<sent, rxBuf, rxQueue, received, lost, txVars, free, asleep, monitor>>

ProcessRx == GetType \/ ReadHeader \/ ReadPayload \/ Discard

\* hci_rx_thread: one buffer, whose handler ends with it.
RxThread ==
    /\ ~ asleep /\ rxQueue # <<>>
    /\ rxQueue' = Tail(rxQueue) /\ Release(Head(rxQueue).pool)
    /\ UNCHANGED <<sent, wire, rx, rxBuf, received, lost, txVars, asleep, monitor>>

-----------------------------------------------------------------------------
(* Transmission *)

\* A command or a packet of data is allocated and given to h4_send.
Send(kind) ==
    /\ ~ asleep /\ free[kind] > 0 /\ Len(given) < MaxTx
    /\ given' = Append(given, kind)
    /\ txFifo' = Append(txFifo, Len(given) + 1)
    /\ free' = [free EXCEPT ![kind] = @ - 1]
    /\ UNCHANGED <<rxVars, tx, out, asleep, monitor>>

\* tx.buf = net_buf_get(&tx.fifo), with tx.type = H4_NONE, and the fifo after it.
TxNext(fifo)  == IF fifo = <<>> THEN NoTx ELSE [NoTx EXCEPT !.pkt = Head(fifo)]
TxAfter(fifo) == IF fifo = <<>> THEN fifo ELSE Tail(fifo)

\* process_tx: the driver may refuse the type, and takes k bytes of the packet.
ProcessTx ==
    LET cur  == IF tx.pkt # 0 THEN tx ELSE TxNext(txFifo)
        rest == IF tx.pkt # 0 THEN txFifo ELSE TxAfter(txFifo)
        left == TxLen[given[cur.pkt]] - cur.done IN
    /\ cur # NoTx
    /\ \/ ~ cur.typed /\ tx' = cur /\ txFifo' = rest /\ UNCHANGED <<out, free>>
       \/ \E k \in 0 .. left :
            /\ out' = out \o (IF cur.typed THEN <<>> ELSE <<<<cur.pkt, 0>>>>)
                          \o [i \in 1 .. k |-> <<cur.pkt, cur.done + i>>]
            /\ IF k < left
               THEN /\ tx' = [cur EXCEPT !.typed = TRUE, !.done = @ + k]
                    /\ txFifo' = rest /\ UNCHANGED free
               ELSE /\ tx' = TxNext(rest) /\ txFifo' = TxAfter(rest)
                    /\ Release(given[cur.pkt])
    /\ UNCHANGED <<rxVars, given, asleep, monitor>>

-----------------------------------------------------------------------------
(* Sleep *)

\* bt_buf_check_allow_sleep
AllowSleep == \A p \in Pools : free[p] = Count[p]

\* bt_check_allow_sleep and bt_sleep_prepare_work at the end of a turn.
Sleep ==
    /\ monitor /\ ~ asleep /\ AllowSleep
    /\ asleep' = TRUE /\ free' = [p \in Pools |-> 0]
    /\ UNCHANGED <<rxVars, txVars, monitor>>

\* bt_sleep_wakeup_with_timeout, once the next deadline is 5 ms old.
TimerWake ==
    /\ asleep
    /\ asleep' = FALSE /\ free' = Count
    /\ UNCHANGED <<rxVars, txVars, monitor>>

-----------------------------------------------------------------------------
\* The controller sends a packet, whenever it likes.
Emit(kind) ==
    /\ Len(sent) < MaxRx
    /\ sent' = Append(sent, kind)
    /\ wire' = wire \o Frame(Len(sent) + 1, kind)
    /\ UNCHANGED <<rx, rxBuf, rxQueue, received, lost, txVars, free, asleep, monitor>>

Next ==
    \/ \E kind \in Kinds : Emit(kind)
    \/ \E kind \in TxKinds : Send(kind)
    \/ ProcessRx \/ ProcessTx \/ RxThread \/ Sleep \/ TimerWake

\* The main loop goes round for ever; the timer is periodic.
Fairness ==
    /\ WF_vars(ProcessRx) /\ WF_vars(RxThread) /\ WF_vars(TimerWake)

Spec == Init /\ [][Next]_vars
FairSpec == Spec /\ Fairness

-----------------------------------------------------------------------------
(* Properties *)

\* The receiver compares the payload alone with the room there is for header and payload
\* (hci_h4.c:258, 336): the header makes no difference, for any packet and any buffer that
\* it may be read into.
LengthsTold ==
    \A kind \in Kinds, pool \in RxPools :
        /\ pool = PoolOf(kind) \/ \E other \in Kinds : PoolOf(other) = pool /\ Oversize(other)
        /\ PayloadLen(kind) <= Room[pool]
        => FrameLen(kind) <= Room[pool]

\* Every variable has a value of its type; no packet grows beyond its buffer, when
\* LengthsTold.
TypeOK ==
    /\ sent \in Seq(Kinds) /\ given \in Seq(TxKinds)
    /\ \A i \in DOMAIN wire : wire[i][1] \in DOMAIN sent
    /\ rx.type \in {"none", "evt", "acl"}
    /\ rx.remaining \in Nat /\ rx.discard \in Nat
    /\ rx.haveHdr => Len(rx.hdr) = rx.hdrLen
    /\ rxBuf.pool \in RxPools \cup {"none"}
    /\ rxBuf # NoBuf => Len(rxBuf.bytes) <= Room[rxBuf.pool]
    /\ \A i \in DOMAIN rxQueue :
        /\ rxQueue[i].pool \in RxPools
        /\ FrameLen(sent[rxQueue[i].pkt]) <= Room[rxQueue[i].pool]
    /\ lost \subseteq DOMAIN sent
    /\ \A i \in DOMAIN txFifo : txFifo[i] \in DOMAIN given
    /\ free \in [Pools -> Nat] /\ \A p \in Pools : free[p] <= Count[p]
    /\ asleep \in BOOLEAN /\ monitor \in BOOLEAN /\ (asleep => monitor)

ReceivedPkts == {received[i][1][1] : i \in DOMAIN received}
Ended(p)     == p \in ReceivedPkts \/ p \in lost

\* What the controller is to be given after byte b: the rest of the packet, then the next.
AfterByte(b) == IF b[2] < TxLen[given[b[1]]] THEN <<b[1], b[2] + 1>> ELSE <<b[1] + 1, 0>>

\* However the driver cuts the stream, and whatever was discarded before, bt_recv is
\* given whole packets, header first, in order, none twice, none passed over; and the
\* controller is given whole packets in the order of h4_send (process_rx, process_tx).
FramesWhole ==
    /\ \A i \in DOMAIN received :
        LET p == received[i][1][1] IN
        /\ received[i] = Body(p, sent[p])
        /\ i > 1 => received[i - 1][1][1] < p
        /\ p \notin lost
    /\ \A p, q \in DOMAIN sent : p < q /\ Ended(q) => Ended(p)
    /\ \A i \in DOMAIN out :
        /\ out[i][1] \in DOMAIN given
        /\ out[i] = IF i = 1 THEN <<1, 0>> ELSE AfterByte(out[i - 1])

\* Only advertising reports are discarded for want of a buffer (read_payload, asleep
\* or awake); anything else that is lost is too long for its buffer, or came after a
\* packet that was, whose buffer the receiver keeps.
OnlyReportsLost ==
    \A p \in lost :
        \/ sent[p] = "adv"
        \/ \E q \in 1 .. p : Oversize(sent[q])

HeldBy(pool) ==
    Cardinality({i \in DOMAIN rxQueue : rxQueue[i].pool = pool})
      + (IF rxBuf.pool = pool THEN 1 ELSE 0)
      + Cardinality({i \in DOMAIN txFifo : given[txFifo[i]] = pool})
      + (IF tx.pkt # 0 /\ given[tx.pkt] = pool THEN 1 ELSE 0)

\* No buffer is lost or made up: awake, those in use and those free are the pool; asleep
\* none is in use anywhere, so that clearing the pools takes nothing from anybody.
BuffersAccounted ==
    \A pool \in Pools : free[pool] + HeldBy(pool) = IF asleep THEN 0 ELSE Count[pool]

\* Without sleep, every packet reaches bt_recv or is discarded: a receiver that waits
\* for a buffer gets one, since nothing but bt_hci_h4_polling itself waits.
EveryPacketEnds ==
    \A p \in 1 .. MaxRx : ~ monitor /\ p \in DOMAIN sent ~> Ended(p)
=============================================================================
