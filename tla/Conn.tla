-------------------------------- MODULE Conn ---------------------------------
(***************************************************************************)
(* LE connections of a peripheral and their ACL transmit path (conn.c,     *)
(* adv.c and hci_core.c): the slots of acl_conns with their reference      *)
(* counts, the transmit queue and contexts of each, the credits of the     *)
(* controller, and the events at the two ends of a connection.             *)
(*                                                                         *)
(* Disconnection Complete is handled twice: by bt_recv when it arrives     *)
(* (hci_disconn_complete_prio) and by hci_rx_thread when it reaches it in  *)
(* rx_queue (hci_disconn_complete).  Connection Complete only waits in     *)
(* rx_queue, so the end of a connection can be seen before its beginning.  *)
(*                                                                         *)
(* A packet is one controller buffer long.  The controller is the          *)
(* environment: it connects, drops links and completes packets; a command  *)
(* reaches it at once, an event takes its time.  The steps of the main     *)
(* loop are interleaved freely, which includes the order of every port.    *)
(***************************************************************************)
EXTENDS Naturals, SequencesExt, FiniteSetsExt

CONSTANTS
    MaxConn,    \* CONFIG_BT_MAX_CONN
    Handles,    \* connection handles the controller uses
    NoHandle,   \* a free entry of disconnected_handles
    Txs,        \* conn_tx[CONFIG_BT_CONN_TX_MAX]
    NoTx,       \* a packet without a callback
    Pkts,       \* controller buffers, the limit of bt_dev.le.acl_pkts
    Bufs,       \* buffers of acl_tx_pool
    Backlog,    \* bound: events in rx_queue when the driver calls bt_recv
    MaxWire,    \* bound: events on their way when the controller does something
    MaxLinks,   \* bound: links the controller establishes
    MaxSends    \* bound: packets the application sends

Conns == 1 .. MaxConn
Links == 1 .. MaxLinks

ASSUME ConnAssumption ==
    /\ MaxConn \in Nat \ {0}
    /\ NoHandle \notin Handles /\ NoTx \notin Txs /\ IsFiniteSet(Txs)
    /\ Pkts \in Nat \ {0} /\ Bufs \in Nat
    /\ Backlog \in Nat /\ MaxWire \in Nat /\ MaxLinks \in Nat /\ MaxSends \in Nat

VARIABLES
    conn,       \* acl_conns: state, ref, handle, the link it was connected with, and its transmit side
    work,       \* works submitted with K_NO_WAIT, in the order of the timeout list
    freeTx,     \* free_tx
    pkts,       \* bt_dev.le.acl_pkts
    lost,       \* disconnected_handles
    txBufs,     \* free buffers of acl_tx_pool
    h4Queue,    \* tx.fifo of the transport: the handles its packets go to
    rxQueue,    \* bt_dev.rx_queue
    enabled,    \* BT_ADV_ENABLED of the advertiser
    persist,    \* BT_ADV_PERSIST of the advertiser
    told,       \* slots whose application saw connected and not yet disconnected
    held,       \* slots the application holds a reference to
    wire,       \* events on their way from the controller
    adv,        \* the controller advertises
    up,         \* the link each handle stands for, 0 for none
    inCtl,      \* packets the controller has, for each handle
    links,      \* links established so far, which also numbers them
    onAir,      \* packets of each slot given to the transport and not reported complete
    sends       \* packets sent so far

advVars   == <<enabled, persist, adv>>
txVars    == <<freeTx, pkts, txBufs>>
appVars   == <<told, held, sends>>
ctrlVars  == <<up, inCtl, links>>
queueVars == <<h4Queue, rxQueue, wire>>
vars == <<conn, work, lost, onAir, advVars, txVars, appVars, ctrlVars, queueVars>>

Event(type, h, n) == [type |-> type, handle |-> h, n |-> n]

\* A slot as bt_conn_new leaves it: everything before conn->ref cleared.
Blank == [state |-> "DISCONNECTED", ref |-> 0, handle |-> NoHandle, link |-> 0,
          txQueue |-> <<>>, noCb |-> 0, pending |-> <<>>, complete |-> <<>>, timer |-> FALSE]

Valid(k) == k.ref > 0 /\ k.state \in {"CONNECTED", "DISCONNECTING", "DISCONNECT_COMPLETE"}

\* The first slot of a set, or no slot.
First(S) == IF S = {} THEN {} ELSE {Min(S)}

\* bt_conn_lookup_handle and find_pending_connect, as the set of the slot they find.
Lookup(h) == First({c \in Conns : Valid(conn[c]) /\ conn[c].handle = h})
PendingConnect == First({c \in Conns : conn[c].ref > 0 /\ conn[c].state = "CONNECTING_ADV"})

\* k_sem_take on a count, which succeeds whether or not there was something to take.
Take(n) == IF n > 0 THEN n - 1 ELSE n

\* A wrong k_sem_give, without the limit.
GiveUnlimited(n, k) == n + k

\* k times k_sem_give.
Give(n, k) == Min({n + k, Pkts})

\* k_work_submit, k_work_reschedule with K_NO_WAIT.
Submit(item) == Append(RemoveFirst(work, item), item)
TxCompleteWork(c) == <<"tx_complete_work", c>>
DeferredWork(c)   == <<"deferred_work", c>>

\* The contexts among the given queue entries.
Contexts(q) == FlattenSeq([i \in DOMAIN q |-> IF q[i] = NoTx THEN <<>> ELSE <<q[i]>>])

-----------------------------------------------------------------------------
(* What the controller owes an answer for: conn->pending_no_cb packets     *)
(* without a context, then each context of conn->tx_pending followed by    *)
(* the packets counted in its own pending_no_cb.                           *)

Unacked(k) ==
    LET none(n) == [i \in 1 .. n |-> NoTx]
    IN  none(k.noCb) \o FlattenSeq([i \in DOMAIN k.pending |->
                                      <<k.pending[i].tx>> \o none(k.pending[i].noCb)])

\* do_send_frag: the packet joins the pending ones, behind the last of them.
Pended(k, tx) ==
    IF tx # NoTx THEN [k EXCEPT !.pending = Append(@, [tx |-> tx, noCb |-> 0])]
    ELSE IF k.pending # <<>> THEN [k EXCEPT !.pending[Len(k.pending)].noCb = @ + 1]
    ELSE [k EXCEPT !.noCb = @ + 1]

\* One turn of hci_num_completed_packets.
AckOne(k) ==
    IF k.noCb > 0 THEN [k EXCEPT !.noCb = @ - 1]
    ELSE IF k.pending = <<>> THEN k
    ELSE [k EXCEPT !.noCb = Head(k.pending).noCb,
                   !.pending = Tail(@),
                   !.complete = Append(@, Head(k.pending).tx)]
Acked(k, n) ==
    LET acked[i \in 0 .. n] == IF i = 0 THEN k ELSE AckOne(acked[i - 1])
    IN  acked[n]

\* A wrong process_unack_tx, which gives no credit for the packets without a context.
ReturnedContexts(k) == Len(k.pending)

\* process_unack_tx: nothing stays pending, and a credit comes back for each packet.
ProcessUnack(k) == [k EXCEPT !.noCb = 0, !.pending = <<>>]
Returned(k) == Len(Unacked(k))

\* A wrong conn_cleanup, which destroys the buffers without their contexts.
DestroyedNone(q) == <<>>

\* The contexts conn_cleanup destroys with the buffers of the transmit queue.
Destroyed(q) == Contexts(q)

-----------------------------------------------------------------------------
(* Advertising (adv.c). *)

Free(cs) == {c \in Conns : cs[c].ref = 0}

\* le_adv_start_add_conn, once the first reference is dropped again.
WithAdvertiser(cs) ==
    [cs EXCEPT ![Min(Free(cs))] = [Blank EXCEPT !.state = "CONNECTING_ADV", !.ref = 1]]

\* bt_le_adv_resume, after a step that leaves the slots cs and BT_ADV_ENABLED as en.
Resume(cs, en) ==
    IF persist /\ ~en /\ Free(cs) # {}
    THEN conn' = WithAdvertiser(cs) /\ enabled' = TRUE /\ adv' = TRUE
    ELSE conn' = cs /\ enabled' = en /\ UNCHANGED adv

\* bt_conn_unref of a connected peripheral: the last reference resumes advertising.
Unref(cs, c) ==
    LET left == [cs EXCEPT ![c].ref = @ - 1]
    IN  IF left[c].ref = 0 THEN Resume(left, enabled)
        ELSE conn' = left /\ UNCHANGED <<enabled, adv>>

\* bt_le_adv_start, connectable; without a free slot it only asks to be resumed later.
AdvStart ==
    /\ ~enabled
    /\ persist' = TRUE
    /\ IF Free(conn) # {}
       THEN conn' = WithAdvertiser(conn) /\ enabled' = TRUE /\ adv' = TRUE
       ELSE UNCHANGED <<conn, enabled, adv>>
    /\ UNCHANGED <<work, lost, onAir, txVars, appVars, ctrlVars, queueVars>>

\* bt_le_adv_stop: le_adv_stop_free_conn gives the slot back before the controller is told.
AdvStop ==
    /\ persist' = FALSE
    /\ persist \/ enabled
    /\ conn' = IF enabled
               THEN [c \in Conns |-> IF c \in PendingConnect
                                     THEN [conn[c] EXCEPT !.state = "DISCONNECTED", !.ref = @ - 1]
                                     ELSE conn[c]]
               ELSE conn
    /\ enabled' = FALSE
    /\ adv' = (adv /\ ~enabled)
    /\ UNCHANGED <<work, lost, onAir, txVars, appVars, ctrlVars, queueVars>>

-----------------------------------------------------------------------------
(* The controller. *)

\* No event or packet of an earlier link with this handle is still under way.
Settled(h) ==
    /\ up[h] = 0
    /\ \A i \in DOMAIN wire : wire[i].handle # h
    /\ \A i \in DOMAIN rxQueue : rxQueue[i].handle # h
    /\ \A i \in DOMAIN h4Queue : h4Queue[i] # h

Connect(h) ==
    /\ adv /\ Settled(h) /\ links < MaxLinks
    /\ links' = links + 1
    /\ up' = [up EXCEPT ![h] = links']
    /\ adv' = FALSE
    /\ wire' = Append(wire, Event("conn_complete", h, links'))
    /\ UNCHANGED <<conn, work, lost, onAir, txVars, appVars, h4Queue, rxQueue,
                   enabled, persist, inCtl>>

\* Packets still in the controller are flushed.
Drop(h) ==
    /\ up[h] # 0
    /\ up' = [up EXCEPT ![h] = 0]
    /\ inCtl' = [inCtl EXCEPT ![h] = 0]
    /\ wire' = Append(wire, Event("disconn_complete", h, 0))
    /\ UNCHANGED <<conn, work, lost, onAir, advVars, txVars, appVars, links, h4Queue, rxQueue>>

\* The peer acknowledged n packets.
Complete(h, n) ==
    /\ n \in 1 .. inCtl[h]
    /\ inCtl' = [inCtl EXCEPT ![h] = @ - n]
    /\ wire' = Append(wire, Event("num_completed_packets", h, n))
    /\ UNCHANGED <<conn, work, lost, onAir, advVars, txVars, appVars, up, links, h4Queue, rxQueue>>

\* Data from the peer; one packet at a time is enough.
Data(h) ==
    /\ up[h] # 0 /\ wire = <<>>
    /\ wire' = <<Event("acl", h, 0)>>
    /\ UNCHANGED <<conn, work, lost, onAir, advVars, txVars, appVars, ctrlVars, h4Queue, rxQueue>>

\* process_tx of hci_h4.c: the next packet leaves, and its buffer is free.
TransportSend ==
    /\ h4Queue # <<>>
    /\ h4Queue' = Tail(h4Queue)
    /\ txBufs' = txBufs + 1
    /\ inCtl' = [inCtl EXCEPT ![Head(h4Queue)] = IF up[Head(h4Queue)] # 0 THEN @ + 1 ELSE @]
    /\ UNCHANGED <<conn, work, lost, onAir, advVars, appVars, freeTx, pkts, up, links, rxQueue, wire>>

-----------------------------------------------------------------------------
(* bt_recv: what is handled at once. *)

NumCompletedPackets(m) ==
    /\ \/ \E c \in Lookup(m.handle) :
            LET k == Acked(conn[c], m.n) IN
            /\ conn' = [conn EXCEPT ![c] = k]
            /\ pkts' = Give(pkts, Len(Unacked(conn[c])) - Len(Unacked(k)))
            /\ work' = IF k.complete # conn[c].complete THEN Submit(TxCompleteWork(c)) ELSE work
            /\ onAir' = [onAir EXCEPT ![c] = SubSeq(@, m.n + 1, Len(@))]
       \/ Lookup(m.handle) = {} /\ UNCHANGED <<conn, pkts, work, onAir>>
    /\ UNCHANGED <<lost, freeTx, rxQueue>>

\* conn_handle_disconnected: every free entry takes the handle.
Recorded(h) == [c \in Conns |-> IF lost[c] = NoHandle THEN h ELSE lost[c]]

DisconnCompletePrio(m) ==
    /\ \/ \E c \in Lookup(m.handle) :
            /\ conn[c].state # "DISCONNECT_COMPLETE"
            /\ conn' = [conn EXCEPT ![c] = [ProcessUnack(@) EXCEPT !.state = "DISCONNECT_COMPLETE"]]
            /\ freeTx' = freeTx \o [i \in DOMAIN conn[c].pending |-> conn[c].pending[i].tx]
            /\ pkts' = Give(pkts, Returned(conn[c]))
            /\ onAir' = [onAir EXCEPT ![c] = <<>>]
            /\ UNCHANGED lost
       \/ /\ \E c \in Lookup(m.handle) : conn[c].state = "DISCONNECT_COMPLETE"
          /\ UNCHANGED <<conn, freeTx, pkts, onAir, lost>>
       \/ /\ Lookup(m.handle) = {}
          /\ lost' = Recorded(m.handle)
          /\ UNCHANGED <<conn, freeTx, pkts, onAir>>
    /\ rxQueue' = Append(rxQueue, m)
    /\ UNCHANGED work

Recv ==
    /\ wire # <<>> /\ Len(rxQueue) <= Backlog
    /\ wire' = Tail(wire)
    /\ LET m == Head(wire) IN
       \/ m.type = "num_completed_packets" /\ NumCompletedPackets(m)
       \/ m.type = "disconn_complete" /\ DisconnCompletePrio(m)
       \/ /\ m.type \in {"conn_complete", "acl"}
          /\ rxQueue' = Append(rxQueue, m)
          /\ UNCHANGED <<conn, work, lost, onAir, freeTx, pkts>>
    /\ UNCHANGED <<advVars, appVars, ctrlVars, txBufs, h4Queue>>

-----------------------------------------------------------------------------
(* hci_rx_thread: the next event of rx_queue. *)

\* conn_handle_is_disconnected: the first entry with the handle is cleared.
IsDisconnected(h) == \E c \in Conns : lost[c] = h
Forgotten(h) == [c \in Conns |-> IF {c} = First({d \in Conns : lost[d] = h}) THEN NoHandle ELSE lost[c]]

\* bt_hci_le_enh_conn_complete; without a slot waiting, the host only asks to disconnect.
ConnComplete(m) ==
    /\ lost' = Forgotten(m.handle)
    /\ \/ \E c \in PendingConnect :
            /\ Resume([conn EXCEPT ![c] =
                         [@ EXCEPT !.handle = m.handle, !.link = m.n, !.timer = TRUE,
                                   !.state = IF IsDisconnected(m.handle)
                                             THEN "DISCONNECT_COMPLETE" ELSE "CONNECTED"]],
                      FALSE)
            /\ told' = told \cup {c}
       \/ PendingConnect = {} /\ enabled' = FALSE /\ UNCHANGED <<conn, adv, told>>
    /\ UNCHANGED <<work, freeTx, txBufs>>

\* A wrong end of a connection, which leaves the scheduled deferred_work alone ...
CleanedUpTimerLeft(k) == [k EXCEPT !.txQueue = <<>>]

\* ... or reschedules deferred_work only when it is still waiting.
CleanupIfTimerWaits(c) == IF conn[c].timer THEN Submit(DeferredWork(c)) ELSE work

\* The scheduled deferred_work is cancelled; conn_cleanup drains the transmit queue and
\* makes deferred_work run next.
CleanedUp(k) == [k EXCEPT !.txQueue = <<>>, !.timer = FALSE]
CleanupWork(c) == Submit(DeferredWork(c))

DisconnComplete(m) ==
    /\ \/ \E c \in Lookup(m.handle) :
          IF conn[c].state = "DISCONNECT_COMPLETE"
          THEN /\ conn' = [conn EXCEPT ![c] =
                             [CleanedUp(@) EXCEPT !.state = "DISCONNECTED", !.complete = <<>>]]
               /\ freeTx' = freeTx \o conn[c].complete \o Destroyed(conn[c].txQueue)
               /\ txBufs' = txBufs + Len(conn[c].txQueue)
               /\ work' = CleanupWork(c)
          ELSE /\ conn' = [conn EXCEPT ![c].state = "DISCONNECTED"]
               /\ UNCHANGED <<freeTx, txBufs, work>>
       \/ Lookup(m.handle) = {} /\ UNCHANGED <<conn, freeTx, txBufs, work>>
    /\ UNCHANGED <<lost, told, enabled, adv>>

\* tx_notify: the callbacks of completed packets run and their contexts are free.
TxNotify(c) ==
    /\ conn' = [conn EXCEPT ![c].complete = <<>>]
    /\ freeTx' = freeTx \o conn[c].complete

\* hci_acl.
AclData(m) ==
    /\ \/ \E c \in Lookup(m.handle) : TxNotify(c)
       \/ Lookup(m.handle) = {} /\ UNCHANGED <<conn, freeTx>>
    /\ UNCHANGED <<work, lost, told, txBufs, enabled, adv>>

RxThread ==
    /\ rxQueue # <<>>
    /\ rxQueue' = Tail(rxQueue)
    /\ LET m == Head(rxQueue) IN
       \/ m.type = "conn_complete" /\ ConnComplete(m)
       \/ m.type = "disconn_complete" /\ DisconnComplete(m)
       \/ m.type = "acl" /\ AclData(m)
    /\ UNCHANGED <<onAir, persist, held, sends, ctrlVars, pkts, h4Queue, wire>>

-----------------------------------------------------------------------------
(* timeout_polling_work: the next expired work. *)

TxComplete(c) ==
    /\ TxNotify(c)
    /\ UNCHANGED <<told, enabled, adv>>

\* A wrong deferred_work, which keeps the reference of the first state transition.
DeferredWithoutUnref(cs, c) ==
    /\ told' = IF cs[c].state = "DISCONNECTED" THEN told \ {c} ELSE told
    /\ conn' = cs /\ UNCHANGED <<enabled, adv>>

\* deferred_work: in DISCONNECTED it ends the connection, in other states it only
\* asks the peer for new connection parameters.
Deferred(cs, c) ==
    IF cs[c].state = "DISCONNECTED"
    THEN told' = told \ {c} /\ Unref(cs, c)
    ELSE conn' = cs /\ UNCHANGED <<told, enabled, adv>>

RunWork ==
    /\ work # <<>>
    /\ work' = Tail(work)
    /\ \E c \in Conns :
         \/ Head(work) = TxCompleteWork(c) /\ TxComplete(c)
         \/ Head(work) = DeferredWork(c) /\ Deferred(conn, c) /\ UNCHANGED freeTx
    /\ UNCHANGED <<lost, onAir, persist, held, sends, ctrlVars, pkts, txBufs, queueVars>>

\* CONN_UPDATE_TIMEOUT after the connection, deferred_work expires.
TimerFires(c) ==
    /\ conn[c].timer
    /\ Deferred([conn EXCEPT ![c].timer = FALSE], c)
    /\ UNCHANGED <<work, lost, onAir, persist, held, sends, txVars, ctrlVars, queueVars>>

-----------------------------------------------------------------------------
(* The transmit path. *)

\* bt_conn_send_cb, with a buffer of acl_tx_pool.
Send(c, tx) ==
    /\ c \in told /\ conn[c].state = "CONNECTED"
    /\ sends < MaxSends /\ txBufs > 0
    /\ tx # NoTx => freeTx # <<>> /\ tx = Head(freeTx)
    /\ conn' = [conn EXCEPT ![c].txQueue = Append(@, tx)]
    /\ freeTx' = IF tx # NoTx THEN Tail(freeTx) ELSE freeTx
    /\ txBufs' = txBufs - 1
    /\ sends' = sends + 1
    /\ UNCHANGED <<work, lost, onAir, advVars, told, held, ctrlVars, pkts, queueVars>>

\* A wrong do_send_frag, which takes any state with a valid handle for a connection.
MayTransmitWhileValid(k) == Valid(k)

\* The state do_send_frag asks for.
MayTransmit(k) == k.state = "CONNECTED"

\* One turn of bt_conn_tx_polling.  k_sem_take never fails, so the buffer is always dequeued;
\* in any other state than CONNECTED do_send_frag destroys the context and keeps the buffer.
TxPoll(c) ==
    LET k == [conn[c] EXCEPT !.txQueue = Tail(@)]
        tx == Head(conn[c].txQueue)
    IN
    /\ conn[c].txQueue # <<>>
    /\ IF MayTransmit(conn[c])
       THEN /\ conn' = [conn EXCEPT ![c] = Pended(k, tx)]
            /\ pkts' = Take(pkts)
            /\ onAir' = [onAir EXCEPT ![c] = Append(@, tx)]
            /\ h4Queue' = Append(h4Queue, conn[c].handle)
            /\ UNCHANGED freeTx
       ELSE /\ conn' = [conn EXCEPT ![c] = k]
            /\ pkts' = Give(Take(pkts), 1)
            /\ freeTx' = freeTx \o Contexts(<<tx>>)
            /\ UNCHANGED <<onAir, h4Queue>>
    /\ UNCHANGED <<work, lost, advVars, appVars, ctrlVars, txBufs, rxQueue, wire>>

-----------------------------------------------------------------------------
(* The application. *)

\* bt_conn_disconnect.
Disconnect(c) ==
    /\ c \in told /\ conn[c].state = "CONNECTED"
    /\ conn' = [conn EXCEPT ![c].state = "DISCONNECTING"]
    /\ UNCHANGED <<work, lost, onAir, advVars, txVars, appVars, ctrlVars, queueVars>>

\* bt_conn_ref, of a connection it was told of.
HoldRef(c) ==
    /\ c \in told \ held
    /\ held' = held \cup {c}
    /\ conn' = [conn EXCEPT ![c].ref = @ + 1]
    /\ UNCHANGED <<work, lost, onAir, advVars, txVars, told, sends, ctrlVars, queueVars>>

DropRef(c) ==
    /\ c \in held
    /\ held' = held \ {c}
    /\ Unref(conn, c)
    /\ UNCHANGED <<work, lost, onAir, persist, txVars, told, sends, ctrlVars, queueVars>>

-----------------------------------------------------------------------------
\* bt_enable.
Init ==
    /\ conn = [c \in Conns |-> Blank]
    /\ work = <<>>
    /\ freeTx = SetToSeq(Txs)
    /\ pkts = Pkts
    /\ lost = [c \in Conns |-> NoHandle]
    /\ txBufs = Bufs
    /\ h4Queue = <<>> /\ rxQueue = <<>> /\ wire = <<>>
    /\ enabled = FALSE /\ persist = FALSE /\ adv = FALSE
    /\ told = {} /\ held = {}
    /\ up = [h \in Handles |-> 0]
    /\ inCtl = [h \in Handles |-> 0]
    /\ links = 0
    /\ onAir = [c \in Conns |-> <<>>]
    /\ sends = 0

Application ==
    \/ AdvStart \/ AdvStop
    \/ \E c \in Conns : Disconnect(c) \/ HoldRef(c) \/ DropRef(c)
    \/ \E c \in Conns, tx \in Txs \cup {NoTx} : Send(c, tx)

Controller ==
    /\ Len(wire) < MaxWire
    /\ \E h \in Handles :
       \/ Connect(h) \/ Drop(h) \/ Data(h)
       \/ \E n \in 1 .. MaxSends : Complete(h, n)

MainLoop ==
    \/ Recv \/ RxThread \/ RunWork \/ TransportSend
    \/ \E c \in Conns : TxPoll(c) \/ TimerFires(c)

Next == Application \/ Controller \/ MainLoop

\* The main loop calls the driver, hci_rx_thread and timeout_polling_work for ever.
Fairness == WF_vars(Recv) /\ WF_vars(RxThread) /\ WF_vars(RunWork)

Spec == Init /\ [][Next]_vars
FairSpec == Spec /\ Fairness
-----------------------------------------------------------------------------
(* Properties. *)

TxSeqs == UNION {[1 .. n -> Txs] : n \in 0 .. Cardinality(Txs)}

\* Types, and the limits of the semaphore and of the pool: k_sem_give never passes the
\* limit of bt_dev.le.acl_pkts, and no more buffers return to acl_tx_pool than it gave.
TypeOK ==
    /\ \A c \in Conns :
         /\ conn[c].state \in {"DISCONNECTED", "CONNECTING_ADV", "CONNECTED",
                               "DISCONNECTING", "DISCONNECT_COMPLETE"}
         /\ conn[c].ref \in 0 .. 2 /\ conn[c].link \in 0 .. MaxLinks
         /\ conn[c].handle \in Handles \cup {NoHandle}
         /\ conn[c].noCb \in 0 .. MaxSends /\ conn[c].timer \in BOOLEAN
         /\ Range(conn[c].pending) \subseteq [tx : Txs, noCb : 0 .. MaxSends]
         /\ Range(conn[c].txQueue) \subseteq Txs \cup {NoTx}
         /\ conn[c].complete \in TxSeqs
    /\ freeTx \in TxSeqs
    /\ pkts \in 0 .. Pkts /\ txBufs \in 0 .. Bufs
    /\ lost \in [Conns -> Handles \cup {NoHandle}]
    /\ told \subseteq Conns /\ held \subseteq Conns
    /\ up \in [Handles -> 0 .. MaxLinks] /\ inCtl \in [Handles -> 0 .. MaxSends]

\* Every context of conn_tx is in exactly one place: free_tx, a buffer of a tx_queue, a
\* tx_pending or a tx_complete.  Contexts move when a packet is sent and completed and in
\* both steps of a disconnection (conn.c:62-75, 203-241, 780-794, 962-1000).
TxContextsAccounted ==
    LET of(k) == k.complete \o Contexts(Unacked(k)) \o Contexts(k.txQueue)
        all == freeTx \o FlattenSeq([c \in Conns |-> of(conn[c])])
    IN  Len(all) = Cardinality(Txs) /\ Range(all) = Txs

\* A slot has the reference of its life, from the first state transition to the end of
\* deferred_work (conn.c:1053-1060, 1839-1842), one for the application if it took it, and
\* no other: what the handlers take to look at a slot they give back.
RefsMatchHolders ==
    \A c \in Conns :
       conn[c].ref = (IF c \in told \/ conn[c].state = "CONNECTING_ADV" THEN 1 ELSE 0)
                     + (IF c \in held THEN 1 ELSE 0)

\* bt_conn_new clears a free slot and initialises its works (conn.c:243-272); that is
\* only harmless when neither is submitted or scheduled and nothing is left in its queues.
FreeSlotIsIdle ==
    \A c \in Conns : conn[c].ref = 0 =>
       /\ {TxCompleteWork(c), DeferredWork(c)} \cap Range(work) = {}
       /\ ~conn[c].timer
       /\ conn[c].txQueue = <<>> /\ Unacked(conn[c]) = <<>> /\ conn[c].complete = <<>>

\* pending_no_cb and tx_pending together say which packets, with which contexts and in which
\* order, the controller has not reported, so that the callback that runs is that of the packet
\* that was completed (conn.c:579-600, hci_core.c:404-439); and none once the connection is
\* dead, as conn_cleanup asserts (conn.c:796-797): nothing is given to the transport between
\* the early and the late handling of a disconnection.
PendingMirrorsSent ==
    \A c \in Conns :
       Unacked(conn[c]) = IF conn[c].state \in {"CONNECTED", "DISCONNECTING"} THEN onAir[c] ELSE <<>>

\* Every credit that is not available stands for a packet some connection waits for: no
\* completion and no disconnection loses one (hci_core.c:412-438, conn.c:962-1000).
CreditsNeverLost ==
    pkts + MapThenSumSet(LAMBDA c : Len(Unacked(conn[c])), Conns) >= Pkts

\* When a link is dropped, the application that was told it connected is told that it
\* disconnected (conn.c:1120-1133, 1800-1843).
DropIsReported ==
    \A c \in Conns, l \in Links :
       (c \in told /\ conn[c].link = l /\ l \notin Range(up)) ~> ~(c \in told /\ conn[c].link = l)

\* A connection is marked as already disconnected only when its link is
\* (hci_core.c:749-751, 1380-1384).
DeadOnlyIfDropped ==
    \A c \in Conns : conn[c].state = "DISCONNECT_COMPLETE" => up[conn[c].handle] # conn[c].link

\* A buffer of acl_tx_pool is free, in a tx_queue or with the transport: whatever fails on
\* the way, do_send_frag and bt_conn_process_tx destroy it (conn.c:643-645).
EveryBufferReturned ==
    txBufs + Len(h4Queue) + MapThenSumSet(LAMBDA c : Len(conn[c].txQueue), Conns) = Bufs

\* A packet is only dequeued when the controller has a buffer for it (conn.c:929-930).
FreeControllerBuffers ==
    MapThenSumSet(LAMBDA c : Len(onAir[c]), Conns) <= Pkts
=============================================================================
