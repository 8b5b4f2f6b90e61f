-------------------------------- MODULE Central --------------------------------
(***************************************************************************)
(* The host as a central: scanning for the application and for itself      *)
(* (scan.c), creating connections on request or whenever a peer is seen    *)
(* (conn.c, hci_core.c), and the random address the two share (id.c).      *)
(* Zephyr waited for each command; here they are queued, and a flag of     *)
(* bt_dev follows when the command completes, if no other command was      *)
(* made in the meantime.                                                   *)
(*                                                                         *)
(* CONFIG_BT_CENTRAL alone: no advertising, accept list, privacy, extended *)
(* commands or host-based address resolution; the identity is a static     *)
(* random address.  Commands that change nothing kept here (scan           *)
(* parameters, remote features) only take the place of the command         *)
(* remembered.  Packets, handles and the two halves of a Disconnection     *)
(* Complete are the subject of Conn.                                       *)
(***************************************************************************)
EXTENDS Naturals, SequencesExt

CONSTANTS
    Conns,      \* 1 .. CONFIG_BT_MAX_CONN
    Direct,     \* the peers the application connects to itself, one at a time
    Allowed,    \* those it gives to bt_le_set_auto_conn
    MaxRefs,    \* bound: a link does not end when its slot has so many references
    MaxAsked,   \* bound: the application does nothing while so many commands wait
    MaxWire,    \* bound: the controller has no news while so many events are on their way
    Nobody

\* What the module assumes of its constants; MCLayers asserts it of each instance.
CentralAssumption ==
    /\ IsFiniteSet(Conns) /\ Conns = 1 .. Cardinality(Conns) /\ Conns # {}
    /\ {MaxRefs, MaxAsked, MaxWire} \subseteq Nat \ {0}
    /\ Nobody \notin Direct \cup Allowed

Peers == Direct \cup Allowed

VARIABLES
    host,    \* flags of bt_dev, the command remembered, cmd_tx_queue, random_addr, acl_conns
    ctl,     \* what the controller does
    wire     \* its events the host has not seen

centralVars == <<host, ctl, wire>>

NoInit == [peer |-> Nobody, addr |-> "id", blind |-> FALSE]

Free == [ref |-> 0, state |-> "DISCONNECTED", peer |-> Nobody, auto |-> FALSE, work |-> "none", held |-> FALSE]

Slot(h, st) == {s \in Conns : h.slot[s].ref > 0 /\ h.slot[s].state = st}
Known(h, p) == {s \in Conns : h.slot[s].ref > 0 /\ h.slot[s].peer = p}
Unused(h) == {s \in Conns : h.slot[s].ref = 0}
First(S) == CHOOSE s \in S : \A t \in S : s <= t

-----------------------------------------------------------------------------
(* Commands. *)

\* bt_hci_cmd_create, bt_hci_cmd_state_set_init and bt_hci_cmd_send.  blind is not in the code:
\* the command was made when, for all the host had asked, the controller might be scanning, so
\* that it refuses a random address.
Cmd(op, arg, blind) == [op |-> op, arg |-> arg, blind |-> blind]
SendCmd(h, c) == [h EXCEPT !.cmds = Append(@, c), !.latch = c]

Scan(h, on) == [SendCmd(h, Cmd("SCAN", on, FALSE)) EXCEPT !.lastScan = on]

\* A command no flag depends on, such as LE Read Remote Features.
OtherCmd(h) == [h EXCEPT !.latch = Cmd("OTHER", Nobody, FALSE)]

\* set_random_address; an NRPA is a new one each time.
SetAddress(h, a) ==
    IF a = "id" /\ h.addr = "id" THEN h
    ELSE [SendCmd(h, Cmd("ADDR", a, FALSE)) EXCEPT !.addr = a]

StopIfScanning(h) == IF h.scanning THEN Scan(h, FALSE) ELSE h

\* start_le_scan_legacy.
StartScanning(h) == [Scan(SetAddress(h, "nrpa"), TRUE) EXCEPT !.blind = FALSE]

\* bt_le_create_conn.
CreateConn(h, p) ==
    LET b == h.blind \/ h.lastScan
    IN  [SendCmd(SetAddress(h, "id"), Cmd("CREATE", p, b)) EXCEPT !.blind = b]

\* bt_le_create_conn_cancel.
CancelConn(h) == SendCmd(h, Cmd("CANCEL", Nobody, FALSE))

\* bt_le_scan_update once it has decided to: the scan of the host itself, for peers it is to
\* connect to when it sees them.
OwnScan(h) ==
    IF Slot(h, "CONNECTING") = {} /\ Slot(h, "CONNECTING_SCAN") # {} THEN StartScanning(h) ELSE h

\* A wrong bt_le_scan_update, which does not leave the application's scan alone.
ScanUpdateAnyway(h) == OwnScan(StopIfScanning(h))

\* bt_le_scan_update.
ScanUpdate(h) == IF h.explicit THEN h ELSE OwnScan(StopIfScanning(h))

-----------------------------------------------------------------------------
(* Slots. *)

Ref(h, s) == [h EXCEPT !.slot[s].ref = @ + 1]
Unref(h, s) ==
    IF h.slot[s].ref = 1 THEN [h EXCEPT !.slot[s] = Free] ELSE [h EXCEPT !.slot[s].ref = @ - 1]

\* bt_conn_add_le; the reference is the caller's.
Added(h, s, p) == [h EXCEPT !.slot[s] = [Free EXCEPT !.ref = 1, !.peer = p]]

\* bt_conn_set_state out of DISCONNECTED, which takes a reference, and to CONNECTING, which
\* starts the timer.
Enter(h, s, st) == [Ref(h, s) EXCEPT !.slot[s].state = st,
                                     !.slot[s].work = IF st = "CONNECTING" THEN "timer" ELSE @]

\* crowded is not in the code: two connections have been pending at once, which
\* le_conn_complete_cancel takes for impossible.
Pend(h) == [h EXCEPT !.crowded = @ \/ Slot(h, "CONNECTING") # {}]

\* bt_conn_set_state from CONNECTING or CONNECTING_SCAN to DISCONNECTED, up to notify_connected
\* with the error; and with the reference, which is dropped after it.
Ended(h, s) == [h EXCEPT !.slot[s].state = "DISCONNECTED", !.slot[s].work = "none",
                         !.waiting = @ \ {s}]
Left(h, s) == Unref(Ended(h, s), s)

\* bt_le_set_auto_conn with parameters; the reference bt_conn_add_le took becomes the flag's.
AutoOn(h, p) ==
    LET s == IF Known(h, p) # {} THEN First(Known(h, p)) ELSE First(Unused(h))
        k == IF Known(h, p) = {} THEN Added(h, s, p)
             ELSE IF h.slot[s].auto THEN h ELSE Ref(h, s)
        f == [k EXCEPT !.slot[s].auto = TRUE]
    IN  IF f.slot[s].state = "DISCONNECTED" THEN ScanUpdate(Enter(f, s, "CONNECTING_SCAN")) ELSE f

\* The flag is cleared, and its reference dropped.
Disallowed(h, s) == IF h.slot[s].auto THEN Unref([h EXCEPT !.slot[s].auto = FALSE], s) ELSE h

\* bt_le_set_auto_conn without, for a peer that has slot s.
AutoOff(h, s) ==
    LET k == Disallowed(h, s)
    IN  CASE h.slot[s].state = "CONNECTING_SCAN" /\ h.slot[s].auto -> ScanUpdate(Left(k, s))
          [] h.slot[s].state = "DISCONNECTED" -> ScanUpdate(k)
          [] OTHER -> k

-----------------------------------------------------------------------------
(* The application.  It may call while few enough commands wait. *)

MayAsk == Len(host.cmds) < MaxAsked

\* bt_le_scan_start and bt_le_scan_stop.
ScanStarted(h) == StartScanning(StopIfScanning([h EXCEPT !.explicit = TRUE]))
StartScan == MayAsk /\ ~host.explicit /\ host' = ScanStarted(host) /\ UNCHANGED <<ctl, wire>>
StopScan ==
    /\ MayAsk /\ host.explicit
    /\ host' = ScanUpdate([host EXCEPT !.explicit = FALSE])
    /\ UNCHANGED <<ctl, wire>>

\* bt_conn_le_create.  The application waits for the answer to one before it asks for the next:
\* the flag that should stop it, BT_DEV_INITIATING, is set late.
Create(p) ==
    /\ MayAsk /\ host.waiting = {}
    /\ ~host.explicit /\ ~host.initiating /\ Known(host, p) = {} /\ Unused(host) # {}
    /\ LET s == First(Unused(host))
           k == [Added(Pend(host), s, p) EXCEPT !.slot[s].held = TRUE, !.waiting = @ \cup {s}]
       IN  host' = CreateConn(Enter(k, s, "CONNECTING"), p)
    /\ UNCHANGED <<ctl, wire>>

\* bt_le_set_auto_conn.
Allow(p) ==
    /\ MayAsk
    /\ Known(host, p) # {} \/ Unused(host) # {}
    /\ \A s \in Known(host, p) : ~host.slot[s].auto
    /\ host' = AutoOn(host, p)
    /\ UNCHANGED <<ctl, wire>>

\* bt_conn_disconnect.
Disconnect(s) ==
    /\ MayAsk /\ host.slot[s].ref > 0
    /\ LET k == AutoOff(host, s)
       IN  host' = CASE k.slot[s].state = "CONNECTING" -> CancelConn([k EXCEPT !.slot[s].work = "none"])
                     [] k.slot[s].state = "CONNECTED" ->
                            [SendCmd(k, Cmd("DISC", k.slot[s].peer, FALSE)) EXCEPT !.slot[s].state = "DISCONNECTING"]
                     [] k.slot[s].state = "CONNECTING_SCAN" -> ScanUpdate(Left(k, s))
                     [] OTHER -> k
    /\ host' # host
    /\ UNCHANGED <<ctl, wire>>

\* bt_conn_unref, once the application has seen the end of what it created.
Release(s) ==
    /\ host.slot[s].held /\ host.slot[s].state = "DISCONNECTED"
    /\ host' = Unref([host EXCEPT !.slot[s].held = FALSE], s)
    /\ UNCHANGED <<ctl, wire>>

\* deferred_work: the timer of a connection that does not come about, or the clean-up of one that
\* has ended, if nothing happened to the slot since.
DeferredWork(s) ==
    /\ host.slot[s].work # "none"
    /\ LET k == [host EXCEPT !.slot[s].work = "none"]
       IN  host' = IF k.slot[s].state = "DISCONNECTED" THEN Unref(k, s) ELSE CancelConn(k)
    /\ UNCHANGED <<ctl, wire>>

-----------------------------------------------------------------------------
(* Events. *)

\* hci_cmd_done, which runs as the event arrives, before those that wait in rx_queue.
CmdDone ==
    \E i \in 1 .. Len(wire) :
        /\ wire[i].type = "done"
        /\ LET c == host.latch
               hit == wire[i].ok /\ c.op = wire[i].op
           IN  host' = CASE hit /\ c.op = "SCAN" -> [host EXCEPT !.scanning = c.arg]
                         [] hit /\ c.op \in {"CREATE", "CANCEL"} -> [host EXCEPT !.initiating = (c.op = "CREATE")]
                         [] OTHER -> host
        /\ wire' = RemoveAt(wire, i)
    /\ UNCHANGED ctl

NextEvent(type) == wire # <<>> /\ Head(wire).type = type /\ wire' = Tail(wire) /\ UNCHANGED ctl

\* check_pending_conn.
Report ==
    /\ NextEvent("report")
    /\ LET S == {s \in Slot(host, "CONNECTING_SCAN") : host.slot[s].peer = Head(wire).peer}
       IN  host' = IF host.explicit \/ S = {} THEN host
                   ELSE LET k == CreateConn(StopIfScanning(Pend(host)), Head(wire).peer)
                        IN  [k EXCEPT !.slot[First(S)].state = "CONNECTING", !.slot[First(S)].work = "timer"]

\* bt_hci_le_enh_conn_complete: a connection.
ConnComplete ==
    /\ NextEvent("connected")
    /\ LET S == {s \in Slot(host, "CONNECTING") : host.slot[s].peer = Head(wire).peer}
           k == [host EXCEPT !.initiating = FALSE]
       IN  host' = IF S = {} THEN SendCmd(k, Cmd("DISC", Head(wire).peer, FALSE))
                   ELSE ScanUpdate(OtherCmd([k EXCEPT !.slot[First(S)].state = "CONNECTED",
                                                   !.slot[First(S)].work = "none",
                                                   !.waiting = @ \ {First(S)}]))

\* bt_hci_le_enh_conn_complete and le_conn_complete_cancel.  From connected() the application
\* may do nothing, start to scan, or give the peer up.
CancelComplete ==
    /\ NextEvent("cancelled")
    /\ IF Slot(host, "CONNECTING") = {} THEN host' = ScanUpdate(host)
       ELSE LET s == First(Slot(host, "CONNECTING"))
                Again(h) == ScanUpdate(IF h.slot[s].auto THEN Enter(h, s, "CONNECTING_SCAN") ELSE h)
            IN  \/ host' = Again(Left(host, s))
                \/ ~host.explicit /\ host' = Again(Unref(ScanStarted(Ended(host, s)), s))
                \/ host.slot[s].auto /\ host' = Again(Unref(AutoOff(Ended(host, s), s), s))

\* hci_disconn_complete_prio and hci_disconn_complete.
DisconnComplete ==
    /\ NextEvent("dropped")
    /\ LET S == {s \in Known(host, Head(wire).peer) : host.slot[s].state \in {"CONNECTED", "DISCONNECTING"}}
           Ends(s) == [host EXCEPT !.slot[s].state = "DISCONNECTED", !.slot[s].work = "now"]
       IN  \/ S = {} /\ UNCHANGED host
           \/ \E s \in S :
                 /\ host.slot[s].ref < MaxRefs
                 /\ host' = IF host.slot[s].auto THEN ScanUpdate(Enter(Ends(s), s, "CONNECTING_SCAN"))
                            ELSE Ends(s)

-----------------------------------------------------------------------------
(* The controller. *)

\* It takes the next command when the host knows of the end of the last; it refuses a random
\* address while scanning or initiating, and a second connection while initiating.
AtRest == ctl.init.peer = Nobody
Accepts(c) == CASE c.op = "ADDR" -> AtRest /\ ~ctl.scanning
                [] c.op = "CREATE" -> AtRest
                [] c.op = "CANCEL" -> ~AtRest
                [] c.op = "DISC" -> c.arg \in ctl.links
                [] OTHER -> TRUE
Effect(c) == CASE c.op = "SCAN" -> [ctl EXCEPT !.scanning = c.arg]
               [] c.op = "ADDR" -> [ctl EXCEPT !.addr = c.arg]
               [] c.op = "CREATE" -> [ctl EXCEPT !.init = [peer |-> c.arg, addr |-> ctl.addr, blind |-> c.blind]]
               [] c.op = "CANCEL" -> [ctl EXCEPT !.init = NoInit]
               [] c.op = "DISC" -> [ctl EXCEPT !.links = @ \ {c.arg}]
               [] OTHER -> ctl
Executes ==
    /\ host.cmds # <<>> /\ \A i \in 1 .. Len(wire) : wire[i].type # "done"
    /\ LET c == Head(host.cmds)
           said == Append(wire, [type |-> "done", op |-> c.op, ok |-> Accepts(c)])
       IN  /\ ctl' = IF Accepts(c) THEN Effect(c) ELSE ctl
           /\ wire' = CASE Accepts(c) /\ c.op = "CANCEL" -> Append(said, [type |-> "cancelled"])
                        [] Accepts(c) /\ c.op = "DISC" -> Append(said, [type |-> "dropped", peer |-> c.arg])
                        [] OTHER -> said
    /\ host' = [host EXCEPT !.cmds = Tail(@)]

Quiet == Len(wire) >= MaxWire
Tells(type, p) == wire' = Append(wire, [type |-> type, peer |-> p]) /\ UNCHANGED host

Establishes ==
    /\ ~Quiet /\ ~AtRest
    /\ ctl' = [ctl EXCEPT !.init = NoInit, !.links = @ \cup {ctl.init.peer}]
    /\ Tells("connected", ctl.init.peer)

Sees(p) == ~Quiet /\ ctl.scanning /\ p \notin ctl.links /\ Tells("report", p) /\ UNCHANGED ctl

LosesLink(p) == ~Quiet /\ p \in ctl.links /\ ctl' = [ctl EXCEPT !.links = @ \ {p}] /\ Tells("dropped", p)

-----------------------------------------------------------------------------
\* After bt_enable, which left the identity in the controller.
CentralInit ==
    /\ host = [explicit |-> FALSE, scanning |-> FALSE, initiating |-> FALSE,
               latch |-> Cmd("OTHER", Nobody, FALSE), cmds |-> <<>>, addr |-> "id",
               slot |-> [s \in Conns |-> Free], waiting |-> {}, lastScan |-> FALSE, blind |-> FALSE, crowded |-> FALSE]
    /\ ctl = [scanning |-> FALSE, init |-> NoInit, addr |-> "id", links |-> {}]
    /\ wire = <<>>

CentralNext ==
    \/ StartScan \/ StopScan \/ \E p \in Direct : Create(p)
    \/ \E p \in Allowed : Allow(p)
    \/ \E s \in Conns : Disconnect(s) \/ Release(s) \/ DeferredWork(s)
    \/ CmdDone \/ Report \/ ConnComplete \/ CancelComplete \/ DisconnComplete
    \/ Executes \/ Establishes \/ \E p \in Allowed : Sees(p)
    \/ \E p \in Peers : LosesLink(p)

CentralSpec == CentralInit /\ [][CentralNext]_centralVars

-----------------------------------------------------------------------------
CentralTypeOK ==
    /\ host.slot \in [Conns -> [ref : 0 .. MaxRefs + 2, peer : Peers \cup {Nobody}, auto : BOOLEAN,
                                work : {"none", "timer", "now"}, held : BOOLEAN,
                                state : {"DISCONNECTED", "CONNECTING", "CONNECTING_SCAN",
                                         "CONNECTED", "DISCONNECTING"}]]
    /\ {host.explicit, host.scanning, host.initiating, host.lastScan, host.blind, host.crowded} \subseteq BOOLEAN
    /\ host.addr \in {"id", "nrpa"} /\ host.waiting \subseteq Conns
    /\ \A s \in Conns : host.slot[s].ref = 0 => host.slot[s] = Free
    /\ ctl.scanning \in BOOLEAN /\ ctl.addr \in {"id", "nrpa"} /\ ctl.links \subseteq Peers
    /\ ctl.init.peer \in Peers \cup {Nobody}

Waits(op) == \E i \in 1 .. Len(host.cmds) : host.cmds[i].op = op
Due(type) == \E i \in 1 .. Len(wire) : wire[i].type = type

\* Whoever needs the scan has it: once the scan commands have been obeyed the controller scans
\* while the application asked it to, and while the host waits to see a peer and is not
\* connecting to another (bt_le_scan_update, which every other user of the scanner calls).
WantedScanRuns ==
    LET own == Slot(host, "CONNECTING_SCAN") # {} /\ Slot(host, "CONNECTING") = {}
    IN  ~Waits("SCAN") /\ (host.explicit \/ own) => ctl.scanning

\* The scanner's address is not used to connect: unless the host left the scanner on, or two
\* connections have been pending, the controller initiates with the identity (the comment of
\* bt_id_set_create_conn_own_addr).
ConnectsAsItself == ~host.crowded /\ ~AtRest /\ ~ctl.init.blind => ctl.init.addr = "id"

\* A connection that is being created comes about, or is given up: the timer runs, or a cancel is
\* on its way to the controller, or the outcome on its way to the host (deferred_work).  Of two that
\* are pending at once the controller refuses one, and neither its timer nor a cancel ends that.
PendingEnds ==
    ~host.crowded =>
        \A s \in Slot(host, "CONNECTING") :
            \/ host.slot[s].work = "timer" \/ Waits("CANCEL")
            \/ Due("connected") \/ Due("cancelled")
===============================================================================
