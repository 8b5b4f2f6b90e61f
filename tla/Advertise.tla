------------------------------- MODULE Advertise ------------------------------
(***************************************************************************)
(* The advertiser of a peripheral and the address it shows (adv.c, id.c    *)
(* and hci_core.c): starting, stopping and resuming, the limit of limited  *)
(* advertising, and the Resolvable Private Address, which a timer rotates. *)
(* Zephyr waited for each command; here they are queued, and               *)
(* BT_ADV_ENABLED follows when the command completes, if no other command  *)
(* was made in the meantime.                                               *)
(*                                                                         *)
(* CONFIG_BT_PRIVACY and CONFIG_BT_PERIPHERAL alone, as in                 *)
(* example/peripheral: no scanner, no extended advertising, one identity,  *)
(* which is a static random address, and a controller without address      *)
(* resolution.  Advertising is connectable and undirected.  Conn has the   *)
(* slots with their references; here a slot is free when its link is gone. *)
(***************************************************************************)
EXTENDS Naturals, SequencesExt, FiniteSetsExt

CONSTANTS
    Handles,    \* connection handles
    Slots,      \* CONFIG_BT_MAX_CONN
    Asks,       \* what the application asks of bt_le_adv_start
    PerConn,    \* BT_LE_STATES_PER_CONN_ADV of the controller
    Exchanges,  \* conn_auto_initiate sends a command
    MaxRpas,    \* bound: private addresses made
    MaxCmds,    \* bound: the application does nothing while so many commands wait
    None

\* Of a link: the address the host believes the peer saw and the one it saw.
Links == [resp : 0 .. MaxRpas, shown : 0 .. MaxRpas, blind : BOOLEAN, gone : BOOLEAN]

\* What the module assumes of its constants; MCLayers asserts it of each instance.
AdvertiseAssumption ==
    /\ {Slots, MaxRpas} \subseteq Nat \ {0} /\ MaxCmds \in Nat
    /\ {PerConn, Exchanges} \subseteq BOOLEAN
    /\ Asks \subseteq [private : BOOLEAN, persist : BOOLEAN, limited : BOOLEAN]
    /\ None \notin Asks \cup Links

VARIABLES
    adv,    \* flags and works of the advertiser and of bt_dev, random_addr, commands, slots;
            \* not in the code: made, asked (the last Enable), wish (what the application has
            \* asked for and not ended) and blind (see FlagIsStale)
    radio,  \* what the controller does
    events  \* its events the host has not seen

advVars == <<adv, radio, events>>

\* An address: this one, or the number of a private one.
Identity == 0

Command(op, arg) == [op |-> op, arg |-> arg]

-----------------------------------------------------------------------------
(* Commands and addresses. *)

\* bt_hci_cmd_create, bt_hci_cmd_state_set_init and bt_hci_cmd_send.
Do(a, c) == [a EXCEPT !.cmds = Append(@, c), !.latch = c]

\* A command no flag depends on, such as LE Set Advertising Parameters.
Other(a) == [a EXCEPT !.latch = Command("OTHER", None)]

\* bt_le_adv_set_enable_legacy.
Enable(a, on) == [Do(a, Command("ENABLE", on)) EXCEPT !.asked = on]

\* set_random_address.
SetRandomAddress(a, addr) ==
    IF addr = a.addr THEN a ELSE [Do(a, Command("ADDR", addr)) EXCEPT !.addr = addr]

\* bt_id_set_private_addr, with le_rpa_timeout_submit.
SetPrivateAddr(a) ==
    IF a.valid THEN a
    ELSE [SetRandomAddress(a, a.made + 1) EXCEPT !.valid = TRUE, !.rpaTimer = TRUE, !.made = @ + 1]

\* bt_id_set_adv_own_addr.
SetOwnAddr(a, private) == IF private THEN SetPrivateAddr(a) ELSE SetRandomAddress(a, Identity)

\* le_rpa_invalidate.
Invalidated(a) == [a EXCEPT !.valid = FALSE, !.rpaTimer = FALSE]

\* adv_is_private_enabled.
PrivateEnabled(a) == a.enabled /\ a.private

\* A wrong le_update_private_addr, which changes the address on the air.
RotateOnAir(a) == SetPrivateAddr(a)

\* le_update_private_addr.
Rotate(a) ==
    IF PrivateEnabled(a) THEN Enable(SetPrivateAddr(Enable(a, FALSE)), TRUE) ELSE SetPrivateAddr(a)

-----------------------------------------------------------------------------
(* Starting, stopping and resuming. *)

Used(a) == {h \in Handles : a.conn[h] # None}
Room(a) == a.pending + Cardinality(Used(a)) < Slots

\* le_adv_start_add_conn and the command that follows it.
Advertising(a) == Enable([a EXCEPT !.pending = @ + 1], TRUE)

\* bt_le_adv_start_legacy.  Without a free slot it asks to be resumed, or fails after it has set
\* the address.
Started(a, ask) ==
    LET k == Other(SetOwnAddr(a, ask.private))
    IN  IF ~Room(k) /\ ~ask.persist THEN k
        ELSE [(IF Room(k) THEN Advertising(k) ELSE k)
                EXCEPT !.persist = ask.persist, !.private = ask.private, !.wish = ask]

\* bt_le_adv_resume.
Resumed(a) ==
    IF a.persist /\ ~a.enabled /\ Room(a) THEN Advertising(SetOwnAddr(a, a.private)) ELSE a

\* A wrong bt_le_adv_stop, which leaves BT_ADV_PERSIST to the resumption.
StoppedForNow(a) ==
    LET k == [a EXCEPT !.limit = FALSE, !.wish = None]
    IN  IF a.enabled THEN Enable([k EXCEPT !.pending = IF @ > 0 THEN @ - 1 ELSE 0], FALSE) ELSE k

\* bt_le_adv_stop; le_adv_stop_free_conn finds one slot.
Stopped(a) ==
    LET k == [a EXCEPT !.limit = FALSE, !.persist = FALSE, !.wish = None]
    IN  IF a.enabled THEN Enable([k EXCEPT !.pending = IF @ > 0 THEN @ - 1 ELSE 0], FALSE) ELSE k

-----------------------------------------------------------------------------
(* The application and the timers. *)

MayCall == Len(adv.cmds) < MaxCmds

\* BT_ADV_ENABLED does not tell what the controller does, or will once it has obeyed: the
\* completion of the last command has not come, or was missed, or a connection is on its way.
Coming(type) == \E i \in 1 .. Len(events) : events[i].type = type
FlagIsStale == adv.enabled # adv.asked \/ Coming("connected")
Idle ==
    /\ ~adv.enabled /\ ~radio.on /\ adv.pending = 0 /\ adv.cmds = <<>> /\ events = <<>>
    /\ radio.addr = adv.addr /\ adv.wish = None

\* A call or a timer that looks at the flag; what comes of a stale one is not claimed to be right
\* before advertising starts anew.
Acts(a) == /\ adv' = [a EXCEPT !.blind = FlagIsStale \/ (@ /\ ~Idle)]
           /\ UNCHANGED <<radio, events>>

\* bt_le_adv_start; the limit is started whatever becomes of the rest.  The application does not
\* ask for a limit while one runs: the work is initialised again, and with it its place in the
\* timeout list.
Start(ask) ==
    /\ MayCall /\ ~(ask.limited /\ adv.limit)
    /\ LET k == IF adv.enabled THEN adv ELSE Started(adv, ask)
       IN  Acts([k EXCEPT !.limit = @ \/ ask.limited])

Stop == MayCall /\ Acts(Stopped(adv))

\* adv_timeout.
LimitReached == adv.limit /\ Acts(Stopped(adv))

\* rpa_timeout.
RpaTimeout ==
    /\ adv.rpaTimer /\ adv.made < MaxRpas
    /\ Acts(LET k == Invalidated(adv) IN IF PrivateEnabled(k) THEN Rotate(k) ELSE k)

\* bt_le_oob_get_local, with le_force_rpa_timeout.
OobGetLocal ==
    /\ MayCall /\ adv.made < MaxRpas /\ ~(adv.enabled /\ ~adv.private)
    /\ Acts(Rotate(Invalidated(adv)))

-----------------------------------------------------------------------------
(* Events. *)

\* hci_cmd_done, which runs as the event arrives, before those that wait in rx_queue.
Done ==
    \E i \in 1 .. Len(events) :
        /\ events[i].type = "done"
        /\ adv' = IF events[i].ok /\ events[i].op = "ENABLE" /\ adv.latch.op = "ENABLE"
                  THEN [adv EXCEPT !.enabled = adv.latch.arg] ELSE adv
        /\ events' = RemoveAt(events, i)
    /\ UNCHANGED radio

Next1(type) == events # <<>> /\ Head(events).type = type /\ events' = Tail(events) /\ UNCHANGED radio

\* bt_hci_le_enh_conn_complete, whatever becomes of the link.
Seen(a, between) ==
    [a EXCEPT !.enabled = FALSE, !.limit = FALSE, !.asked = FALSE,
              !.wish = IF a.persist THEN @ ELSE None, !.blind = @ \/ between]

\* The link takes the slot that waited; resp_addr, which pairing uses, is what the host thinks
\* it showed.
RespAddr(a) == IF a.private THEN a.addr ELSE Identity
Taken(a, e) ==
    [a EXCEPT !.pending = @ - 1,
              !.conn[e.handle] = [resp |-> RespAddr(a), shown |-> e.shown, blind |-> a.blind, gone |-> FALSE]]

\* With no slot to connect, the link is ended.  conn_auto_initiate follows while the link lasts.
Connected ==
    /\ Next1("connected")
    /\ LET e == Head(events)
           seen == Seen(adv, e.between)
           next == IF PerConn THEN Resumed(Taken(seen, e)) ELSE Taken(seen, e)
       IN  adv' = IF adv.pending = 0 THEN Do(seen, Command("DISC", e.handle))
                  ELSE IF Exchanges /\ e.handle \in radio.links THEN Other(next) ELSE next

\* hci_disconn_complete; the slot is in use until its last reference is dropped.
Dropped ==
    /\ Next1("dropped")
    /\ LET h == Head(events).handle
       IN  adv' = IF adv.conn[h] = None THEN adv ELSE [adv EXCEPT !.conn[h].gone = TRUE]

\* bt_conn_unref, the last one, in deferred_work or by the application.
Released(h) ==
    /\ adv.conn[h] # None /\ adv.conn[h].gone
    /\ adv' = Resumed([adv EXCEPT !.conn[h] = None, !.blind = @ \/ (adv.persist /\ FlagIsStale)])
    /\ UNCHANGED <<radio, events>>

-----------------------------------------------------------------------------
(* The controller. *)

Obey ==
    /\ adv.cmds # <<>> /\ \A i \in 1 .. Len(events) : events[i].type # "done"
    /\ LET c == Head(adv.cmds)
           ok == CASE c.op = "ADDR" -> ~radio.on
                   [] c.op = "DISC" -> c.arg \in radio.links
                   [] OTHER -> TRUE
           said == Append(events, [type |-> "done", op |-> c.op, ok |-> ok])
       IN  /\ adv' = [adv EXCEPT !.cmds = Tail(@)]
           /\ radio' = IF ~ok THEN radio
                       ELSE CASE c.op = "ENABLE" -> [radio EXCEPT !.on = c.arg]
                              [] c.op = "ADDR" -> [radio EXCEPT !.addr = c.arg]
                              [] c.op = "DISC" -> [radio EXCEPT !.links = @ \ {c.arg}]
           /\ events' = IF ok /\ c.op = "DISC"
                        THEN Append(said, [type |-> "dropped", handle |-> c.arg]) ELSE said

About(h) == \E i \in 1 .. Len(events) : events[i].type # "done" /\ events[i].handle = h

Connects(h) ==
    /\ radio.on /\ h \notin radio.links /\ ~About(h) /\ adv.conn[h] = None
    /\ radio' = [radio EXCEPT !.on = FALSE, !.links = @ \cup {h}]
    /\ events' = Append(events, [type |-> "connected", handle |-> h, shown |-> radio.addr,
                                between |-> adv.cmds # <<>>])
    /\ UNCHANGED adv

Loses(h) ==
    /\ h \in radio.links
    /\ radio' = [radio EXCEPT !.links = @ \ {h}]
    /\ events' = Append(events, [type |-> "dropped", handle |-> h])
    /\ UNCHANGED adv

-----------------------------------------------------------------------------
\* After bt_enable, which left the identity in the controller.
AdvInit ==
    /\ adv = [enabled |-> FALSE, persist |-> FALSE, private |-> TRUE, valid |-> FALSE, addr |-> Identity,
              rpaTimer |-> FALSE, limit |-> FALSE, pending |-> 0, conn |-> [h \in Handles |-> None],
              latch |-> Command("OTHER", None), cmds |-> <<>>, made |-> 0,
              asked |-> FALSE, wish |-> None, blind |-> FALSE]
    /\ radio = [on |-> FALSE, addr |-> Identity, links |-> {}]
    /\ events = <<>>

AdvNext ==
    \/ \E ask \in Asks : Start(ask)
    \/ Stop \/ LimitReached \/ RpaTimeout \/ OobGetLocal
    \/ Done \/ Connected \/ Dropped
    \/ Obey \/ \E h \in Handles : Connects(h) \/ Loses(h) \/ Released(h)

AdvSpec == AdvInit /\ [][AdvNext]_advVars

-----------------------------------------------------------------------------
AdvTypeOK ==
    /\ {adv.enabled, adv.persist, adv.private, adv.valid, adv.rpaTimer, adv.limit, adv.asked, adv.blind} \subseteq BOOLEAN
    /\ adv.addr \in 0 .. MaxRpas /\ adv.made \in 0 .. MaxRpas
    /\ adv.wish \in Asks \cup {None} /\ adv.conn \in [Handles -> Links \cup {None}]
    /\ adv.pending + Cardinality(Used(adv)) <= Slots
    /\ radio.on \in BOOLEAN /\ radio.addr \in 0 .. MaxRpas /\ radio.links \subseteq Handles

Queued(op) == \E i \in 1 .. Len(adv.cmds) : adv.cmds[i].op = op
Obeyed == ~Queued("ENABLE") /\ ~Queued("ADDR")

\* What is on the air is what the host believes, and when the application asked for privacy it is
\* a private address that a timer will replace; unless advertising with the identity left the
\* mark of a valid private address behind (set_random_address does not know of BT_DEV_RPA_VALID).
PrivacyKept ==
    ~adv.blind /\ radio.on /\ Obeyed =>
        /\ radio.addr = adv.addr
        /\ adv.private => /\ adv.rpaTimer
                          /\ radio.addr # Identity \/ (adv.valid /\ adv.addr = Identity)

\* A link is known by the address its peer connected to; pairing computes with it (resp_addr).
AnswersAsShown == \A h \in Used(adv) : adv.conn[h].blind \/ adv.conn[h].resp = adv.conn[h].shown

\* Once all commands are obeyed the device advertises while the application wants it to and no
\* link uses it up, only then, and only as long as the limit allows, unless it was persistent and
\* resumed (bt_le_adv_resume starts no limit); a slot waits for a peer only while one can come.
AdvertisesAsAsked ==
    /\ ~adv.blind /\ Obeyed /\ events = <<>> =>
        /\ radio.on => adv.wish # None
        /\ adv.wish # None /\ Used(adv) = {} => radio.on
        /\ adv.pending > 0 => radio.on
    /\ ~adv.blind /\ Obeyed /\ radio.on =>
        adv.limit \/ adv.wish = None \/ adv.wish.persist \/ ~adv.wish.limited

ShowsItself == PrivacyKept /\ AnswersAsShown
===============================================================================
