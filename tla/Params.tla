--------------------------------- MODULE Params ---------------------------------
(***************************************************************************)
(* The parameters of a connection (conn.c, hci_core.c, l2cap.c): what an   *)
(* application asks for, what a peripheral asks for by itself when its     *)
(* timer ends, the procedure of the link layer, L2CAP where the peer does  *)
(* not know it, and retries.  Both ends run this code.                     *)
(*                                                                         *)
(* CONFIG_BT_GAP_AUTO_UPDATE_CONN_PARAMS and GAP_PERIPHERAL_PREF_PARAMS.   *)
(* Of the controllers the module has what a host can tell: one procedure   *)
(* at a time, an event at its end.  The link lasts.                        *)
(***************************************************************************)
EXTENDS Naturals, SequencesExt, FiniteSetsExt

CONSTANTS
    Wishes,     \* [min, max, latency, timeout]: what applications ask for
    Alters,     \* what callbacks make of a request, other than accepting it as it is
    Preferred,  \* CONFIG_BT_PERIPHERAL_PREF_...
    Retries,    \* CONFIG_BT_CONN_PARAM_RETRY_COUNT
    Supports,   \* the sides whose controllers have the procedure of the link layer
    Tunes,      \* bound: PHYs and data lengths applications ask for
    Calls,      \* [Sides -> Nat], bound: what each application asks for
    None

Sides == {"p", "c"}
Zero == [min |-> 0, max |-> 0, latency |-> 0, timeout |-> 0]
Asks == Wishes \cup {Preferred, Zero}

\* What the module assumes of its constants; MCLayers asserts it of each instance.
ParamsAssumption ==
    /\ Alters \subseteq Wishes /\ Wishes \cup {Preferred} \subseteq [min : Nat, max : Nat, latency : Nat, timeout : Nat]
    /\ {Retries, Tunes} \subseteq Nat /\ Calls \in [Sides -> Nat] /\ Supports \subseteq Sides

VARIABLES
    hosts,  \* the connection as the host of each side has it
    lle,    \* the controllers: the link's parameters, the procedure under way, what the peer knows
    evq,    \* the events that wait for each host
    sig,    \* the requests and responses of L2CAP under way
    will    \* not in the code: of the peripheral's application, and of what was sent for it

vars == <<hosts, lle, evq, sig, will>>

-----------------------------------------------------------------------------
(* Parameters. *)

\* bt_le_conn_params_valid.
Valid(w) ==
    /\ 6 <= w.min /\ w.min <= w.max /\ w.max <= 3200
    /\ w.latency <= 499
    /\ 10 <= w.timeout /\ w.timeout <= 3200 /\ w.timeout * 4 > (1 + w.latency) * w.max

\* The link's parameters meet what was asked for.
Meets(cur, w) ==
    w.min <= cur.interval /\ cur.interval <= w.max /\ cur.latency = w.latency /\ cur.timeout = w.timeout

Granted(w) == {[interval |-> i, latency |-> w.latency, timeout |-> w.timeout] : i \in {w.min, w.max}}

\* le_param_req: None, or what the callbacks make of the parameters.
ParamReq(w) == {None} \cup (IF Valid(w) THEN {v \in Alters \cup {w} : Valid(v)} ELSE {})

-----------------------------------------------------------------------------
(* A host sends.  h is the record of its side, and of what it sends. *)

\* bt_conn_le_conn_update, of parameters that are valid, which are stored for L2CAP.
AskLL(h, w) == [h EXCEPT !.pend = w, !.out = [op |-> "update", params |-> w]]

\* bt_l2cap_update_conn_param; without a buffer nothing is sent.
AskL2cap(h, w, buf) == IF buf THEN [h EXCEPT !.out = [op |-> "l2cap", params |-> w]] ELSE h

\* send_conn_le_param_update.  It has failed if out is None.
SendUpdate(h, w, buf) ==
    CASE ~Valid(w) -> h
      [] Valid(w) /\ (h.role = "c" \/ (h.role \in Supports /\ h.feat /\ ~h.l2cap)) -> AskLL(h, w)
      [] OTHER -> AskL2cap(h, w, buf)

\* What a host sent goes to its controller, or to the peer.  A controller that is busy refuses;
\* the status of the command has no effect on the host.
Carry(s, h) ==
    /\ hosts' = [hosts EXCEPT ![s] = [h EXCEPT !.out = None]]
    /\ IF h.out # None /\ h.out.op = "update" /\ lle.proc = None
       THEN lle' = [lle EXCEPT !.proc = [by |-> s, params |-> h.out.params, state |-> "new"]]
       ELSE lle' = lle
    /\ sig' = IF h.out # None /\ h.out.op = "l2cap" THEN Append(sig, h.out.params) ELSE sig

-----------------------------------------------------------------------------
(* The application. *)

\* What becomes of a wish that is sent.
Outcome(h) ==
    CASE h.out = None -> "failed"
      [] h.out # None /\ h.out.op = "update" /\ lle.proc # None -> "busy"
      [] OTHER -> "asked"

\* bt_conn_le_param_update of a peripheral.
UpdateByPeripheral(w, buf) ==
    LET h == hosts["p"]
        s == CASE Meets(h.cur, w) -> [h EXCEPT !.set = FALSE]
               [] ~Meets(h.cur, w) /\ h.update -> SendUpdate(h, w, buf)
               [] OTHER -> [h EXCEPT !.pend = w, !.set = TRUE]
    IN  /\ will.calls["p"] > 0
        /\ Carry("p", s)
        /\ will' = [will EXCEPT !.calls["p"] = @ - 1, !.wish = w,
                        !.state = CASE Meets(h.cur, w) -> "met"
                                    [] ~Meets(h.cur, w) /\ ~h.update -> "held"
                                    [] OTHER -> Outcome(s)]
    /\ UNCHANGED evq

\* bt_conn_le_param_update of a central.
UpdateByCentral(w) ==
    /\ will.calls["c"] > 0
    /\ Carry("c", IF Meets(hosts["c"].cur, w) THEN hosts["c"] ELSE SendUpdate(hosts["c"], w, TRUE))
    /\ will' = [will EXCEPT !.calls["c"] = @ - 1]
    /\ UNCHANGED evq

-----------------------------------------------------------------------------
(* The timer of a peripheral. *)

\* deferred_work of a link that is up.
DeferredWork(buf) ==
    LET h == hosts["p"]
        s == SendUpdate([h EXCEPT !.set = FALSE, !.update = TRUE, !.timer = FALSE],
                        IF h.set THEN h.pend ELSE Preferred, buf)
        sent == s.out # None
    IN  /\ h.timer
        /\ Carry("p", IF sent THEN [s EXCEPT !.auto = ~h.set] ELSE s)
        /\ will' = IF h.set THEN [will EXCEPT !.state = Outcome(s)]
                   ELSE [will EXCEPT !.autos = IF sent THEN @ + 1 ELSE @,
                                     !.over = @ \/ (sent /\ ~h.update /\ will.state \notin {"none", "met"})]
    /\ UNCHANGED evq

-----------------------------------------------------------------------------
(* PHYs and data lengths. *)

Phys == {"1M", "2M"}
Lengths == {27, 251}

\* bt_conn_le_phy_update and bt_le_set_phy.
\* The controllers do as asked or not.  Of a change both hosts hear.
Tuned(s, what, v) ==
    /\ will.tunes > 0
    /\ will' = [will EXCEPT !.tunes = @ - 1]
    /\ \/ lle' = lle /\ evq' = evq
       \/ /\ lle.tune[what] # v
          /\ lle' = [lle EXCEPT !.tune[what] = v]
          /\ evq' = [t \in Sides |-> Append(evq[t], [event |-> what, value |-> v])]
    /\ UNCHANGED <<hosts, sig>>

\* bt_conn_le_phy_update and bt_le_set_phy.
SetPhy(s, phy) == Tuned(s, "phy", phy)

\* bt_conn_le_data_len_update and bt_le_set_data_len: nothing is asked for if the length is as wanted.
SetDataLen(s, len) == hosts[s].tune.len # len /\ Tuned(s, "len", len)

-----------------------------------------------------------------------------
(* Events. *)

HasEvent(s, e) == evq[s] # <<>> /\ Head(evq[s]).event = e
Taken(s) == [evq EXCEPT ![s] = Tail(@)]

\* le_remote_feat_complete.
RemoteFeatComplete(s) ==
    /\ HasEvent(s, "features")
    /\ hosts' = [hosts EXCEPT ![s].feat = Head(evq[s]).feat]
    /\ evq' = Taken(s)
    /\ UNCHANGED <<lle, sig, will>>

\* le_phy_update_complete with notify_le_phy_updated, le_data_len_change with notify_le_data_len_updated.
PhyUpdateComplete(s) ==
    /\ HasEvent(s, "phy")
    /\ hosts' = [hosts EXCEPT ![s].tune.phy = Head(evq[s]).value]
    /\ evq' = Taken(s)
    /\ UNCHANGED <<lle, sig, will>>
DataLenChange(s) ==
    /\ HasEvent(s, "len")
    /\ hosts' = [hosts EXCEPT ![s].tune.len = Head(evq[s]).value]
    /\ evq' = Taken(s)
    /\ UNCHANGED <<lle, sig, will>>

\* notify_le_param_updated: parameters that were to be asked for need not be.
Notified(h) == IF h.set /\ Meets(h.cur, h.pend) THEN [h EXCEPT !.set = FALSE] ELSE h

\* The rest of le_conn_update_complete.
Completed(h, e) ==
    CASE e.status = "ok" -> [h EXCEPT !.cur = e.cur, !.auto = FALSE]
      [] e.status = "unsupported" /\ h.auto /\ h.countdown > 0 ->
            [h EXCEPT !.countdown = @ - 1, !.timer = TRUE]
      [] OTHER -> [h EXCEPT !.auto = FALSE]

\* le_conn_update_complete.
ConnUpdateComplete(s, buf) ==
    LET e == Head(evq[s])
        h == hosts[s]
        fallback == e.status = "unknown" /\ s = "p" /\ ~h.l2cap
        r == Notified(Completed(h, e))
    IN  /\ HasEvent(s, "complete")
        /\ Carry(s, IF fallback THEN AskL2cap([h EXCEPT !.l2cap = TRUE], h.pend, buf) ELSE r)
        /\ evq' = Taken(s)
        /\ will' = [will EXCEPT !.state =
                IF s = "p" /\ @ = "held" /\ e.status = "ok" /\ Meets(e.cur, will.wish) THEN "met"
                ELSE IF fallback /\ @ \in {"asked", "busy"} THEN IF buf THEN "asked" ELSE "failed"
                ELSE @]

\* le_conn_param_req, with le_conn_param_req_reply and le_conn_param_neg_reply.
ConnParamReq(s, answer) ==
    /\ HasEvent(s, "request") /\ answer \in ParamReq(Head(evq[s]).params)
    /\ lle' = [lle EXCEPT !.proc.state = IF answer = None THEN "refused" ELSE "agreed",
                          !.proc.params = IF answer = None THEN @ ELSE answer]
    /\ evq' = Taken(s)
    /\ UNCHANGED <<hosts, sig, will>>

\* The peer has what the peripheral's application asked for.
Reached(w) == [will EXCEPT !.state = IF @ = "asked" /\ w = will.wish THEN "put" ELSE @]

\* le_conn_param_update_req, of a central, and the response.  Without a buffer it does nothing.
L2capParamReq(answer, buf) ==
    /\ sig # <<>> /\ answer \in ParamReq(Head(sig))
    /\ LET h == [hosts["c"] EXCEPT !.out = IF buf /\ answer # None THEN [op |-> "update", params |-> answer]
                                           ELSE None]
       IN  /\ lle' = IF h.out # None /\ lle.proc = None
                     THEN [lle EXCEPT !.proc = [by |-> "c", params |-> answer, state |-> "new"]] ELSE lle
           /\ sig' = Tail(sig)
    /\ will' = Reached(Head(sig))
    /\ UNCHANGED <<hosts, evq>>

-----------------------------------------------------------------------------
(* The controllers. *)

Other(s) == IF s = "p" THEN "c" ELSE "p"
Complete(status, cur) == [event |-> "complete", status |-> status, cur |-> cur]

\* A procedure begins: the peer's host is asked if both know it; a central may do without.
Begin ==
    /\ lle.proc # None /\ lle.proc.state = "new"
    /\ LET by == lle.proc.by
       IN  \/ /\ Supports = Sides /\ ~lle.unknown
              /\ lle' = [lle EXCEPT !.proc.state = "asked"]
              /\ evq' = [evq EXCEPT ![Other(by)] = Append(@, [event |-> "request", params |-> lle.proc.params])]
              /\ will' = IF by = "p" THEN Reached(lle.proc.params) ELSE will
           \/ /\ by = "c" /\ (Supports # Sides \/ lle.unknown)
              /\ lle' = [lle EXCEPT !.proc.state = "agreed"]
              /\ UNCHANGED <<evq, will>>
           \/ /\ by = "p" /\ (Supports # Sides \/ lle.unknown)
              /\ lle' = [lle EXCEPT !.proc = None]
              /\ evq' = [evq EXCEPT !["p"] = Append(@, Complete("unknown", None))]
              /\ UNCHANGED will
    /\ UNCHANGED <<hosts, sig>>

\* It ends.  Both hosts hear of new parameters, the one that asked of a refusal.
Agree ==
    /\ lle.proc # None /\ lle.proc.state = "agreed"
    /\ \E cur \in Granted(lle.proc.params) :
        /\ lle' = [lle EXCEPT !.cur = cur, !.proc = None]
        /\ evq' = [s \in Sides |-> Append(evq[s], Complete("ok", cur))]
    /\ UNCHANGED <<hosts, sig, will>>

\* A host refused, or a controller does not have what is asked for.
Refuse ==
    /\ lle.proc # None /\ lle.proc.state \in {"refused", "agreed"}
    /\ lle.proc.state = "agreed" => lle.proc.by = "p"
    /\ lle' = [lle EXCEPT !.proc = None]
    /\ evq' = [evq EXCEPT ![lle.proc.by] =
                Append(@, Complete(IF lle.proc.state = "refused" THEN "invalid" ELSE "unsupported", None))]
    /\ UNCHANGED <<hosts, sig, will>>

-----------------------------------------------------------------------------
(* bt_conn_set_state(CONNECTED) and conn_auto_initiate: a peripheral's timer runs, the features *)
(* of the peer are on the way.                                                                 *)
Connected(s, cur) ==
    [role |-> s, cur |-> cur, pend |-> Zero, feat |-> FALSE, set |-> FALSE, update |-> FALSE, auto |-> FALSE,
     l2cap |-> FALSE, timer |-> s = "p", countdown |-> IF s = "p" THEN Retries ELSE 0,
     tune |-> [phy |-> "1M", len |-> 27], out |-> None]

\* conn_auto_initiate asks for the features of the peer and for 2M, which the controllers may have.
AutoInitiated(s, phy) ==
    <<[event |-> "features", feat |-> Other(s) \in Supports]>> \o
        (IF phy = "1M" THEN <<>> ELSE <<[event |-> "phy", value |-> phy]>>)

Init ==
    /\ \E cur \in UNION {Granted(w) : w \in {v \in Wishes : Valid(v)}}, unknown \in BOOLEAN,
          phy \in IF Tunes > 0 THEN Phys ELSE {"1M"} :
        /\ hosts = [s \in Sides |-> Connected(s, cur)]
        /\ lle = [cur |-> cur, proc |-> None, unknown |-> unknown, tune |-> [phy |-> phy, len |-> 27]]
        /\ evq = [s \in Sides |-> AutoInitiated(s, phy)]
    /\ sig = <<>>
    /\ will = [calls |-> Calls, tunes |-> Tunes, wish |-> Zero, state |-> "none", autos |-> 0, over |-> FALSE]

Next ==
    \/ \E w \in Wishes, buf \in BOOLEAN : UpdateByPeripheral(w, buf)
    \/ \E w \in Wishes : UpdateByCentral(w)
    \/ \E buf \in BOOLEAN : DeferredWork(buf)
    \/ \E s \in Sides, phy \in Phys : SetPhy(s, phy)
    \/ \E s \in Sides, len \in Lengths : SetDataLen(s, len)
    \/ \E s \in Sides : RemoteFeatComplete(s) \/ PhyUpdateComplete(s) \/ DataLenChange(s)
    \/ \E s \in Sides, buf \in BOOLEAN : ConnUpdateComplete(s, buf)
    \/ \E s \in Sides, answer \in Wishes \cup {None, Preferred} : ConnParamReq(s, answer)
    \/ \E answer \in Wishes \cup {None, Preferred}, buf \in BOOLEAN : L2capParamReq(answer, buf)
    \/ Begin \/ Agree \/ Refuse

Spec == Init /\ [][Next]_vars

-----------------------------------------------------------------------------
TypeOK ==
    /\ \A s \in Sides :
        /\ hosts[s].pend \in Asks /\ hosts[s].countdown \in 0 .. Retries
        /\ {hosts[s].feat, hosts[s].set, hosts[s].update, hosts[s].auto, hosts[s].l2cap, hosts[s].timer} \subseteq BOOLEAN
        /\ \A i \in DOMAIN evq[s] : evq[s][i].event \in {"features", "phy", "len", "complete", "request"}
    /\ lle.proc # None => lle.proc.state \in {"new", "asked", "agreed", "refused"} /\ lle.proc.params \in Asks
    /\ ToSet(sig) \subseteq Asks
    /\ will.state \in {"none", "met", "held", "asked", "busy", "failed", "put"}

\* A host without an event to process has the link's parameters, its PHY and its data length
\* (le_conn_update_complete, le_phy_update_complete, le_data_len_change).
HostsKnowLink ==
    \A s \in Sides : evq[s] = <<>> => hosts[s].cur = lle.cur /\ hosts[s].tune = lle.tune

\* What a peripheral's application asked for before the timer ended is stored as it was, with the timer
\* running, until it is asked for or met (bt_conn_le_param_update, deferred_work).
HeldIsTimed ==
    LET h == hosts["p"]
    IN  /\ h.set = (will.state = "held")
        /\ h.set => h.timer /\ ~h.update /\ h.pend = will.wish

\* The preferred parameters are asked for once, and again for each retry (conn_param_retry_countdown),
\* first of all if the application asked for nothing or has it (conn.c:1861).  A retry does not look at
\* what the application asked for in the meantime.
DefaultsUnasked ==
    /\ will.autos <= 1 + Retries
    /\ ~will.over

\* When all is quiet the last wish has come to the peer, by the link layer or L2CAP, unless a busy
\* controller or a lack of buffers kept it from that: the application hears of neither.
WishesReach ==
    (evq["p"] = <<>> /\ sig = <<>> /\ (lle.proc = None \/ lle.proc.by = "c")) => will.state # "asked"

\* Whoever asks, and whatever the application made of a request, the link is asked to last two of its
\* longest silences at least (bt_le_conn_params_valid, le_param_req).
AsksLast ==
    \A w \in ToSet(sig) \cup (IF lle.proc = None THEN {} ELSE {lle.proc.params}) :
        20 * w.timeout > 5 * (1 + w.latency) * w.max   \* in units of half a millisecond

WishesHold == HostsKnowLink /\ HeldIsTimed /\ DefaultsUnasked /\ WishesReach /\ AsksLast
=============================================================================
