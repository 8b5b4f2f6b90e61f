--------------------------------- MODULE Ecred ---------------------------------
(***************************************************************************)
(* The enhanced bearers of ATT (att.c) over enhanced credit based channels *)
(* (l2cap.c), with both ends of a link: several channels are opened,       *)
(* reconfigured and timed by one request, both ends may ask at once, and a *)
(* collision of their requests is tried again.                             *)
(*                                                                         *)
(* CONFIG_BT_EATT and CONFIG_BT_EATT_AUTO_CONNECT.  The MPS follows the    *)
(* MTU, and credits are those of L2cap.  An identifier of a request is not *)
(* in use when it is taken.  There is a buffer for the requests to open    *)
(* and for the answers to those to reconfigure, which are not looked at;   *)
(* the delay before a new attempt is not modelled, so that attempts may    *)
(* collide again.                                                          *)
(***************************************************************************)
EXTENDS Naturals, SequencesExt, FiniteSetsExt, TLC

CONSTANTS
    Hosts,      \* the two ends
    EattMax,        \* CONFIG_BT_EATT_MAX
    PerReq,     \* L2CAP_ECRED_CHAN_MAX_PER_REQ
    TxMtu,      \* CONFIG_BT_L2CAP_TX_MTU; an MTU is 1 at first
    MaxMtu,     \* bound: the MTU an application asks for
    Callers,    \* the ends whose application calls
    MaxCalls,   \* bound: calls of an application
    Ops,        \* what applications do: "connect", "disconnect", "one" or "reconfigure"
    Faults,     \* what may go wrong: "no buffer" or "timeout"
    None

\* What the module assumes of its constants; MCLayers asserts it of each instance.
EcredAssumption ==
    /\ Cardinality(Hosts) = 2 /\ Callers \subseteq Hosts /\ {EattMax, PerReq, TxMtu} \subseteq Nat \ {0}
    /\ {MaxMtu, MaxCalls} \subseteq Nat /\ Ops \subseteq {"connect", "disconnect", "one", "reconfigure"}
    /\ Faults \subseteq {"no buffer", "timeout"}

VARIABLES
    end,    \* each end of the link
    air,    \* the PDUs on their way to each end
    odd     \* not in the code: what happened that the properties except

vars == <<end, air, odd>>

Peer(h) == CHOOSE p \in Hosts : p # h

\* A channel; dcid 0 stands for none.  One that is not listed is off conn->channels, but keeps its slot.
Opened(cid) == [cid |-> cid, dcid |-> 0, state |-> "CONNECTING", ident |-> 0, rtx |-> FALSE,
                rx |-> 1, tx |-> 0, pend |-> 0, listed |-> TRUE]

Pdu(type, ident, cids, mtu, result) ==
    [type |-> type, ident |-> ident, cids |-> cids, mtu |-> mtu, result |-> result]

-----------------------------------------------------------------------------
(* Channels of one end: s is its state and what it sends, s.out. *)

Listed(s) == {i \in DOMAIN s.chans : s.chans[i].listed}
OfIdent(s, ident) == {i \in Listed(s) : s.chans[i].ident = ident}

\* bt_l2cap_le_lookup_tx_cid and bt_l2cap_le_lookup_rx_cid.
ByTx(s, cid) == {i \in Listed(s) : s.chans[i].dcid = cid}
ByRx(s, cid) == {i \in Listed(s) : s.chans[i].cid = cid}

\* bt_l2cap_chan_remove, bt_l2cap_chan_del, bt_att_disconnected and bt_att_released.
Without(s, gone) ==
    [s EXCEPT !.chans = [k \in 1 .. Len(@) - Cardinality(gone) |->
        @[CHOOSE i \in DOMAIN @ \ gone : Cardinality({j \in DOMAIN @ \ gone : j <= i}) = k]]]

\* get_ident.
NewIdent(s) ==
    Min({n \in 1 .. 20 : /\ \A i \in DOMAIN s.chans : s.chans[i].ident # n
                         /\ \A e \in Range(s.out) \cup s.seen : e.ident # n})

\* l2cap_chan_alloc_cid.
NewCid(s) == Min({n \in 1 .. EattMax + 1 : ByRx(s, n) = {}})

Send(s, pdu) == [s EXCEPT !.out = Append(@, pdu)]

\* att_chan_new finds the quota used up.
Full(s) == Len(s.chans) = EattMax

Smaller(m, n) == IF m < n THEN m ELSE n

\* bt_att_connected and bt_att_reconfigured: cap_eatt_mtu.
Capped(c) == [c EXCEPT !.tx = Smaller(@, TxMtu)]

-----------------------------------------------------------------------------
(* Opening channels. *)

\* l2cap_ecred_conn_req: one of the channels has the timer of all.
ConnReq(s, group) ==
    LET ident == NewIdent(s)
    IN  Send([s EXCEPT !.chans = [i \in DOMAIN @ |->
                 IF i \in group THEN [@[i] EXCEPT !.ident = ident, !.rtx = @ \/ i = Min(group)] ELSE @[i]]],
             Pdu("CONN_REQ", ident, [k \in 1 .. Cardinality(group) |-> s.chans[Min(group) + k - 1].cid],
                 s.chans[Min(group)].rx, None))

\* l2cap_ecred_init.
EcredInit(s) == [s EXCEPT !.chans = Append(@, Opened(NewCid(s)))]

\* bt_l2cap_ecred_chan_connect.
ChanConnect(s, n) ==
    LET t == FoldLeft(LAMBDA u, k : EcredInit(u), s, [k \in 1 .. n |-> k])
    IN  ConnReq(t, Len(s.chans) + 1 .. Len(t.chans))

\* bt_eatt_connect: as many channels as the quota leaves, PerReq in a request.
EattConnect(s, n) ==
    LET k == Smaller(n, EattMax - Len(s.chans))
    IN  FoldLeft(LAMBDA t, g : ChanConnect(t, Smaller(PerReq, k - PerReq * (g - 1))), s,
                 [g \in 1 .. (k + PerReq - 1) \div PerReq |-> g])

\* att_schedule_eatt_connect.
Schedule(s, n) == [s EXCEPT !.to = n, !.work = TRUE]

\* A wrong handle_potential_collision, which does not try again.
CollisionForgotten(s) ==
    IF s.rspResult = "no resources" /\ s.reqResult = "no resources"
    THEN [s EXCEPT !.rspResult = "ok", !.reqResult = "ok", !.missing = 0] ELSE s

\* handle_potential_collision.
Collision(s) ==
    IF s.rspResult = "no resources" /\ s.reqResult = "no resources"
    THEN LET t == [s EXCEPT !.rspResult = "ok", !.reqResult = "ok", !.missing = 0]
         IN  IF s.missing = 0 THEN t ELSE Schedule(t, s.missing)
    ELSE s

\* A turn of le_ecred_conn_req: l2cap_chan_accept and bt_eatt_accept.
Accept(w, scid) ==
    LET s == w.s
        c == Capped([Opened(NewCid(s)) EXCEPT !.dcid = scid, !.state = "CONNECTED", !.tx = w.mtu])
    IN  CASE ByTx(s, scid) # {} -> [w EXCEPT !.dcids = Append(@, 0), !.result = "scid in use"]
          [] ByTx(s, scid) = {} /\ Full(s) -> [w EXCEPT !.dcids = Append(@, 0), !.result = "no resources"]
          [] OTHER -> [w EXCEPT !.s.chans = Append(@, c), !.dcids = Append(@, c.cid)]

\* le_ecred_conn_req, l2cap_check_security and ecred_connect_req_cb.
OnConnReq(s, p, buf) ==
    LET zeros == [k \in DOMAIN p.cids |-> 0]
        start == [s |-> s, dcids |-> <<>>, mtu |-> p.mtu, result |-> "ok"]
        w == IF s.secure THEN FoldLeft(Accept, start, p.cids)
             ELSE [start EXCEPT !.dcids = zeros, !.result = "encryption"]
        t == IF buf THEN Send(w.s, Pdu("CONN_RSP", p.ident, w.dcids, 1, w.result)) ELSE w.s
    IN  Collision([t EXCEPT !.rspResult = w.result])

\* bt_l2cap_chan_disconnect: disc_pool has one buffer.
Disconnect(s, i) ==
    LET ident == NewIdent(s)
        t == [s EXCEPT !.chans[i].ident = ident]
    IN  IF s.disc THEN t
        ELSE Send([t EXCEPT !.chans[i].rtx = TRUE, !.chans[i].state = "DISCONNECTING", !.disc = TRUE],
                  Pdu("DISC_REQ", ident, <<s.chans[i].dcid, s.chans[i].cid>>, 0, None))

\* A turn of le_ecred_conn_rsp for channel i.
Answer(w, i) ==
    LET dcid == w.dcids[1]
        rest == [w EXCEPT !.dcids = Tail(@), !.attempted = @ + 1]
        used == ByTx(w.s, dcid) \ {i}
    IN  IF w.dcids = <<>> THEN [w EXCEPT !.gone = @ \cup {i}]
        ELSE CASE dcid = 0 -> [rest EXCEPT !.gone = @ \cup {i}]
               [] dcid # 0 /\ used # {} -> [rest EXCEPT !.gone = @ \cup {i}, !.s = Disconnect(@, Min(used))]
               [] OTHER -> [rest EXCEPT !.succeeded = @ + 1,
                              !.s.chans[i] = Capped([@ EXCEPT !.dcid = dcid, !.ident = 0, !.rtx = FALSE,
                                                              !.tx = w.mtu, !.state = "CONNECTED"])]

\* le_ecred_conn_rsp and ecred_connect_rsp_cb, which hears the PSM of a channel that waits.  Security
\* is as high as it has to be here, so it is not raised: -EALREADY.
OnConnRsp(s, p) ==
    LET group == OfIdent(s, p.ident)
        start == [s |-> s, dcids |-> p.cids, mtu |-> p.mtu, gone |-> {}, attempted |-> 0, succeeded |-> 0]
        w == IF p.result = "encryption" THEN [start EXCEPT !.gone = group]
             ELSE FoldLeft(Answer, start, SetToSortSeq(group, <))
        t == Without(w.s, w.gone)
    IN  IF group = {} THEN s
        ELSE Collision([t EXCEPT !.reqResult = p.result, !.missing = w.attempted - w.succeeded])

-----------------------------------------------------------------------------
(* Reconfiguring channels. *)

\* bt_l2cap_ecred_chan_reconfigure of channels, the first of which has the timer.
ChanReconfigure(s, group, mtu) ==
    LET ident == NewIdent(s)
        first == Head(group)
    IN  IF \/ \E k \in DOMAIN group : s.chans[group[k]].rx > mtu
           \/ \E i \in Listed(s) : s.chans[i].pend # 0
        THEN s
        ELSE Send([s EXCEPT !.chans = [i \in DOMAIN @ |->
                       IF Contains(group, i) THEN [@[i] EXCEPT !.ident = ident, !.pend = mtu, !.rtx = @ \/ i = first]
                       ELSE @[i]]],
                  Pdu("RECONF_REQ", ident, [k \in DOMAIN group |-> s.chans[group[k]].cid], mtu, None))

\* bt_eatt_reconfigure: att->chans has the last channel first; an error ends it.
EattReconfigure(s, mtu) ==
    LET n == Len(s.chans)
        group(g) == [k \in 1 .. Smaller(PerReq, n - PerReq * (g - 1)) |-> n - PerReq * (g - 1) - k + 1]
    IN  FoldLeft(LAMBDA t, g : ChanReconfigure(t, group(g), mtu), s,
                 [g \in 1 .. (n + PerReq - 1) \div PerReq |-> g])

\* le_ecred_reconf_req.
OnReconfReq(s, p) ==
    LET found == UNION {ByTx(s, p.cids[k]) : k \in DOMAIN p.cids}
        missing == \E k \in DOMAIN p.cids : ByTx(s, p.cids[k]) = {}
        lower == \E i \in found : s.chans[i].tx > p.mtu
        set == [s EXCEPT !.chans = [i \in DOMAIN @ |->
                   IF i \in found THEN Capped([@[i] EXCEPT !.tx = p.mtu]) ELSE @[i]]]
    IN  IF missing \/ lower THEN Send(s, Pdu("RECONF_RSP", p.ident, <<>>, 0, "refused"))
        ELSE Send(set, Pdu("RECONF_RSP", p.ident, <<>>, 0, "ok"))

\* le_ecred_reconf_rsp.
OnReconfRsp(s, p) ==
    [s EXCEPT !.chans = [i \in DOMAIN @ |->
        IF i \in OfIdent(s, p.ident)
        THEN Capped([@[i] EXCEPT !.rtx = FALSE, !.ident = 0, !.pend = 0,
                                 !.rx = IF p.result = "ok" THEN s.chans[i].pend ELSE @])
        ELSE @[i]]]

-----------------------------------------------------------------------------
(* Closing channels. *)

\* le_disconn_req: without a buffer for the answer the channel is off the list, no more.
OnDiscReq(s, p, buf) ==
    LET found == ByRx(s, p.cids[1])
        i == Min(found)
    IN  CASE found = {} -> Send(s, Pdu("REJECT", p.ident, <<>>, 0, None))
          [] found # {} /\ ~buf -> [s EXCEPT !.chans[i].listed = FALSE]
          [] found # {} /\ buf -> Send(Without(s, {i}),
                Pdu("DISC_RSP", p.ident, <<s.chans[i].cid, s.chans[i].dcid>>, 0, None))

\* le_disconn_rsp, which goes by the CID, and reject_cmd.
OnDiscRsp(s, p) == Without(s, ByRx(s, p.cids[2]))
OnReject(s, p) == LET found == OfIdent(s, p.ident) IN Without(s, IF found = {} THEN {} ELSE {Min(found)})

\* l2cap_rtx_timeout of channel i and those with its identifier.
RtxTimeout(s, i) == Without(s, {i} \cup OfIdent(s, s.chans[i].ident))

\* bt_eatt_disconnect: the last channel first.
EattDisconnect(s) ==
    FoldLeft(LAMBDA t, i : Disconnect(t, i), s, [k \in DOMAIN s.chans |-> Len(s.chans) - k + 1])

\* bt_eatt_disconnect_one.
EattDisconnectOne(s) == Disconnect(s, Len(s.chans))

-----------------------------------------------------------------------------
(* The steps of an end. *)

\* The end with the identifiers in use, to begin a handler.
Begin(h) == end[h] @@ [out |-> <<>>, seen |-> UNION {Range(air[p]) : p \in Hosts}]

Commit(h, s, rest) ==
    /\ end' = [end EXCEPT ![h] = [f \in DOMAIN @ |-> s[f]]]
    /\ air' = [air EXCEPT ![h] = rest, ![Peer(h)] = @ \o s.out]

\* Channels that wait for an answer get another request; both ends disconnect a channel.
Overlaps(h) == \E i \in DOMAIN end[h].chans : end[h].chans[i].state = "CONNECTING"
Crossed(h, p) == \E i \in ByRx(end[h], p.cids[1]) : end[h].chans[i].state = "DISCONNECTING"
Note(what, holds) == odd' = IF holds THEN odd \cup {what} ELSE odd

\* le_encrypt_change, and eatt_auto_connect if there are no enhanced channels.
Encrypted(h) ==
    /\ ~end[h].secure
    /\ LET s == [Begin(h) EXCEPT !.secure = TRUE]
       IN  Commit(h, IF s.chans = <<>> THEN Schedule(s, EattMax) ELSE s, air[h])
    /\ UNCHANGED odd

\* att_enhanced_connection_work_handler.
ConnectionWork(h) ==
    /\ end[h].work
    /\ Commit(h, [EattConnect(Begin(h), end[h].to) EXCEPT !.work = FALSE], air[h])
    /\ UNCHANGED odd

\* The application: bt_eatt_connect, bt_eatt_disconnect, bt_eatt_disconnect_one, bt_eatt_reconfigure.
Application(h) ==
    /\ end[h].calls > 0
    /\ LET s == [Begin(h) EXCEPT !.calls = @ - 1]
       IN  \/ /\ "connect" \in Ops /\ s.secure
              /\ \E n \in 1 .. EattMax : Commit(h, EattConnect(s, n), air[h])
              /\ UNCHANGED odd
           \/ /\ s.chans # <<>>
              /\ \/ "disconnect" \in Ops /\ Commit(h, EattDisconnect(s), air[h])
                 \/ "one" \in Ops /\ Commit(h, EattDisconnectOne(s), air[h])
                 \/ /\ "reconfigure" \in Ops
                    /\ \E mtu \in 1 .. MaxMtu : Commit(h, EattReconfigure(s, mtu), air[h])
              /\ Note("overlap", Overlaps(h))

\* The signalling channel receives a PDU; there may be no buffer for the answer.
Receive(h, buf) ==
    /\ air[h] # <<>>
    /\ LET p == Head(air[h])
           s == Begin(h)
       IN  /\ buf \/ ("no buffer" \in Faults /\ p.type \in {"CONN_REQ", "DISC_REQ"})
           /\ Commit(h, CASE p.type = "CONN_REQ" -> OnConnReq(s, p, buf)
                          [] p.type = "CONN_RSP" -> OnConnRsp(s, p)
                          [] p.type = "RECONF_REQ" -> OnReconfReq(s, p)
                          [] p.type = "RECONF_RSP" -> OnReconfRsp(s, p)
                          [] p.type = "DISC_REQ" -> OnDiscReq(s, p, buf)
                          [] p.type = "DISC_RSP" -> OnDiscRsp(s, p)
                          [] p.type = "REJECT" -> OnReject(s, p), Tail(air[h]))
           /\ odd' = odd \cup (IF buf THEN {} ELSE {"no buffer"})
                          \cup (IF p.type = "DISC_REQ" /\ Crossed(h, p) THEN {"crossed"} ELSE {})

Timeout(h, i) ==
    /\ "timeout" \in Faults
    /\ i \in DOMAIN end[h].chans /\ end[h].chans[i].rtx
    /\ Commit(h, RtxTimeout(Begin(h), i), air[h])
    /\ Note("timeout", TRUE)

\* The buffer of a disconnection request was sent.
DiscSent(h) ==
    /\ end[h].disc
    /\ end' = [end EXCEPT ![h].disc = FALSE]
    /\ UNCHANGED <<air, odd>>

-----------------------------------------------------------------------------
Init ==
    /\ end = [h \in Hosts |-> [chans |-> <<>>, to |-> 0, work |-> FALSE, rspResult |-> "ok", reqResult |-> "ok",
                               missing |-> 0, secure |-> FALSE, disc |-> FALSE, calls |-> IF h \in Callers THEN MaxCalls ELSE 0]]
    /\ air = [h \in Hosts |-> <<>>]
    /\ odd = {}

Next ==
    \E h \in Hosts :
        \/ Encrypted(h) \/ ConnectionWork(h) \/ Application(h) \/ DiscSent(h)
        \/ \E buf \in BOOLEAN : Receive(h, buf)
        \/ \E i \in 1 .. EattMax : Timeout(h, i)

Spec == Init /\ [][Next]_vars

-----------------------------------------------------------------------------
TypeOK ==
    /\ \A h \in Hosts :
        /\ Len(end[h].chans) <= EattMax
        /\ \A i \in DOMAIN end[h].chans :
            end[h].chans[i].state \in {"CONNECTING", "CONNECTED", "DISCONNECTING"}
        /\ end[h].to \in 0 .. EattMax /\ end[h].missing \in 0 .. EattMax
    /\ odd \subseteq {"overlap", "crossed", "timeout", "no buffer"}

Quiet == \A h \in Hosts : air[h] = <<>> /\ ~end[h].work
Matches(c, d) == c.dcid = d.cid /\ d.dcid = c.cid
Connected(h) == {c \in Range(end[h].chans) : c.state = "CONNECTED"}

\* When nothing is under way, each connected channel is connected at the other end, too.
EndsAgree ==
    Quiet /\ odd = {} =>
        \A h \in Hosts : \A c \in Connected(h) : \E d \in Connected(Peer(h)) : Matches(c, d)

\* No end sends more than the other takes, or the answer that lets it is on its way.
MtusAgree ==
    odd = {} =>
        \A h \in Hosts : \A c \in Connected(h) : \A d \in Connected(Peer(h)) :
            Matches(c, d) => \/ c.tx <= d.rx
                             \/ \E p \in Range(air[Peer(h)]) : p.type = "RECONF_RSP" /\ p.ident = d.ident

\* A channel that waits has the timer of its request, itself or with another of the request.
ChannelsTimed ==
    odd \subseteq {"crossed"} =>
        \A h \in Hosts : \A c \in Range(end[h].chans) :
            c.listed /\ c.state # "CONNECTED" =>
                \E d \in Range(end[h].chans) : d.rtx /\ d.ident = c.ident

\* A timer belongs to a request; without, l2cap_rtx_timeout would take the fixed channels off.
TimersOwned == \A h \in Hosts : \A c \in Range(end[h].chans) : c.rtx => c.ident # 0

\* Bearers that were wanted are there, also after both ends asked at once.
Untouched == \A h \in Callers : end[h].calls = MaxCalls
CollisionsResolved ==
    Quiet /\ odd = {} /\ Untouched /\ (\A h \in Hosts : end[h].secure) =>
        \A h \in Hosts : Cardinality(Connected(h)) = EattMax

BearersHold == EndsAgree /\ MtusAgree /\ TimersOwned /\ CollisionsResolved
===============================================================================
