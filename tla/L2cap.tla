--------------------------------- MODULE L2cap ---------------------------------
(***************************************************************************)
(* The LE credit based channels of one link (l2cap.c): their requests and  *)
(* timers, the segments sent against the peer's credits, and the segments  *)
(* received against the credits given to the peer.  The enhanced credit    *)
(* based requests are left out.                                            *)
(*                                                                         *)
(* An identifier of a request is not in use when it is taken: get_ident    *)
(* takes 255 before it comes to one again.  The transmission contexts of   *)
(* conn.c carry segments of these channels only; others may use them up,   *)
(* too.  The application sends on a channel it was told is connected, and  *)
(* opens one again only after its two work items ran.  The peer answers a  *)
(* request before its timer runs out, or never.                            *)
(***************************************************************************)
EXTENDS Naturals, SequencesExt, FiniteSetsExt

CONSTANTS
    Chans,       \* the channel objects of the application
    Slots,       \* CONFIG_BT_CONN_TX_MAX: contexts, and entries of l2cap_tx_meta_data_storage
    InitCredits, \* chan->rx.init_credits
    MaxCredits,  \* UINT16_MAX, the credits a peer may give
    MaxSegs,     \* bound: segments of an SDU received, 0 for none
    MaxSdus,     \* bound: SDUs sent
    MaxQueue,    \* bound: segments in rx_queue, and SDUs the application holds
    MaxAsked     \* bound: requests the peer has not answered

\* What the module assumes of its constants; MCLayers asserts it of each instance.
L2capAssumption ==
    /\ IsFiniteSet(Chans) /\ {Slots, InitCredits, MaxCredits} \subseteq Nat \ {0}
    /\ {MaxSegs, MaxSdus, MaxQueue, MaxAsked} \subseteq Nat

VARIABLES
    mux,        \* the channels, and the requests the peer has not answered
    flight,     \* the segments given to the connection and not sent yet
    metas,      \* the length of free_l2cap_tx_meta_data
    link,       \* BT_CONN_CONNECTED
    secured,    \* conn->sec_level is what the channels require
    sdus,       \* counts the SDUs sent
    cut         \* history: a channel off the list had segments to be sent

vars == <<mux, flight, metas, link, secured, sdus, cut>>

\* queue is tx_buf, then tx_queue, cut into segments; work and rxWork say that tx_work and
\* rx_work are submitted; sdu counts the segments of _sdu, got those that came.
Closed == [state |-> "DISCONNECTED", attached |-> FALSE, ident |-> 0, rtx |-> FALSE,
           pending |-> FALSE, shut |-> FALSE, tx |-> 0, queue |-> <<>>, work |-> FALSE,
           rx |-> 0, rxQ |-> <<>>, rxWork |-> FALSE, sdu |-> 0, got |-> 0, held |-> <<>>]

-----------------------------------------------------------------------------
(* Channels and requests. *)

\* get_ident.
NewIdent(w) == Min((1 .. MaxAsked + Cardinality(Chans) + 1)
                   \ ({w.chan[c].ident : c \in Chans} \cup {a.ident : a \in w.asked}))

\* bt_l2cap_chan_del and l2cap_chan_destroy: the work items may stay submitted.
Deleted(ch) == [ch EXCEPT !.state = "DISCONNECTED", !.attached = FALSE, !.rtx = FALSE,
                          !.queue = <<>>, !.rxQ = <<>>, !.sdu = 0, !.got = 0]

\* bt_l2cap_chan_remove or l2cap_remove_ident, then bt_l2cap_chan_del.
Without(w, gone) ==
    [w EXCEPT !.list = SelectSeq(@, LAMBDA c : c \notin gone),
              !.chan = [c \in Chans |-> IF c \in gone THEN Deleted(@[c]) ELSE @[c]]]

\* l2cap_chan_send_req on a link that is up, with the identifier its callers take.
Ask(w, c, kind) ==
    [w EXCEPT !.chan[c].ident = NewIdent(w), !.chan[c].rtx = TRUE,
              !.asked = @ \cup {[kind |-> kind, chan |-> c, ident |-> NewIdent(w)]}]

\* l2cap_le_conn_req; without a buffer its callers end the channel.
ConnReq(w, c, pdu) == IF pdu THEN Ask(w, c, "conn") ELSE Without(w, {c})

\* bt_l2cap_chan_disconnect: nothing happens without a buffer.
DiscReq(w, c, pdu) ==
    IF pdu /\ w.chan[c].attached
    THEN [Ask(w, c, "disc") EXCEPT !.chan[c].state = "DISCONNECTING"] ELSE w

\* l2cap_chan_add, after l2cap_chan_tx_init and l2cap_chan_rx_init.
Added(w, c, state) ==
    [w EXCEPT !.list = Append(@, c),
              !.chan[c] = [Closed EXCEPT !.state = state, !.attached = TRUE,
                                         !.ident = w.chan[c].ident, !.held = w.chan[c].held]]

\* l2cap_chan_tx_resume.
Resume(ch) == IF ch.tx > 0 /\ ch.queue # <<>> THEN [ch EXCEPT !.work = TRUE] ELSE ch

Found(ident) == {c \in Chans : mux.chan[c].ident = ident /\ Contains(mux.list, c)}
Opening(c) == \E a \in mux.asked : a.chan = c /\ a.kind = "conn"
KnownToPeer(c) == ~Opening(c) /\ ~mux.chan[c].pending
MayAsk == link /\ Cardinality(mux.asked) < MaxAsked

\* bt_l2cap_chan_connect; without security it asks for it first, which can fail.
Connect(c, pdu) ==
    /\ MayAsk /\ ~mux.chan[c].attached /\ ~mux.chan[c].work /\ ~mux.chan[c].rxWork
    /\ LET w == Added(mux, c, "CONNECTING")
       IN  mux' = IF secured THEN ConnReq(w, c, pdu)
                  ELSE IF pdu THEN [w EXCEPT !.chan[c].pending = TRUE]
                  ELSE Without(w, {c})
    /\ UNCHANGED <<flight, metas, link, secured, sdus>>

Disconnect(c, pdu) ==
    /\ MayAsk /\ mux.chan[c].attached
    /\ mux' = DiscReq(mux, c, pdu)
    /\ UNCHANGED <<flight, metas, link, secured, sdus>>

\* bt_l2cap_security_changed: l2cap_le_encrypt_change of every channel.
EncryptChange(done, pdu) ==
    /\ link /\ Cardinality(mux.asked) + Cardinality(Chans) <= MaxAsked
    /\ secured' = (secured \/ done)
    /\ mux' = FoldLeft(LAMBDA w, c :
                  IF ~w.chan[c].pending THEN w
                  ELSE IF done THEN ConnReq([w EXCEPT !.chan[c].pending = FALSE], c, pdu)
                  ELSE Without([w EXCEPT !.chan[c].pending = FALSE], {c}),
                mux, mux.list)
    /\ UNCHANGED <<flight, metas, link, sdus>>

\* l2cap_change_security succeeds.
Raises(c, raised) == ~mux.chan[c].pending /\ ~secured /\ raised

\* le_conn_rsp.
ConnRsp(a, result, raised) ==
    /\ link /\ a \in mux.asked /\ a.kind = "conn"
    /\ LET w == [mux EXCEPT !.asked = @ \ {a}]
       IN  mux' = IF Found(a.ident) = {} THEN w
                  ELSE LET c == CHOOSE x \in Found(a.ident) : TRUE
                           answered == [w EXCEPT !.chan[c].rtx = FALSE, !.chan[c].ident = 0]
                       IN  CASE result = "ok" ->
                                  [answered EXCEPT !.chan[c].state = "CONNECTED",
                                                   !.chan[c].tx = @ + 1,
                                                   !.chan[c].rx = @ + InitCredits]
                             [] result = "security" /\ Raises(c, raised) ->
                                  [answered EXCEPT !.chan[c].pending = TRUE]
                             [] OTHER -> Without(answered, {c})
    /\ UNCHANGED <<flight, metas, link, secured, sdus>>

\* le_disconn_rsp, which goes by the channel, and reject_cmd, which goes by the identifier.
EndOfRequest(a, rejected) ==
    /\ link /\ a \in mux.asked /\ (rejected \/ (a.kind = "disc" /\ KnownToPeer(a.chan)))
    /\ LET gone == IF rejected THEN Found(a.ident) ELSE {a.chan} \cap ToSet(mux.list)
       IN  mux' = Without([mux EXCEPT !.asked = @ \ {a}], gone)
    /\ UNCHANGED <<flight, metas, link, secured, sdus>>

\* l2cap_rtx_timeout: the other channels of the same identifier end, too.
RtxTimeout(c) ==
    /\ link /\ mux.chan[c].rtx
    /\ mux' = [Without(mux, {c} \cup Found(mux.chan[c].ident)) EXCEPT
                 !.asked = {a \in @ : a.ident # mux.chan[c].ident}]
    /\ UNCHANGED <<flight, metas, link, secured, sdus>>

\* le_conn_req: a server accepts it with channel c, which keeps the identifier it had.
PeerConnects(c) ==
    /\ link /\ secured /\ ~mux.chan[c].attached /\ ~mux.chan[c].work /\ ~mux.chan[c].rxWork
    /\ mux' = [Added(mux, c, "CONNECTED") EXCEPT !.chan[c].tx = 1, !.chan[c].rx = InitCredits]
    /\ UNCHANGED <<flight, metas, link, secured, sdus>>

\* le_disconn_req: without a buffer for the answer the channel is taken off the list, no more.
PeerDisconnects(c, pdu) ==
    /\ link /\ Contains(mux.list, c) /\ KnownToPeer(c)
    /\ mux.chan[c].state \in {"CONNECTED", "DISCONNECTING"}
    /\ mux' = IF pdu THEN Without(mux, {c}) ELSE [mux EXCEPT !.list = SelectSeq(@, LAMBDA x : x # c)]
    /\ UNCHANGED <<flight, metas, link, secured, sdus>>

-----------------------------------------------------------------------------
(* Sending. *)

\* The segments of an SDU of n segments.
Segments(n) == [i \in 1 .. n |-> [first |-> i = 1, last |-> i = n]]

\* A wrong l2cap_chan_le_send, which does not ask for a credit.
SendableAnyway(ch, segs) == Min({Slots - Len(flight), Len(segs)})

\* l2cap_chan_le_send until there are no credits or no context.
Sendable(ch, segs) == Min({ch.tx, Slots - Len(flight), Len(segs)})

\* l2cap_chan_le_send_sdu of all SDUs of a queue: what is left waits in tx_buf and tx_queue.
Transmit(c, segs) ==
    LET n == Sendable(mux.chan[c], segs)
    IN  /\ flight' = flight \o [i \in 1 .. n |-> [chan |-> c, last |-> segs[i].last]]
        /\ mux' = [mux EXCEPT !.chan[c].tx = @ - n, !.chan[c].work = FALSE,
                              !.chan[c].queue = SubSeq(segs, n + 1, Len(segs))]

\* bt_l2cap_chan_send_cb: queued behind others or without credits, else sent at once; refused if
\* not one segment of it can be sent.
Send(c, n) ==
    /\ link /\ sdus < MaxSdus /\ metas > 0
    /\ mux.chan[c].state = "CONNECTED" /\ ~mux.chan[c].shut
    /\ sdus' = sdus + 1
    /\ LET ch == mux.chan[c]
       IN  IF ch.queue # <<>> \/ ch.tx = 0
           THEN /\ metas' = metas - 1 /\ UNCHANGED flight
                /\ mux' = [mux EXCEPT !.chan[c].queue = @ \o Segments(n), !.chan[c].work = TRUE]
           ELSE IF Sendable(ch, Segments(n)) = 0 THEN UNCHANGED <<mux, flight, metas>>
           ELSE /\ metas' = metas - 1
                /\ Transmit(c, Segments(n))
    /\ UNCHANGED <<link, secured>>

\* l2cap_chan_tx_process.
TxWork(c) ==
    /\ mux.chan[c].work
    /\ Transmit(c, mux.chan[c].queue)
    /\ UNCHANGED <<metas, link, secured, sdus>>

\* le_credits.
PeerGives(c, n, pdu) ==
    /\ link /\ Contains(mux.list, c) /\ KnownToPeer(c)
    /\ mux.chan[c].state \in {"CONNECTED", "DISCONNECTING"}
    /\ MayAsk \/ mux.chan[c].tx + n <= MaxCredits
    /\ mux' = IF mux.chan[c].tx + n > MaxCredits THEN DiscReq(mux, c, pdu)
              ELSE [mux EXCEPT !.chan[c] = Resume([@ EXCEPT !.tx = @ + n])]
    /\ UNCHANGED <<flight, metas, link, secured, sdus>>

\* A wrong l2cap_chan_sdu_sent, without the call of resume_all_channels.
ResumedAlone(s) ==
    IF Contains(mux.list, s.chan)
    THEN [mux EXCEPT !.chan[s.chan] = Resume(@)] ELSE mux

\* l2cap_chan_seg_sent resumes the channel, l2cap_chan_sdu_sent all of them.
Resumed(s) ==
    IF ~Contains(mux.list, s.chan) THEN mux
    ELSE [mux EXCEPT !.chan = [c \in Chans |->
             IF c = s.chan \/ (s.last /\ Contains(mux.list, c)) THEN Resume(@[c]) ELSE @[c]]]

SegmentSent ==
    /\ flight # <<>>
    /\ flight' = Tail(flight)
    /\ metas' = IF Head(flight).last THEN metas + 1 ELSE metas
    /\ mux' = Resumed(Head(flight))
    /\ UNCHANGED <<link, secured, sdus>>

-----------------------------------------------------------------------------
(* Receiving. *)

\* l2cap_chan_send_credits, never above the initial amount; l2cap_chan_shutdown without a buffer.
Give(ch, n, pdu) ==
    IF pdu THEN [ch EXCEPT !.rx = Min({@ + n, InitCredits})]
    ELSE [ch EXCEPT !.shut = TRUE, !.sdu = 0, !.got = 0, !.queue = <<>>, !.rxQ = <<>>]

\* l2cap_chan_le_recv_sdu: what recv of the application returns.  disc_pool has a buffer here.
RecvSdu(w, c, n, answer, pdu) ==
    CASE answer = "error" -> DiscReq(w, c, TRUE)
      [] answer = "later" -> [w EXCEPT !.chan[c].held = Append(@, n)]
      [] answer = "ok" /\ w.chan[c].state = "CONNECTED" -> [w EXCEPT !.chan[c] = Give(@, n, pdu)]
      [] OTHER -> w

\* l2cap_chan_le_recv, l2cap_chan_le_recv_seg and l2cap_chan_update_credits; seg counts the
\* segments of the SDU it begins, 0 if it does not fit.
Recv(w, c, seg, answer, pdu) ==
    LET ch == w.chan[c]
        total == IF ch.sdu = 0 THEN seg ELSE ch.sdu
        more == [ch EXCEPT !.rx = @ - 1, !.sdu = total, !.got = @ + 1]
        whole == [more EXCEPT !.sdu = 0, !.got = 0]
    IN  CASE ch.shut -> w
          [] ~ch.shut /\ ch.rx = 0 -> DiscReq(w, c, TRUE)
          [] ~ch.shut /\ ch.rx > 0 /\ seg = 0 -> DiscReq([w EXCEPT !.chan[c].rx = @ - 1], c, TRUE)
          [] ~ch.shut /\ ch.rx > 0 /\ seg > 0 /\ more.got = total ->
               RecvSdu([w EXCEPT !.chan[c] = whole], c, more.got, answer, pdu)
          [] OTHER ->
               [w EXCEPT !.chan[c] = IF more.rx = 0 /\ more.got = InitCredits
                                     THEN Give(more, total - 1, pdu) ELSE more]

\* bt_l2cap_recv: l2cap_chan_recv_queue.
PeerSends(c, seg) ==
    /\ link /\ Contains(mux.list, c) /\ Len(mux.chan[c].rxQ) < MaxQueue
    /\ mux.chan[c].state = "CONNECTED" /\ ~mux.chan[c].shut
    /\ mux' = [mux EXCEPT !.chan[c].rxQ = Append(@, seg), !.chan[c].rxWork = TRUE]
    /\ UNCHANGED <<flight, metas, link, secured, sdus>>

\* l2cap_rx_process: one handler for all that wait.
RxWork(c, answers, pdu) ==
    /\ mux.chan[c].rxWork /\ Len(mux.chan[c].held) < MaxQueue
    /\ Cardinality(mux.asked) + MaxQueue <= MaxAsked
    /\ LET q == mux.chan[c].rxQ
           taken == [mux EXCEPT !.chan[c].rxQ = <<>>, !.chan[c].rxWork = FALSE]
       IN  mux' = FoldLeft(LAMBDA w, i : Recv(w, c, q[i], answers[i], pdu), taken,
                           [i \in 1 .. Len(q) |-> i])
    /\ UNCHANGED <<flight, metas, link, secured, sdus>>

\* bt_l2cap_chan_recv_complete: the application is done with an SDU.
RecvComplete(c, pdu) ==
    LET ch == mux.chan[c]
        done == [ch EXCEPT !.held = Tail(@)]
    IN  /\ ch.held # <<>>
        /\ mux' = [mux EXCEPT !.chan[c] =
                     IF ch.state = "CONNECTED" THEN Give(done, Head(ch.held), pdu) ELSE done]
        /\ UNCHANGED <<flight, metas, link, secured, sdus>>

-----------------------------------------------------------------------------

\* The link ends: every segment's callback fails, and bt_l2cap_disconnected.
LinkDown ==
    /\ link
    /\ link' = FALSE
    /\ metas' = metas + Cardinality({i \in DOMAIN flight : flight[i].last})
    /\ flight' = <<>>
    /\ mux' = [Without(mux, ToSet(mux.list)) EXCEPT !.asked = {}]
    /\ UNCHANGED <<secured, sdus>>

Init == /\ mux = [list |-> <<>>, chan |-> [c \in Chans |-> Closed], asked |-> {}]
        /\ flight = <<>> /\ metas = Slots /\ link = TRUE /\ sdus = 0 /\ cut = FALSE
        /\ secured \in BOOLEAN

Unsent(c) == mux.chan[c].queue # <<>> \/ \E i \in DOMAIN flight : flight[i].chan = c

Step ==
    \/ \E c \in Chans, pdu \in BOOLEAN :
          Connect(c, pdu) \/ Disconnect(c, pdu) \/ PeerDisconnects(c, pdu)
             \/ RecvComplete(c, pdu) \/ PeerGives(c, 1, pdu)
    \/ \E done, pdu \in BOOLEAN : EncryptChange(done, pdu)
    \/ \E a \in mux.asked, rejected \in BOOLEAN :
          EndOfRequest(a, rejected)
             \/ \E result \in {"ok", "security", "no"} : ConnRsp(a, result, rejected)
    \/ \E c \in Chans : RtxTimeout(c) \/ PeerConnects(c) \/ TxWork(c)
    \/ \E c \in Chans, n \in 1 .. 2 : Send(c, n)
    \/ \E c \in Chans, seg \in IF MaxSegs = 0 THEN {} ELSE 0 .. MaxSegs : PeerSends(c, seg)
    \/ \E c \in Chans, pdu \in BOOLEAN :
          \E answers \in [1 .. Len(mux.chan[c].rxQ) -> {"ok", "later", "error"}] :
             RxWork(c, answers, pdu)
    \/ SegmentSent
    \/ LinkDown

Next == /\ Step
        /\ cut' = (cut \/ \E c \in Chans \ ToSet(mux'.list) : Unsent(c))

Spec == Init /\ [][Next]_vars

-----------------------------------------------------------------------------
(* Properties. *)

Channels == [state: {"DISCONNECTED", "CONNECTING", "CONNECTED", "DISCONNECTING"},
             attached: BOOLEAN, ident: Nat, rtx: BOOLEAN, pending: BOOLEAN, shut: BOOLEAN,
             tx: 0 .. MaxCredits, queue: Seq([first: BOOLEAN, last: BOOLEAN]), work: BOOLEAN,
             rx: 0 .. InitCredits, rxQ: Seq(0 .. MaxSegs), rxWork: BOOLEAN,
             sdu: 0 .. MaxSegs, got: 0 .. MaxSegs, held: Seq(1 .. MaxSegs)]

\* Type: the channels, at most as many segments on their way as there are contexts.
TypeOK ==
    /\ mux.list \in Seq(Chans) /\ IsInjective(mux.list)
    /\ mux.chan \in [Chans -> Channels]
    /\ mux.asked \subseteq [kind: {"conn", "disc"}, chan: Chans, ident: Nat \ {0}]
    /\ flight \in Seq([chan: Chans, last: BOOLEAN]) /\ Len(flight) <= Slots
    /\ metas \in 0 .. Slots /\ sdus \in 0 .. MaxSdus
    /\ {link, secured, cut} \subseteq BOOLEAN

\* A channel that waits for the peer has its RTX timer running, or waits for encryption: none
\* waits for ever for an answer that is lost or no longer its own (l2cap_chan_send_req,
\* le_conn_rsp, l2cap_le_encrypt_change).
RequestsAreTimed ==
    \A c \in ToSet(mux.list) :
        mux.chan[c].state \in {"CONNECTING", "DISCONNECTING"}
            => mux.chan[c].rtx \/ mux.chan[c].pending

\* What waits on channel c, which has credits, and nothing under way will resume it.
InLimbo(c) ==
    /\ Contains(mux.list, c) /\ mux.chan[c].queue # <<>> /\ mux.chan[c].tx > 0
    /\ ~mux.chan[c].work
    /\ \A i \in DOMAIN flight : flight[i].chan # c

\* The comment in l2cap_chan_tx_process: a channel is not stuck "in limbo" while SDUs are sent.
\* With contexts for these channels alone it can be only if another channel has segments to
\* be sent, is in the middle of an SDU, or was taken off the list before that.
LimboHasACause ==
    \A c \in Chans : InLimbo(c) =>
        \/ cut
        \/ \E d \in Chans \ {c} :
              \/ \E i \in DOMAIN flight : flight[i].chan = d
              \/ mux.chan[d].queue # <<>> /\ ~Head(mux.chan[d].queue).first

\* The credits an SDU took are given back with it: a peer is without credits only while data of
\* it waits here, the application holds an SDU, or the peer used more segments for one SDU
\* than it was given credits for at the start (l2cap_chan_update_credits adds to them once).
PeerIsNotStarved ==
    \A c \in Chans :
        LET ch == mux.chan[c]
        IN  ch.state = "CONNECTED" /\ ~ch.shut /\ ch.rx = 0
                => ch.rxQ # <<>> \/ ch.held # <<>> \/ ch.got > InitCredits
=============================================================================
