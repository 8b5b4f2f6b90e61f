---------------------------------- MODULE Att ----------------------------------
(***************************************************************************)
(* The fixed ATT bearer of one connection (att.c): the requests and        *)
(* indications the host sends, one at a time, its answers to the peer's,   *)
(* and what it sends without an answer.  Every PDU holds one entry of      *)
(* tx_meta_data from its creation until the callback of its transmission,  *)
(* which also returns the context of conn.c it was sent with; SMP and      *)
(* other connections take contexts from the same pool.                     *)
(*                                                                         *)
(* An indication is a request whose answer is a confirmation.  The peer    *)
(* keeps to the protocol: it sends one request at a time, and one answer   *)
(* to each.  The link is encrypted only when ATT asks for it.              *)
(***************************************************************************)
EXTENDS Naturals, SequencesExt, FiniteSetsExt

CONSTANTS
    Reqs,       \* req_slab
    Metas,      \* tx_meta_data[CONFIG_BT_CONN_TX_MAX], as many as there are contexts
    None,       \* no request, no meta data
    Cancelled,  \* &cancel
    MaxOthers,  \* bound: contexts others hold at the same time
    MaxSec      \* bound: how often the security level can rise

\* What the module assumes of its constants; MCLayers asserts it of each instance.
AttAssumption ==
    /\ None \notin Reqs \cup Metas /\ Cancelled \notin Reqs \cup {None}
    /\ IsFiniteSet(Reqs) /\ IsFiniteSet(Metas) /\ MaxOthers \in Nat /\ MaxSec \in Nat

VARIABLES
    bearer,     \* the channel, its queues, and the PDUs it gave to the connection
    attached,   \* chan->att is set, and the channel has ATT_CONNECTED
    link,       \* up (BT_CONN_CONNECTED), ending, down
    sec,        \* conn->sec_level
    raising,    \* conn->required_sec_level is higher than conn->sec_level
    others,     \* contexts held by others
    peerWaits   \* the peer waits for an answer

vars == <<bearer, attached, link, sec, raising, others, peerWaits>>

\* A bearer before its first PDU; free is free_att_tx_meta_data, used the allocated requests,
\* unsent the PDU of a request that waits, asked the requests the peer has yet to answer.
Fresh == [chanReq |-> None, reqs |-> <<>>, used |-> {}, unsent |-> [r \in Reqs |-> None],
          retrying |-> FALSE, rspQ |-> <<>>, txQ |-> <<>>, timer |-> FALSE,
          flight |-> <<>>, free |-> Metas, asked |-> 0]

-----------------------------------------------------------------------------
(* Sending. *)

\* chan_send and bt_conn_send_cb succeed.
CanSend(b) == attached /\ link = "up" /\ Len(b.flight) + others < Cardinality(Metas)

Sending(b, m, kind) ==
    [b EXCEPT !.flight = Append(@, [meta |-> m, kind |-> kind]),
              !.asked = IF kind = "req" THEN @ + 1 ELSE @]

\* One request at a time, and only if chan_req_send does not fail: then it is prepended again.
MaySendReq(b) == b.chanReq = None /\ b.reqs # <<>> /\ CanSend(b)

\* att_req_send_process.
SendReq(b) ==
    LET r == Head(b.reqs)
    IN  IF ~MaySendReq(b) THEN b
        ELSE [Sending(b, b.unsent[r], "req") EXCEPT
                !.chanReq = r, !.reqs = Tail(@), !.unsent[r] = None, !.retrying = FALSE]

\* process_queue on the queue of the channel and on that of the bearer.
SendRsp(b) == IF b.rspQ = <<>> \/ ~CanSend(b) THEN b
              ELSE [Sending(b, Head(b.rspQ), "rsp") EXCEPT !.rspQ = Tail(@)]
SendCmd(b) == IF b.txQ = <<>> \/ ~CanSend(b) THEN b
              ELSE [Sending(b, Head(b.txQ), "cmd") EXCEPT !.txQ = Tail(@)]

\* bt_att_sent: the first of the three queues something can be sent from.
SendNext(b) ==
    IF SendReq(b) # b THEN SendReq(b) ELSE IF SendRsp(b) # b THEN SendRsp(b) ELSE SendCmd(b)

\* bt_att_req_free, of each request in rs.
FreeReqs(b, rs) ==
    [b EXCEPT !.used = @ \ rs, !.unsent = [r \in Reqs |-> IF r \in rs THEN None ELSE @[r]],
              !.free = @ \cup ({b.unsent[r] : r \in rs} \ {None})]
FreeReq(b, r) == FreeReqs(b, {r})

\* att_handle_rsp: the request on the channel ends, by an answer or a failure.
HandleRsp(b) ==
    LET idle == [b EXCEPT !.timer = FALSE, !.chanReq = None]
    IN  SendReq(IF b.chanReq \in Reqs THEN FreeReq(idle, b.chanReq) ELSE idle)

Kinds(pdus)  == {pdus[i].kind : i \in DOMAIN pdus}
MetasOf(pdus) == {pdus[i].meta : i \in DOMAIN pdus}

\* The callbacks of PDUs: the 30 s of the request on the channel begin (chan_req_sent), and the
\* meta data is free.
Callbacks(b, pdus) ==
    [b EXCEPT !.timer = @ \/ ("req" \in Kinds(pdus) /\ b.chanReq # None),
              !.free = @ \cup MetasOf(pdus)]

-----------------------------------------------------------------------------
(* The application. *)

\* gatt_req_send, bt_gatt_indicate and bt_att_req_send.
Request(r, m) ==
    /\ attached /\ link = "up" /\ r \notin bearer.used /\ m \in bearer.free
    /\ bearer' = SendReq([bearer EXCEPT !.used = @ \cup {r}, !.free = @ \ {m},
                                        !.unsent[r] = m, !.reqs = Append(@, r)])
    /\ UNCHANGED <<attached, link, sec, raising, others, peerWaits>>

\* bt_att_send, of a notification or a command: what waits longest goes first.
Command(m) ==
    /\ attached /\ link = "up" /\ m \in bearer.free
    /\ bearer' = SendCmd([bearer EXCEPT !.free = @ \ {m}, !.txQ = Append(@, m)])
    /\ UNCHANGED <<attached, link, sec, raising, others, peerWaits>>

\* A wrong bt_att_chan_req_cancel, which makes room for the next request at once.
CancelOutstandingAtOnce(b) == FreeReq([b EXCEPT !.chanReq = None], b.chanReq)

\* bt_att_chan_req_cancel: the channel waits for the answer all the same.
CancelOutstanding(b) == FreeReq([b EXCEPT !.chanReq = Cancelled], b.chanReq)

CancelWaiting(b, r) == FreeReq([b EXCEPT !.reqs = RemoveFirst(@, r)], r)

\* bt_gatt_cancel; it looks at the request of the channel, so there has to be one.
Cancel(r) ==
    /\ attached /\ link = "up" /\ r \in bearer.used /\ bearer.chanReq # None
    /\ bearer' = IF bearer.chanReq = r THEN CancelOutstanding(bearer) ELSE CancelWaiting(bearer, r)
    /\ UNCHANGED <<attached, link, sec, raising, others, peerWaits>>

-----------------------------------------------------------------------------
(* The connection. *)

\* The oldest PDU was transmitted: att_sent runs only if there was no error.
Sent ==
    /\ bearer.flight # <<>>
    /\ LET b == [bearer EXCEPT !.flight = Tail(@)]
       IN  bearer' = Callbacks(IF attached THEN SendNext(b) ELSE b, <<Head(bearer.flight)>>)
    /\ UNCHANGED <<attached, link, sec, raising, others, peerWaits>>

\* Others send with a callback, and have sent.
OthersSend ==
    /\ Len(bearer.flight) + others < Cardinality(Metas) /\ others < MaxOthers
    /\ others' = others + 1
    /\ UNCHANGED <<bearer, attached, link, sec, raising, peerWaits>>
OthersSent ==
    /\ others > 0
    /\ others' = others - 1
    /\ UNCHANGED <<bearer, attached, link, sec, raising, peerWaits>>

\* process_unack_tx: every PDU after the n that were transmitted gets its callback at once.
LinkLost(n) ==
    /\ link = "up" /\ n \in 0 .. Len(bearer.flight)
    /\ link' = "ending"
    /\ LET unacked == SubSeq(bearer.flight, n + 1, Len(bearer.flight))
       IN  bearer' = [Callbacks(bearer, unacked) EXCEPT
                        !.flight = SubSeq(@, 1, n), !.asked = 0]
    /\ UNCHANGED <<attached, sec, raising, others, peerWaits>>

\* att_chan_detach: the answers that wait are dropped.
Released(b) == [b EXCEPT !.rspQ = <<>>, !.free = @ \cup Range(b.rspQ)]

\* bt_att_disconnected, once the channel is off the list: nothing more can be sent, every
\* request fails, and att_reset drops what else waits.
Closed(b) ==
    LET idle == IF b.chanReq \in Reqs THEN FreeReq(b, b.chanReq) ELSE b
        done == FreeReqs(Released(idle), Range(b.reqs))
    IN  [done EXCEPT !.chanReq = None, !.timer = IF b.chanReq = None THEN @ ELSE FALSE,
                     !.reqs = <<>>, !.txQ = <<>>, !.free = @ \cup Range(b.txQ)]

\* att_timeout: the peer did not answer for 30 s.
Timeout ==
    /\ bearer.timer
    /\ bearer' = [Closed(bearer) EXCEPT !.timer = FALSE]
    /\ attached' = FALSE
    /\ UNCHANGED <<link, sec, raising, others, peerWaits>>

\* bt_l2cap_disconnected, from deferred_work: conn_cleanup has run.
TearDown ==
    /\ link = "ending" /\ bearer.flight = <<>>
    /\ bearer' = IF attached THEN Closed(bearer) ELSE bearer
    /\ attached' = FALSE /\ link' = "down" /\ sec' = 0 /\ raising' = FALSE /\ peerWaits' = FALSE
    /\ UNCHANGED others

\* bt_att_accept and bt_att_connected, with a channel cleared to zeroes.
Connected ==
    /\ link = "down"
    /\ link' = "up" /\ attached' = TRUE
    /\ UNCHANGED <<bearer, sec, raising, others, peerWaits>>

-----------------------------------------------------------------------------
(* The peer. *)

\* bt_att_recv of an answer, good or bad; without a bearer it is ignored.
Answer ==
    /\ link = "up" /\ bearer.asked > 0
    /\ LET b == [bearer EXCEPT !.asked = @ - 1]
       IN  bearer' = IF attached THEN HandleRsp(b) ELSE b
    /\ UNCHANGED <<attached, link, sec, raising, others, peerWaits>>

\* att_error_rsp, when a higher security level may help: the request stays on the channel.
Refused ==
    /\ link = "up" /\ bearer.asked > 0 /\ attached /\ bearer.chanReq \in Reqs /\ sec < MaxSec
    /\ bearer' = [bearer EXCEPT !.asked = @ - 1, !.retrying = TRUE]
    /\ raising' = TRUE
    /\ UNCHANGED <<attached, link, sec, others, peerWaits>>

\* att_req_retry, and what follows its failure.
Retry(b, m) ==
    IF m # None /\ CanSend(b) THEN Sending([b EXCEPT !.free = @ \ {m}], m, "req") ELSE HandleRsp(b)

\* bt_att_encrypt_change.
EncryptChange(ok) ==
    /\ link = "up" /\ raising
    /\ raising' = FALSE
    /\ sec' = IF ok THEN sec + 1 ELSE sec
    /\ \/ ~(attached /\ bearer.chanReq \in Reqs /\ bearer.retrying) /\ UNCHANGED bearer
       \/ /\ attached /\ bearer.chanReq \in Reqs /\ bearer.retrying
          /\ IF ok THEN \E m \in IF bearer.free = {} THEN {None} ELSE bearer.free :
                           bearer' = Retry(bearer, m)
             ELSE bearer' = HandleRsp(bearer)
    /\ UNCHANGED <<attached, link, others, peerWaits>>

\* bt_att_recv of a request or an indication.  Without meta data for an answer there is none;
\* an answer that cannot be sent waits in the queue of the channel.
PeerRequest ==
    /\ link = "up" /\ attached /\ ~peerWaits
    /\ peerWaits' = TRUE
    /\ \/ bearer.free = {} /\ UNCHANGED bearer
       \/ \E m \in bearer.free :
            LET b == [bearer EXCEPT !.free = @ \ {m}]
            IN  bearer' = IF CanSend(b) THEN Sending(b, m, "rsp") ELSE [b EXCEPT !.rspQ = Append(@, m)]
    /\ UNCHANGED <<attached, link, sec, raising, others>>

\* The peer has the answer.
PeerAnswered ==
    /\ link = "up" /\ peerWaits /\ \E i \in DOMAIN bearer.flight : bearer.flight[i].kind = "rsp"
    /\ peerWaits' = FALSE
    /\ UNCHANGED <<bearer, attached, link, sec, raising, others>>

-----------------------------------------------------------------------------
Init ==
    /\ bearer = Fresh
    /\ attached = FALSE /\ link = "down" /\ sec = 0 /\ raising = FALSE
    /\ others = 0 /\ peerWaits = FALSE

Next ==
    \/ \E m \in Metas : Command(m) \/ \E r \in Reqs : Request(r, m)
    \/ \E r \in Reqs : Cancel(r)
    \/ Sent \/ OthersSend \/ OthersSent
    \/ \E n \in 0 .. Cardinality(Metas) : LinkLost(n)
    \/ Timeout \/ TearDown \/ Connected
    \/ Answer \/ Refused \/ PeerRequest \/ PeerAnswered
    \/ \E ok \in BOOLEAN : EncryptChange(ok)

Spec == Init /\ [][Next]_vars
-----------------------------------------------------------------------------
(* Properties. *)

TypeOK ==
    /\ bearer.chanReq \in Reqs \cup {None, Cancelled}
    /\ bearer.used \subseteq Reqs /\ Range(bearer.reqs) \subseteq Reqs
    /\ bearer.unsent \in [Reqs -> Metas \cup {None}]
    /\ bearer.retrying \in BOOLEAN /\ bearer.timer \in BOOLEAN
    /\ Range(bearer.rspQ) \subseteq Metas /\ Range(bearer.txQ) \subseteq Metas
    /\ Range(bearer.flight) \subseteq [meta : Metas, kind : {"req", "rsp", "cmd"}]
    /\ bearer.free \subseteq Metas /\ bearer.asked \in Nat
    /\ attached \in BOOLEAN /\ link \in {"up", "ending", "down"}
    /\ sec \in 0 .. MaxSec /\ raising \in BOOLEAN
    /\ others \in 0 .. MaxOthers /\ peerWaits \in BOOLEAN

\* Every entry of tx_meta_data is in exactly one place: free, with the PDU of a request that
\* waits, in one of the two queues, or with a PDU whose callback is still to run; so none is
\* lost and none is freed twice by answers, failures, timeouts and disconnections
\* (att.c:179-185, 2992-3040, 3060-3085, 3971-3987).
MetasAccounted ==
    LET waiting == {r \in Reqs : bearer.unsent[r] # None}
        queued == bearer.rspQ \o bearer.txQ
    IN  /\ Cardinality(bearer.free) + Len(queued) + Len(bearer.flight) + Cardinality(waiting)
              = Cardinality(Metas)
        /\ bearer.free \cup Range(queued) \cup MetasOf(bearer.flight)
              \cup {bearer.unsent[r] : r \in waiting} = Metas

\* An allocated request is on the channel or waits in att->reqs, in one of them and once, and
\* has its PDU as long as it waits (att.c:539-565, 755-789, 791-830, 4039-4075).
RequestsAccounted ==
    /\ bearer.used = Range(bearer.reqs) \cup ({bearer.chanReq} \cap Reqs)
    /\ IsInjective(bearer.reqs) /\ bearer.chanReq \notin Range(bearer.reqs)
    /\ \A r \in Reqs : bearer.unsent[r] # None <=> r \in Range(bearer.reqs)

\* The peer is never asked a second time before it has answered, whatever was cancelled or
\* retried; and while it has to answer, the channel is taken, so that the answer is not taken
\* for that of another request (att.c:587-602, 4026-4037).
OneTransaction ==
    attached => bearer.asked <= 1 /\ (bearer.asked = 1 => bearer.chanReq # None)

\* A request on the channel, cancelled or not, is under the 30 s of the protocol or will be
\* when its transmission is reported: answers, retries and transmissions that are reported
\* late leave no request behind that could block the bearer for ever.  And the 30 s never run
\* out on a bearer that waits for nothing (att.c:654-668, 800-802).
TransactionGuarded ==
    /\ attached /\ bearer.chanReq # None =>
          bearer.timer \/ \E i \in DOMAIN bearer.flight : bearer.flight[i].kind = "req"
    /\ bearer.timer => attached /\ bearer.chanReq # None
=============================================================================
