---------------------------------- MODULE Tell ----------------------------------
(***************************************************************************)
(* What a GATT server tells its clients (gatt.c): notifications, one by    *)
(* one or several in a PDU, and indications, to one client or to every     *)
(* one that asked for them.  Small notifications to a client that allows   *)
(* it wait in nfy_mult for others to share their PDU, at most until        *)
(* nfy_mult_work runs.                                                     *)
(*                                                                         *)
(* One bearer for each link, and one characteristic with a CCC.  The       *)
(* application uses the parameters of an indication again once it has them *)
(* back.  CONFIG_BT_GATT_NOTIFY_MULTIPLE is an option, and without it no   *)
(* client is in Sharers.                                                   *)
(***************************************************************************)
EXTENDS Naturals, SequencesExt, FiniteSetsExt

CONSTANTS
    Links,
    Sharers,     \* the links whose client may set CF_NOTIFY_MULTI
    Marks,       \* the pairs of func and user_data that notifications are made with
    Params,      \* the bt_gatt_indicate_params of the application
    None,        \* no indication
    Room,        \* how many values a PDU holds
    Metas,       \* CONFIG_BT_CONN_TX_MAX, the contexts and the entries of tx_meta_data
    Requests,    \* the size of req_slab
    MaxNotes,    \* bound: notifications that are made
    MaxOthers    \* bound: contexts others hold at the same time

\* What the module assumes of its constants; MCLayers asserts it of each instance.
TellAssumption ==
    /\ IsFiniteSet(Links) /\ Sharers \subseteq Links /\ None \notin Params
    /\ Room \in Nat \ {0, 1} /\ Metas \in Nat /\ Requests \in Nat
    /\ MaxNotes \in Nat /\ MaxOthers \in Nat

VARIABLES
    talk,   \* the links with their batch and their bearer, the pool, and the work
    inds,   \* the parameters of indications
    away,   \* contexts that are held by others
    tally     \* not in the code: what became of the notifications of each mark

vars == <<talk, inds, away, tally>>

\* want: what the client configured; multi: its CF_NOTIFY_MULTI; batch: the values in nfy_mult, of
\* one mark; asking: the indication that waits for its answer; waiting: att->reqs.  heard, not in
\* the code, is the last notification that was transmitted.
Idle == [link |-> "down", want |-> {}, multi |-> FALSE, batch |-> <<>>, mark |-> None, txQ |-> <<>>,
         flight |-> <<>>, asking |-> None, waiting |-> <<>>, heard |-> 0]

-----------------------------------------------------------------------------
(* The bearer, as in Att. *)

InFlight(s) == MapThenSumSet(LAMBDA c : Len(s.at[c].flight), Links)
CanSend(s, c) == s.at[c].link = "up" /\ InFlight(s) + away < Metas

\* bt_att_sent and att_send_process: a request, if none is out, and then the queue.
SendReq(s, c) ==
    [s EXCEPT !.at[c].flight = Append(@, [notes |-> <<>>, mark |-> None]),
              !.at[c].asking = Head(s.at[c].waiting), !.at[c].waiting = Tail(@)]
SendNext(s, c) ==
    LET a == s.at[c]
    IN  CASE ~CanSend(s, c) -> s
          [] CanSend(s, c) /\ a.asking = None /\ a.waiting # <<>> -> SendReq(s, c)
          [] CanSend(s, c) /\ ~(a.asking = None /\ a.waiting # <<>>) /\ a.txQ # <<>> ->
               [s EXCEPT !.at[c].flight = Append(@, Head(a.txQ)), !.at[c].txQ = Tail(@)]
          [] OTHER -> s
SendQueued(s, c) ==
    IF CanSend(s, c) /\ s.at[c].txQ # <<>>
    THEN [s EXCEPT !.at[c].flight = Append(@, Head(s.at[c].txQ)), !.at[c].txQ = Tail(@)]
    ELSE s

\* bt_att_send: what waits longest goes first.  Without a bearer the PDU is released.
AttSend(s, c, pdu) ==
    IF s.at[c].link = "up" THEN SendQueued([s EXCEPT !.at[c].txQ = Append(@, pdu)], c)
    ELSE [s EXCEPT !.free = @ + 1]

\* bt_att_req_send.
AttReqSend(s, c, p) ==
    LET r == [s EXCEPT !.at[c].waiting = Append(@, p)]
    IN  IF CanSend(r, c) /\ r.at[c].asking = None THEN SendReq(r, c) ELSE r

Asked(s) == MapThenSumSet(LAMBDA c : Len(s.at[c].waiting) + (IF s.at[c].asking = None THEN 0 ELSE 1), Links)

-----------------------------------------------------------------------------
(* Notifications. *)

\* gatt_notify_flush and gatt_notify_mult_send.  One value becomes a plain notification.
Flush(s, c) ==
    IF s.at[c].batch = <<>> THEN s
    ELSE AttSend([s EXCEPT !.at[c].batch = <<>>, !.at[c].mark = None], c,
                 [notes |-> s.at[c].batch, mark |-> s.at[c].mark])

\* bt_att_create_pdu, of n values, if there is meta data for it.
Create(s, n) == [s EXCEPT !.free = @ - 1, !.made = @ + n]

\* gatt_notify_mult.  A batch that is full or has another mark goes first.
NotifyMult(s, c, m) ==
    LET r == IF Len(s.at[c].batch) = Room \/ s.at[c].mark # m THEN Flush(s, c) ELSE s
    IN  IF r.at[c].batch = <<>> /\ r.free = 0 THEN r
        ELSE [(IF r.at[c].batch = <<>> THEN Create(r, 1) ELSE [r EXCEPT !.made = @ + 1]) EXCEPT
                !.at[c].batch = Append(@, r.made + 1), !.at[c].mark = m, !.work = TRUE]

\* gatt_notify.  It has failed if made is as before.
GattNotify(s, c, m) ==
    CASE s.at[c].multi -> NotifyMult(s, c, m)
      [] ~s.at[c].multi /\ s.free = 0 -> s
      [] OTHER -> AttSend(Create(s, 1), c, [notes |-> <<s.made + 1>>, mark |-> m])

\* notify_cb goes through the links whose entry asks for this and nothing else, until one fails.
Askers(s, type) == SelectSeq(SetToSeq(Links), LAMBDA c : s.at[c].link = "up" /\ s.at[c].want = {type})

\* The application's calls, which s comes from.
Made(s, m) ==
    /\ talk' = s
    /\ tally' = [tally EXCEPT ![m].made = @ + s.made - talk.made]
    /\ UNCHANGED <<inds, away>>

\* bt_gatt_notify_cb, for one link.
Notify(c, m) ==
    /\ talk.at[c].link = "up" /\ talk.made < MaxNotes
    /\ Made(GattNotify(talk, c, m), m)

\* bt_gatt_notify_cb without a link.
NotifyAll(m) ==
    /\ talk.made + Cardinality(Links) <= MaxNotes
    /\ LET one(s, c) == LET r == IF s.stop THEN s ELSE GattNotify(s, c, m)
                        IN  [r EXCEPT !.stop = r.made = s.made]
       IN  Made([FoldLeft(one, talk, Askers(talk, "notify")) EXCEPT !.stop = FALSE], m)

\* bt_gatt_is_subscribed, with one bit of the value among others.
IsSubscribed(c, type) == talk.at[c].link = "up" /\ type \in talk.at[c].want

\* gatt_notify_multiple_verify_args, and _params if all values have one mark and fit.
MayShare(c) == talk.at[c].link = "up" /\ talk.at[c].multi
Verified(c) == MayShare(c) /\ IsSubscribed(c, "notify")

\* bt_gatt_notify_multiple: the batch goes first.
NotifyMultiple(c, m, n) ==
    /\ Verified(c) /\ talk.made + n <= MaxNotes
    /\ LET s == Flush(talk, c)
           pdu == [notes |-> [i \in 1 .. n |-> talk.made + i], mark |-> m]
       IN  Made(IF s.free = 0 THEN s ELSE AttSend(Create(s, n), c, pdu), m)

\* What is in a sequence of PDUs and of mark m; None is the mark of an indication.
NotesOf(pdus, m) == FoldLeft(LAMBDA n, pdu : IF pdu.mark = m THEN n + Len(pdu.notes) ELSE n, 0, pdus)

\* chan_tx_complete, of PDUs that were transmitted or not.
Told(pdus) == [m \in Marks |-> [tally[m] EXCEPT !.told = @ + NotesOf(pdus, m)]]
Dropped(pdus) == [m \in Marks |-> [tally[m] EXCEPT !.dropped = @ + NotesOf(pdus, m)]]

\* notify_mult_process.  Of a link that has ended the PDU is released, and its buffer once more.
FlushWork ==
    /\ talk.work
    /\ talk' = [FoldLeft(Flush, talk, SetToSeq(Links)) EXCEPT !.work = FALSE]
    /\ LET ended == SelectSeq(SetToSeq(Links), LAMBDA c : talk.at[c].link # "up")
       IN  tally' = Dropped([i \in DOMAIN ended |-> [notes |-> talk.at[ended[i]].batch,
                                                     mark |-> talk.at[ended[i]].mark]])
    /\ UNCHANGED <<inds, away>>

-----------------------------------------------------------------------------
(* Indications. *)

\* gatt_indicate and gatt_req_alloc: it needs a request and meta data.
CanIndicate(s) == s.free > 0 /\ Asked(s) < Requests
GattIndicate(s, c, p) == AttReqSend([s EXCEPT !.free = @ - 1], c, p)

\* bt_gatt_indicate, for one link.  A failure leaves _ref as it is.
Indicate(c, p) ==
    /\ talk.at[c].link = "up" /\ ~inds[p].busy
    /\ LET ok == CanIndicate(talk)
       IN  /\ talk' = IF ok THEN GattIndicate(talk, c, p) ELSE talk
           /\ inds' = [inds EXCEPT ![p] = [ref |-> 1, busy |-> ok]]
    /\ UNCHANGED <<away, tally>>

\* bt_gatt_indicate without a link: it succeeds if the first did.
IndicateAll(p) ==
    /\ ~inds[p].busy
    /\ LET one(r, c) == IF CanIndicate(r) THEN GattIndicate(r, c, p) ELSE r
           s == FoldLeft(one, talk, Askers(talk, "indicate"))
           n == Asked(s) - Asked(talk)
       IN  /\ talk' = s
           /\ inds' = [inds EXCEPT ![p] = [ref |-> n, busy |-> n > 0]]
    /\ UNCHANGED <<away, tally>>

\* gatt_indicate_rsp: the last answer gives the parameters back, by destroy.
Answered(ps, p) == [ps EXCEPT ![p] = [ref |-> @.ref - 1, busy |-> @.ref > 1]]

\* att_handle_rsp of a confirmation.
Confirm(c) ==
    /\ talk.at[c].link = "up" /\ talk.at[c].asking # None
    /\ inds' = Answered(inds, talk.at[c].asking)
    /\ LET s == [talk EXCEPT !.at[c].asking = None]
       IN  talk' = IF CanSend(s, c) /\ s.at[c].waiting # <<>> THEN SendReq(s, c) ELSE s
    /\ UNCHANGED <<away, tally>>

-----------------------------------------------------------------------------
(* The links. *)

LastOf(pdu, heard) == IF pdu.notes = <<>> THEN heard ELSE pdu.notes[Len(pdu.notes)]

\* The oldest PDU was transmitted.
Sent(c) ==
    /\ talk.at[c].flight # <<>>
    /\ LET pdu == Head(talk.at[c].flight)
           s == [talk EXCEPT !.at[c].flight = Tail(@), !.at[c].heard = LastOf(pdu, @)]
       IN  talk' = [SendNext(s, c) EXCEPT !.free = @ + 1] /\ tally' = Told(<<pdu>>)
    /\ UNCHANGED <<inds, away>>

OthersSend ==
    /\ InFlight(talk) + away < Metas /\ away < MaxOthers
    /\ away' = away + 1
    /\ UNCHANGED <<talk, inds, tally>>
OthersSent ==
    /\ away > 0
    /\ away' = away - 1
    /\ UNCHANGED <<talk, inds, tally>>

\* bt_gatt_connected, of a client with what it configured, and its write to Client Supported Features.
Connected(c, want) ==
    /\ talk.at[c].link = "down"
    /\ talk' = [talk EXCEPT !.at[c] = [Idle EXCEPT !.link = "up", !.want = want]]
    /\ UNCHANGED <<inds, away, tally>>
WriteCf(c) ==
    /\ c \in Sharers /\ talk.at[c].link = "up" /\ ~talk.at[c].multi
    /\ talk' = [talk EXCEPT !.at[c].multi = TRUE]
    /\ UNCHANGED <<inds, away, tally>>

\* process_unack_tx: all that was not transmitted.
LinkLost(c) ==
    /\ talk.at[c].link = "up"
    /\ LET flight == talk.at[c].flight
       IN  /\ talk' = [talk EXCEPT !.at[c].link = "ending", !.at[c].flight = <<>>,
                                       !.free = @ + Len(flight)]
           /\ tally' = Dropped(flight)
    /\ UNCHANGED <<inds, away>>

\* att_reset, and then bt_gatt_disconnected with cleanup_notify, which does not free the meta data.
TearDown(c) ==
    /\ talk.at[c].link = "ending"
    /\ LET a == talk.at[c]
           asked == IF a.asking = None THEN a.waiting ELSE <<a.asking>> \o a.waiting
       IN  /\ talk' = [talk EXCEPT !.at[c] = Idle,
                                       !.free = @ + Len(a.txQ) + Len(a.waiting),
                                       !.lost = IF a.batch = <<>> THEN @ ELSE @ + 1]
           /\ inds' = FoldLeft(Answered, inds, asked)
           /\ tally' = Dropped(Append(a.txQ, [notes |-> a.batch, mark |-> a.mark]))
    /\ UNCHANGED away

-----------------------------------------------------------------------------
Init ==
    /\ talk = [at |-> [c \in Links |-> Idle], free |-> Metas, made |-> 0, work |-> FALSE,
                 stop |-> FALSE, lost |-> 0]
    /\ inds = [p \in Params |-> [ref |-> 0, busy |-> FALSE]]
    /\ away = 0
    /\ tally = [m \in Marks |-> [made |-> 0, told |-> 0, dropped |-> 0]]

Next ==
    \/ \E c \in Links : \/ \E m \in Marks : Notify(c, m) \/ \E n \in 2 .. Room : NotifyMultiple(c, m, n)
                        \/ \E p \in Params : Indicate(c, p)
                        \/ \E want \in SUBSET {"notify", "indicate"} : Connected(c, want)
                        \/ Confirm(c) \/ Sent(c) \/ WriteCf(c) \/ LinkLost(c) \/ TearDown(c)
    \/ \E m \in Marks : NotifyAll(m)
    \/ \E p \in Params : IndicateAll(p)
    \/ FlushWork \/ OthersSend \/ OthersSent

Spec == Init /\ [][Next]_vars
-----------------------------------------------------------------------------
(* Properties. *)

TypeOK ==
    /\ DOMAIN talk.at = Links /\ talk.free \in 0 .. Metas /\ talk.lost \in 0 .. Metas
    /\ talk.made \in 0 .. MaxNotes /\ talk.work \in BOOLEAN /\ ~talk.stop
    /\ \A c \in Links : /\ talk.at[c].link \in {"up", "ending", "down"}
                        /\ talk.at[c].want \subseteq {"notify", "indicate"}
                        /\ talk.at[c].asking \in Params \cup {None}
                        /\ Len(talk.at[c].batch) <= Room
    /\ inds \in [Params -> [ref : 0 .. Cardinality(Links), busy : BOOLEAN]]
    /\ away \in 0 .. MaxOthers
    /\ tally \in [Marks -> [made : Nat, told : Nat, dropped : Nat]]

\* The notifications of a link, from the oldest.
Notes(c) ==
    LET a == talk.at[c]
    IN  FoldLeft(LAMBDA ns, pdu : ns \o pdu.notes, <<>>, a.flight \o a.txQ) \o a.batch

\* A client hears what it is notified of in the order the application said it, whatever shares a
\* PDU, waits for meta data or a context, or is sent at once (gatt.c:2533-2544, 2573-2625, 3226).
InOrder ==
    \A c \in Links : LET ns == <<talk.at[c].heard>> \o Notes(c)
                     IN  \A i \in 1 .. Len(ns) - 1 : ns[i] < ns[i + 1]

\* The callback of the application runs once for each notification that was accepted and
\* transmitted, of its own mark, also if several share a PDU; of the others none is left over
\* (gatt.c:2587-2618, att.c:545-563).
CallbacksCounted ==
    \A m \in Marks :
        LET of(c) == LET a == talk.at[c]
                     IN  NotesOf(a.flight \o a.txQ \o <<[notes |-> a.batch, mark |-> a.mark]>>, m)
        IN  tally[m].made = tally[m].told + tally[m].dropped + MapThenSumSet(of, Links)

\* Every entry of tx_meta_data is free or with a PDU that is still to be transmitted, but for
\* that of a batch whose link was torn down (gatt.c:2546-2555, 2501-2518, att.c:3986-4004).
PduMetasAccounted ==
    LET held(c) == LET a == talk.at[c]
                   IN  Len(a.flight) + Len(a.txQ) + Len(a.waiting) + (IF a.batch = <<>> THEN 0 ELSE 1)
    IN  talk.free + MapThenSumSet(held, Links) + talk.lost = Metas

\* What waits to share a PDU has the work that sends it (gatt.c:2618-2622, 2500-2518).
BatchHasWork == (\E c \in Links : talk.at[c].batch # <<>>) => talk.work

\* The parameters of an indication are with the stack exactly as long as an answer is outstanding,
\* from one client or from several of which some fail, answer or go: they come back, and not while
\* a request still points at them (gatt.c:2698-2713, 2956-2963, 3318-3332).
ParamsComeBack ==
    \A p \in Params :
        LET pending(c) == (IF talk.at[c].asking = p THEN 1 ELSE 0)
                          + Len(SelectSeq(talk.at[c].waiting, LAMBDA q : q = p))
            n == MapThenSumSet(pending, Links)
        IN  inds[p].busy = (n > 0) /\ (inds[p].busy => inds[p].ref = n)

\* What the runs check of clients that are told.
ToldHolds == InOrder /\ CallbacksCounted /\ BatchHasWork /\ ParamsComeBack
=============================================================================
