-------------------------------- MODULE Subscribe --------------------------------
(***************************************************************************)
(* A GATT client's subscriptions to one peer (gatt.c): the entry of        *)
(* subscriptions[] with its list, the writes of the CCC behind it, what    *)
(* the application is told, and what is left after a new connection or a   *)
(* restart.                                                                *)
(*                                                                         *)
(* One bearer, which answers requests one by one; its failures are Att's.  *)
(* CONFIG_BT_GATT_AUTO_RESUBSCRIBE, without AUTO_DISCOVER_CCC.  All ask    *)
(* for the same value.  The application does not call from its callbacks,  *)
(* but what notify returns may be to stop; left out is that this never     *)
(* ends if it cancels a write of an entry with another behind it.          *)
(***************************************************************************)
EXTENDS Naturals, SequencesExt

CONSTANTS
    Params,      \* the parameters the application has
    Shared,      \* those of one characteristic; every other has a characteristic of its own
    Volatile,    \* those with BT_GATT_SUBSCRIBE_FLAG_VOLATILE
    MaxReqs      \* bound: requests outstanding

\* What the module assumes of its constants; MCLayers asserts it of each instance.
SubscribeAssumption ==
    /\ Shared \subseteq Params /\ Volatile \subseteq Params /\ MaxReqs \in Nat \ {0}

VARIABLES
    entry,     \* the entry of subscriptions[] with its parameters, and what the application knows
    reqs,      \* the requests not answered, the first of them sent
    ccc,       \* at the peer: the parameters whose characteristic is configured
    session    \* the link and the bond

vars == <<entry, reqs, ccc, session>>

\* value: those with params->value # 0; pending and sent: the flags WRITE_PENDING and SENT;
\* app: "free" to be used, "subscribed", or "leaving".  Not in the code: mangled, that an
\* entry left the list the wrong way; spoiled, those whose characteristic may not be as they
\* want it, because a write was refused, cancelled or not made and nobody makes up for it.
Blank == [list |-> <<>>, claimed |-> FALSE, value |-> {}, pending |-> {}, sent |-> {},
          app |-> [p \in Params |-> "free"], mangled |-> FALSE, spoiled |-> {}]

\* The parameters of the same characteristic.
Same(p) == IF p \in Shared THEN Shared ELSE {p}
Alike(S) == UNION {Same(p) : p \in S}
Listed(e) == ToSet(e.list)
Told(e, p) == [e EXCEPT !.app[p] = "free"]

\* The list without what is not in S.
Only(s, S) == FlattenSeq([i \in DOMAIN s |-> IF s[i] \in S THEN <<s[i]>> ELSE <<>>])

\* gatt_sub_free, if the list is empty.
Freed(e) == IF e.list = <<>> THEN [e EXCEPT !.claimed = FALSE] ELSE e

\* sys_slist_remove as gatt_write_ccc_rsp calls it, with the next node for the one before: the
\* list then ends with the node that should leave it, or is empty if that was the last.
WrongRemove(s, p) ==
    LET i == CHOOSE j \in 1 .. Len(s) : s[j] = p
    IN  IF i < Len(s) THEN SubSeq(s, 1, i) ELSE <<>>

\* gatt_write_ccc_rsp, with gatt_sub_remove.
WriteCccRsp(e, p, err) ==
    LET k == [e EXCEPT !.pending = @ \ {p}, !.spoiled = IF err THEN @ \cup Same(p) ELSE @]
    IN  CASE err /\ p \in Listed(k) ->
                Freed([Told(k, p) EXCEPT !.list = WrongRemove(@, p), !.mangled = @ \/ Len(k.list) > 1])
          [] ~err /\ p \notin k.value -> Told(k, p)
          [] OTHER -> k

\* gatt_write_ccc: the request holds the value.
Request(p, on) == [param |-> p, on |-> on, gone |-> FALSE]
Writing(e, p) == [e EXCEPT !.sent = @ \cup {p}, !.pending = @ \cup {p}]
NotWritten(e, p) == [e EXCEPT !.sent = @ \cup {p}]

\* bt_gatt_cancel: bt_att_find_req_by_user_data finds the first request of p and
\* bt_att_req_cancel takes it away, or leaves its answer to be ignored if it is sent.
Found(p) == {i \in 1 .. Len(reqs) : reqs[i].param = p /\ ~reqs[i].gone}
Cancelled(p) ==
    LET i == Min(Found(p))
    IN  IF i = 1 THEN [reqs EXCEPT ![1].gone = TRUE] ELSE RemoveAt(reqs, i)

-----------------------------------------------------------------------------
(* The application. *)

\* bt_gatt_subscribe: no write if another subscription has made it; it may fail for want of a
\* request or a buffer.
Subscribe(p) ==
    /\ session.link = "up" /\ entry.app[p] = "free"
    /\ LET e == [entry EXCEPT !.value = @ \cup {p}, !.claimed = TRUE]
           in == [e EXCEPT !.list = <<p>> \o @, !.app[p] = "subscribed"]
           has == Same(p) \cap Listed(entry) \cap entry.value # {}
       IN  \/ p \in Listed(entry) /\ entry' = Freed(e) /\ UNCHANGED reqs
           \/ /\ p \notin Listed(entry) /\ has /\ UNCHANGED reqs
              /\ entry' = [in EXCEPT !.spoiled = @ \cup Alike({p} \cap entry.sent)]
           \/ /\ p \notin Listed(entry) /\ ~has /\ Len(reqs) < MaxReqs
              /\ reqs' = Append(reqs, Request(p, TRUE))
              /\ entry' = [Writing(in, p) EXCEPT !.spoiled = @ \ Same(p)]
           \/ p \notin Listed(entry) /\ ~has /\ entry' = Freed(NotWritten(e, p)) /\ UNCHANGED reqs
    /\ UNCHANGED <<ccc, session>>

\* bt_gatt_resubscribe, with parameters as they are after a restart.
Resubscribe(p) ==
    /\ session.link = "down" /\ session.bonded /\ entry.app[p] = "free"
    /\ p \notin entry.sent \cup Listed(entry)
    /\ entry' = [entry EXCEPT !.value = @ \cup {p}, !.claimed = TRUE, !.list = <<p>> \o @,
                              !.app[p] = "subscribed"]
    /\ UNCHANGED <<reqs, ccc, session>>

\* A wrong look at the other subscriptions.
NobodyElse(p) == FALSE

\* Whether another subscription needs the characteristic configured.
Others(p) == (Same(p) \cap Listed(entry)) \ {p} # {}

\* bt_gatt_unsubscribe, on its own or from bt_gatt_notification; a write under way is cancelled
\* first, as if the peer had refused it.
Unsubscribe(p) ==
    /\ session.link = "up" /\ p \in Listed(entry)
    /\ LET cancel == p \in entry.pending /\ Found(p) # {}
           c == IF cancel THEN WriteCccRsp(entry, p, TRUE) ELSE entry
           q == IF cancel THEN Cancelled(p) ELSE reqs
           off == [c EXCEPT !.value = @ \ {p}]
           Out(e) == Freed([e EXCEPT !.list = RemoveFirst(@, p)])
       IN  \/ Others(p) /\ reqs' = q /\ entry' = Told(Out(c), p)
           \/ /\ ~Others(p) /\ Len(q) < MaxReqs
              /\ reqs' = Append(q, Request(p, FALSE))
              /\ entry' = [Out(Writing(off, p)) EXCEPT !.app[p] = IF cancel THEN @ ELSE "leaving"]
           \/ /\ ~Others(p) /\ reqs' = q
              /\ entry' = [NotWritten(off, p) EXCEPT !.spoiled = @ \cup Same(p)]
    /\ UNCHANGED <<ccc, session>>

-----------------------------------------------------------------------------
(* The peer and the link. *)

\* The answer to the request that is sent.
Answer(err) ==
    /\ session.link # "down" /\ reqs # <<>>
    /\ LET r == Head(reqs)
       IN  /\ ccc' = CASE err -> ccc
                       [] ~err /\ r.on -> ccc \cup Same(r.param)
                       [] ~err /\ ~r.on -> ccc \ Same(r.param)
           /\ entry' = IF r.gone THEN entry ELSE WriteCccRsp(entry, r.param, err)
    /\ reqs' = Tail(reqs)
    /\ UNCHANGED session

\* What is kept while there is no link.
Staying(bonded) == IF bonded THEN Params \ Volatile ELSE {}

\* A wrong one, which takes the parameters out of the list and tells nobody.
RemovedUntold(e, bonded) ==
    Freed([e EXCEPT !.list = Only(@, Staying(bonded)), !.sent = @ \ Listed(e)])

\* remove_subscriptions, and bt_gatt_clear_subscriptions if there is no bond.
RemoveSubscriptions(e, bonded) ==
    LET go == Listed(e) \ Staying(bonded)
    IN  Freed([e EXCEPT !.list = Only(@, Staying(bonded)), !.value = @ \ go, !.sent = @ \ Listed(e),
                        !.app = [p \in Params |-> IF p \in go THEN "free" ELSE @[p]]])

\* Every request fails, those that were cancelled for nobody.
AllFailed(e, q) ==
    LET failed[n \in 0 .. Len(q)] ==
            IF n = 0 THEN e
            ELSE IF q[n].gone THEN failed[n - 1] ELSE WriteCccRsp(failed[n - 1], q[n].param, TRUE)
    IN  failed[Len(q)]

\* bt_att_disconnected: every request fails, then bt_gatt_disconnected.  A peer that is bonded
\* should keep what is configured, but may forget.
Drop ==
    /\ session.link # "down"
    /\ session' = [session EXCEPT !.link = "down", !.encrypted = FALSE]
    /\ entry' = RemoveSubscriptions(AllFailed(entry, reqs), session.bonded)
    /\ reqs' = <<>>
    /\ ccc' \in {{}, IF session.bonded THEN ccc ELSE {}}

Connect ==
    /\ session.link = "down"
    /\ session' = [session EXCEPT !.link = "up"]
    /\ UNCHANGED <<entry, reqs, ccc>>

\* bt_gatt_encrypt_change on a link with a bond, old or new: add_subscriptions writes again what
\* was not written on this link.
Encrypt ==
    /\ session.link = "up" /\ ~session.encrypted
    /\ session' = [session EXCEPT !.encrypted = TRUE, !.bonded = TRUE]
    /\ LET again == Only(entry.list, Params \ entry.sent)
           n == IF Len(again) > MaxReqs - Len(reqs) THEN MaxReqs - Len(reqs) ELSE Len(again)
           made == ToSet(SubSeq(again, 1, n))
       IN  /\ reqs' = reqs \o [i \in 1 .. n |-> Request(again[i], again[i] \in entry.value)]
           /\ entry' = [entry EXCEPT !.sent = @ \cup ToSet(again), !.pending = @ \cup made,
                                     !.spoiled = (@ \ Alike(made)) \cup Alike(ToSet(again) \ made)
                                                    \cup Alike(made \ entry.value)]
    /\ UNCHANGED ccc

\* bt_unpair: the link is to end, and bt_gatt_clear_subscriptions.
Unpair ==
    /\ session.bonded
    /\ session' = [session EXCEPT !.bonded = FALSE, !.link = IF @ = "up" THEN "ending" ELSE @]
    /\ entry' = RemoveSubscriptions(entry, FALSE)
    /\ UNCHANGED <<reqs, ccc>>

\* The device starts anew; the bond was stored.
Restart ==
    /\ session.bonded
    /\ entry' = Blank /\ reqs' = <<>>
    /\ session' = [session EXCEPT !.link = "down", !.encrypted = FALSE]
    /\ ccc' \in {{}, ccc}

-----------------------------------------------------------------------------
Init ==
    /\ entry = Blank /\ reqs = <<>> /\ ccc = {}
    /\ session = [link |-> "down", bonded |-> FALSE, encrypted |-> FALSE]

Next ==
    \/ \E p \in Params : Subscribe(p) \/ Resubscribe(p) \/ Unsubscribe(p)
    \/ \E err \in BOOLEAN : Answer(err)
    \/ Drop \/ Connect \/ Encrypt \/ Unpair \/ Restart

Spec == Init /\ [][Next]_vars

-----------------------------------------------------------------------------
TypeOK ==
    /\ entry.list \in Seq(Params) /\ IsInjective(entry.list)
    /\ entry.app \in [Params -> {"free", "subscribed", "leaving"}]
    /\ {entry.value, entry.pending, entry.sent, entry.spoiled, ccc} \subseteq SUBSET Params
    /\ {entry.claimed, entry.mangled} \subseteq BOOLEAN
    /\ reqs \in Seq([param : Params, on : BOOLEAN, gone : BOOLEAN]) /\ Len(reqs) <= MaxReqs
    /\ session \in [link : {"up", "ending", "down"}, bonded : BOOLEAN, encrypted : BOOLEAN]

\* The entry is free for another peer exactly when it has no subscription: the comment at
\* gatt.c:71-74, which gatt_sub_add, gatt_sub_remove and gatt_sub_free keep.
FreeIffEmpty == entry.claimed <=> entry.list # <<>>

\* A subscription is not lost: as long as the application was not told that it ended it is in
\* the list, through failures, new connections and unpairing, if no write was refused while
\* the list had others (gatt.c:5490-5504 takes it out the wrong way).
SubscribersListed ==
    ~entry.mangled => \A p \in Params : entry.app[p] = "subscribed" => p \in Listed(entry)

\* The characteristic of p is configured, or the last of the requests q about it will do it.
Settled(p, q, configured) ==
    \/ /\ Same(p) \subseteq configured
       /\ \A i \in 1 .. Len(q) : q[i].param \notin Same(p)
    \/ \E i \in 1 .. Len(q) :
          /\ q[i].param \in Same(p) /\ q[i].on /\ ~q[i].gone
          /\ \A j \in i + 1 .. Len(q) : q[j].param \notin Same(p)

\* The peer is configured as the subscribers want it: once the link has the security of the
\* bond, each one's characteristic is configured or is being written, also if the peer forgot,
\* and before that if it was written on this link; unless the last write of it was refused,
\* cancelled or not made (5618-5848).
PeerFollows ==
    session.link = "up" =>
        \A p \in Listed(entry) \ entry.spoiled :
            session.encrypted = session.bonded \/ p \in entry.sent => Settled(p, reqs, ccc)

\* What holds of subscriptions, whatever is refused, cancelled or cut off.
SubscriptionsHold == SubscribersListed /\ FreeIffEmpty /\ PeerFollows
===============================================================================
