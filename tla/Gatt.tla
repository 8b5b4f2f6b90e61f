---------------------------------- MODULE Gatt ----------------------------------
(***************************************************************************)
(* What GATT tells its clients of changes of the database (gatt.c): the    *)
(* Service Changed indication and its work item, the ranges it keeps for   *)
(* peers that are away, and robust caching, by which a client that may not *)
(* know of a change is "change-unaware" and its requests are refused.      *)
(*                                                                         *)
(* CONFIG_BT_GATT_DYNAMIC_DB, SERVICE_CHANGED and CACHING, without         *)
(* CONFIG_BT_SETTINGS and EATT.  A range of handles is the set of changes  *)
(* inside it.  What bt_gatt_clear_sc, sc_clear and sc_reset do is compiled *)
(* out.  The tables of client features and of CCCs have room for everyone. *)
(***************************************************************************)
EXTENDS Naturals, Sequences, FiniteSets

CONSTANTS
    GattPeers,
    Robust,      \* the peers that write their features
    ScCfgs,      \* SC_CFG_MAX
    MaxChanges,  \* bound: how often the database changes
    MaxOut       \* bound: indications a peer has yet to confirm

\* What the module assumes of its constants; MCLayers asserts it of each instance.
GattAssumption ==
    /\ IsFiniteSet(GattPeers) /\ Robust \subseteq GattPeers
    /\ ScCfgs \in Nat /\ MaxChanges \in Nat /\ MaxOut \in Nat \ {0}

Changes == 1 .. MaxChanges

VARIABLES
    db,     \* how often the database changed
    sc,     \* gatt_sc
    peer    \* what is kept of each peer and its link

gattVars == <<db, sc, peer>>

\* sub: an entry of sc_ccc; kept: an entry of sc_cfg, with the range saved; features: an entry of
\* cf_cfg with robust caching, with its flags aware and hashRead; oos: ATT_OUT_OF_SYNC_SENT; out:
\* the indications not confirmed.  These are not in the code: unheard has the changes the peer
\* could not learn of, lost those nobody will tell it of, tricked that it became change-aware
\* without being told.
NewClient == [link |-> "down", bonded |-> FALSE, sub |-> FALSE, kept |-> FALSE, saved |-> {},
             features |-> FALSE, aware |-> FALSE, hashRead |-> FALSE, oos |-> FALSE,
             out |-> <<>>, unheard |-> {}, lost |-> {}, tricked |-> FALSE]

Fields == DOMAIN NewClient
Up(p) == peer[p].link = "up"
Is(p, r) == peer' = [peer EXCEPT ![p] = r]

-----------------------------------------------------------------------------
(* Changes of the database. *)

\* sc_work_submit.
Submit(s) == IF s.pending THEN s ELSE [s EXCEPT !.work = TRUE]

\* sc_indicate.
Indicate(s, range) ==
    Submit([s EXCEPT !.changed = TRUE, !.range = IF s.changed THEN @ \cup range ELSE range])

\* A wrong db_changed, which leaves CF_DB_HASH_READ.
UnawareButHashRead(r) == [r EXCEPT !.oos = FALSE, !.aware = FALSE, !.tricked = FALSE]

\* db_changed, for a client with robust caching.
Unaware(r) == [r EXCEPT !.oos = IF r.link = "up" THEN FALSE ELSE @, !.hashRead = FALSE,
                        !.aware = FALSE, !.tricked = FALSE]

\* bt_gatt_service_register and bt_gatt_service_unregister.
DbChange ==
    /\ db < MaxChanges
    /\ db' = db + 1
    /\ sc' = Indicate(sc, {db + 1})
    /\ peer' = [p \in GattPeers |->
                  LET r == [peer[p] EXCEPT !.unheard = @ \cup {db + 1}]
                  IN  IF r.features THEN Unaware(r) ELSE r]

-----------------------------------------------------------------------------
(* The indication. *)

Sends(r, kind, range) == [r EXCEPT !.out = Append(@, [kind |-> kind, range |-> range])]

\* sc_save, for a peer that has an entry.
Saved(r, range) == [r EXCEPT !.saved = @ \cup range]

\* sc_process, with bt_gatt_indicate and notify_cb: the range is saved for those who are away;
\* at the first subscriber that cannot be sent to, the others are not tried.
ScProcess(sent) ==
    LET subs == {p \in GattPeers : peer[p].sub /\ peer[p].link \in {"up", "dead"}}
        Told(p) ==
          LET away == peer[p].kept /\ peer[p].link \notin {"up", "dead"}
              r == IF away THEN Saved(peer[p], sc.range) ELSE peer[p]
          IN  IF p \in sent THEN Sends(r, "sc", sc.range)
              ELSE IF away \/ ~r.sub THEN r ELSE [r EXCEPT !.lost = @ \cup sc.range]
    IN  /\ sc.work
        /\ sent \subseteq {p \in subs : Up(p) /\ Len(peer[p].out) < MaxOut}
        /\ peer' = [p \in GattPeers |-> Told(p)]
        /\ sc' = [changed |-> FALSE, range |-> {}, work |-> FALSE,
                  pending |-> IF sent # {} THEN TRUE ELSE sc.pending]
        /\ UNCHANGED db

\* A wrong sc_indicate_rsp, which does not look for changes in the meantime.
ScDoneForgetful(s) == [s EXCEPT !.pending = FALSE]

\* sc_indicate_rsp, of one of the subscribers.
ScDone(s) == [s EXCEPT !.pending = FALSE, !.work = @ \/ s.changed]

\* sc_indicate_rsp and sc_restore_rsp: with or without an error the client is change-aware.
IndicationEnded(r, ind, ok) ==
    LET heard == IF ok THEN [r EXCEPT !.unheard = @ \ ind.range]
                 ELSE IF ind.kind = "sc" THEN [r EXCEPT !.lost = @ \cup ind.range] ELSE r
    IN  IF ~r.features THEN heard
        ELSE [heard EXCEPT !.aware = TRUE, !.tricked = heard.unheard # {}]

Confirm(p) ==
    /\ Up(p) /\ peer[p].out # <<>>
    /\ LET ind == Head(peer[p].out)
       IN  /\ Is(p, [IndicationEnded(peer[p], ind, TRUE) EXCEPT !.out = Tail(@)])
           /\ sc' = IF ind.kind = "sc" THEN ScDone(sc) ELSE sc
    /\ UNCHANGED db

\* sc_restore.
Restored(r, sent) ==
    IF r.sub /\ r.kept /\ r.saved # {} /\ sent /\ Len(r.out) < MaxOut
    THEN Sends(r, "restore", r.saved) ELSE r

-----------------------------------------------------------------------------
(* The link. *)

\* bt_gatt_connected; a client that is not bonded discovers the database anew.
GattConnected(p, sent) ==
    /\ peer[p].link = "down"
    /\ LET r == [peer[p] EXCEPT !.link = "up"]
       IN  Is(p, Restored(IF r.bonded THEN r ELSE [r EXCEPT !.unheard = {}, !.lost = {}], sent))
    /\ UNCHANGED <<db, sc>>

\* bt_gatt_encrypt_change; the devices may have bonded.
GattEncrypted(p, bonds, sent) ==
    /\ Up(p)
    /\ Is(p, Restored([peer[p] EXCEPT !.bonded = @ \/ bonds], sent))
    /\ UNCHANGED <<db, sc>>

Disconnected(p) ==
    /\ peer[p].link \in {"up", "dead"}
    /\ Is(p, [peer[p] EXCEPT !.link = "ending"])
    /\ UNCHANGED <<db, sc>>

\* What bt_att_disconnected does: every indication fails; then bt_gatt_disconnected.  A client
\* that is not bonded is forgotten, but for its entry of sc_cfg.
Forgotten(r) ==
    [r EXCEPT !.sub = FALSE, !.features = FALSE, !.aware = FALSE, !.hashRead = FALSE,
              !.tricked = FALSE]
TornDown(r) ==
    LET ranges == UNION {r.out[i].range : i \in {j \in DOMAIN r.out : r.out[j].kind = "sc"}}
        failed == IF r.out = <<>> THEN r
                  ELSE [IndicationEnded(r, [kind |-> "sc", range |-> ranges], FALSE) EXCEPT !.out = <<>>]
    IN  IF r.bonded THEN failed ELSE Forgotten(failed)

ScFailed(p) ==
    IF \E i \in DOMAIN peer[p].out : peer[p].out[i].kind = "sc" THEN ScDone(sc) ELSE sc

\* deferred_work; the flag of the channel is cleared when there is one again.
LinkGone(p) ==
    /\ peer[p].link = "ending"
    /\ Is(p, [TornDown(peer[p]) EXCEPT !.link = "down", !.oos = FALSE])
    /\ sc' = ScFailed(p)
    /\ UNCHANGED db

\* att_timeout: the link stays, without ATT.
AttTimeout(p) ==
    /\ Up(p) /\ peer[p].out # <<>>
    /\ Is(p, [TornDown(peer[p]) EXCEPT !.link = "dead", !.oos = FALSE])
    /\ sc' = ScFailed(p)
    /\ UNCHANGED db

\* bt_unpair, with bt_gatt_clear; the link ends.
ClearPeer(p) ==
    /\ peer[p].bonded
    /\ Is(p, [Forgotten(peer[p]) EXCEPT !.bonded = FALSE,
                !.link = IF @ = "down" THEN @ ELSE "ending"])
    /\ UNCHANGED <<db, sc>>

-----------------------------------------------------------------------------
(* The client.  A request of a change-unaware client is refused once, with an error that tells *)
(* it so; the next one makes it change-aware. *)

MadeAware(r) == [r EXCEPT !.hashRead = FALSE, !.oos = FALSE, !.aware = TRUE]

\* bt_gatt_change_aware of a request.
Passes(r) == ~r.features \/ r.aware \/ r.hashRead \/ r.oos
Passed(r) == IF ~r.features \/ r.aware THEN r ELSE MadeAware(r)
RefusedOnce(r) == [r EXCEPT !.oos = TRUE, !.unheard = {}, !.tricked = FALSE]

\* att_read_rsp and the like.
RequestOf(p) ==
    /\ Up(p)
    /\ Is(p, IF Passes(peer[p]) THEN Passed(peer[p]) ELSE RefusedOnce(peer[p]))
    /\ UNCHANGED <<db, sc>>

\* att_write_rsp of a command, which is never answered, but marks the channel, too.
CommandOf(p) ==
    /\ Up(p) /\ peer[p].features /\ ~peer[p].aware
    /\ Is(p, [peer[p] EXCEPT !.oos = TRUE, !.tricked = @ \/ ~peer[p].oos])
    /\ UNCHANGED <<db, sc>>

\* db_hash_read, by att_read_type_req.
ReadHash(p) ==
    /\ Up(p)
    /\ LET r == [peer[p] EXCEPT !.unheard = {}, !.tricked = FALSE]
       IN  Is(p, IF r.features /\ ~r.aware THEN [r EXCEPT !.hashRead = TRUE] ELSE r)
    /\ UNCHANGED <<db, sc>>

\* cf_write; a client that had not written its features has just discovered the database.
WriteFeatures(p) ==
    /\ p \in Robust /\ Up(p) /\ Passes(peer[p])
    /\ LET r == Passed(peer[p])
       IN  Is(p, [r EXCEPT !.features = TRUE, !.aware = TRUE,
                           !.unheard = IF r.features THEN @ ELSE {}])
    /\ UNCHANGED <<db, sc>>

\* bt_gatt_attr_write_ccc and sc_ccc_cfg_write, with sc_save.  What the client did not know
\* before it subscribed nobody owes it.
SubscribeSc(p) ==
    /\ Up(p) /\ Passes(peer[p]) /\ ~peer[p].sub
    /\ LET room == Cardinality({q \in GattPeers : peer[q].kept}) < ScCfgs
       IN  Is(p, [Passed(peer[p]) EXCEPT !.sub = TRUE, !.kept = @ \/ room,
                                         !.lost = @ \cup peer[p].unheard])
    /\ UNCHANGED <<db, sc>>

UnsubscribeSc(p) ==
    /\ Up(p) /\ Passes(peer[p]) /\ peer[p].sub
    /\ Is(p, [Passed(peer[p]) EXCEPT !.sub = FALSE])
    /\ UNCHANGED <<db, sc>>

-----------------------------------------------------------------------------
GattInit ==
    /\ db = 0
    /\ sc = [changed |-> FALSE, range |-> {}, work |-> FALSE, pending |-> FALSE]
    /\ peer = [p \in GattPeers |-> NewClient]

GattNext ==
    \/ DbChange
    \/ \E sent \in SUBSET GattPeers : ScProcess(sent)
    \/ \E p \in GattPeers :
          \/ Confirm(p) \/ Disconnected(p) \/ LinkGone(p) \/ AttTimeout(p) \/ ClearPeer(p)
          \/ \E sent \in BOOLEAN :
                GattConnected(p, sent) \/ \E bonds \in BOOLEAN : GattEncrypted(p, bonds, sent)
          \/ RequestOf(p) \/ CommandOf(p) \/ ReadHash(p) \/ WriteFeatures(p)
          \/ SubscribeSc(p) \/ UnsubscribeSc(p)

GattSpec == GattInit /\ [][GattNext]_gattVars
-----------------------------------------------------------------------------
(* Properties. *)

GattTypeOK ==
    /\ db \in 0 .. MaxChanges
    /\ sc \in [changed : BOOLEAN, range : SUBSET Changes, work : BOOLEAN, pending : BOOLEAN]
    /\ \A p \in GattPeers :
          /\ DOMAIN peer[p] = Fields
          /\ peer[p].link \in {"up", "dead", "ending", "down"}
          /\ \A f \in {"bonded", "sub", "kept", "features", "aware", "hashRead", "oos", "tricked"} :
                peer[p][f] \in BOOLEAN
          /\ \A f \in {"saved", "unheard", "lost"} : peer[p][f] \subseteq Changes
          /\ Len(peer[p].out) <= MaxOut
          /\ \A i \in DOMAIN peer[p].out :
                peer[p].out[i] \in [kind : {"sc", "restore"}, range : SUBSET Changes]

OutRanges(p) == UNION {peer[p].out[i].range : i \in DOMAIN peer[p].out}

\* "Indicate already pending" (the assertion of sc_process) cannot fail, and a change is never
\* left behind by indications that end in any order: while there is one that nobody was told
\* of, the work item is submitted, or an indication is under way whose end submits it
\* (gatt.c:1355-1424, 1684-1709).
ChangeIsAnnounced ==
    /\ sc.work => ~sc.pending
    /\ sc.changed => sc.work \/ sc.pending
    /\ sc.pending => \E p \in GattPeers : \E i \in DOMAIN peer[p].out : peer[p].out[i].kind = "sc"

\* A subscriber is told of every change, now, by what waits, or when it is back, unless an
\* indication could not be sent or was not confirmed; links and bonds come and go, and nothing
\* else is missed (gatt.c:469-507, 2888-2914, 3431-3465).
SubscribersLearn ==
    \A p \in GattPeers :
        peer[p].sub => peer[p].unheard \subseteq sc.range \cup OutRanges(p) \cup peer[p].saved
                                                  \cup peer[p].lost

\* A change-aware client knows of every change: what it read, asked and was refused before the
\* last one does not count for that one.  What the code does not prevent is left out: the end of
\* any indication, confirmed or not, and whatever changed since, makes the client change-aware,
\* and a command, which is not answered, counts as a request that was refused
\* (gatt.c:1718-1763, 1007-1039, 6202-6260; att.c:2082-2097).
AwareClientsKnow ==
    \A p \in GattPeers :
        peer[p].features /\ peer[p].aware /\ ~peer[p].tricked => peer[p].unheard = {}
=============================================================================
