-------------------------------- MODULE Features --------------------------------
(***************************************************************************)
(* The services an application registers at run time and what the server   *)
(* stores about its clients (gatt.c): the handles of services, the hash of *)
(* the database, the features of clients with robust caching, the list of  *)
(* stores that are put off, and a restart at any moment.                   *)
(*                                                                         *)
(* CONFIG_BT_GATT_DYNAMIC_DB, GATT_CACHING, BT_SETTINGS and                *)
(* SETTINGS_DELAYED_STORE.  The hash is the list of the services with      *)
(* their handles.  The Service Changed indication is the subject of Gatt,  *)
(* the values of CCCs that of Notify; they are not stored.  An application *)
(* leaves the handles of its attributes to the host.                       *)
(*                                                                         *)
(* The settings backend is one that keeps a value per name and calls the   *)
(* handlers of gatt.c at start-up; that of settings.c does neither yet.    *)
(***************************************************************************)
EXTENDS Naturals, SequencesExt, FiniteSetsExt

CONSTANTS
    Peers,
    Services,
    Attrs,      \* [Services -> Nat \ {0}]: attr_count
    Static,     \* last_static_handle
    Slots,      \* CF_CFG_MAX, and the length of gatt_delayed_store.peer_list
    MaxPaired,  \* CONFIG_BT_MAX_PAIRED
    MaxConn,    \* CONFIG_BT_MAX_CONN
    MaxCalls,   \* bound: registrations of an application
    MaxRestarts,    \* bound
    None

\* What the module assumes of its constants; MCLayers asserts it of each instance.
FeaturesAssumption ==
    /\ IsFiniteSet(Peers) /\ IsFiniteSet(Services) /\ Attrs \in [Services -> Nat \ {0}]
    /\ {Static, MaxPaired, MaxConn, MaxCalls, MaxRestarts} \subseteq Nat /\ Slots = MaxPaired + MaxConn

VARIABLES
    gatt,   \* the server
    flash,  \* what is stored
    known,  \* the clients
    stuck   \* not in the code: the clients whose bond was removed while a store was put off

vars == <<gatt, flash, known, stuck>>

\* phase: before bt_enable, with the settings yet to be loaded, on, or between the two writes of
\* a change of the database.
PowerOn == [db |-> <<>>, handle |-> [s \in Services |-> 0], phase |-> "off",
            hash |-> None, valid |-> FALSE, processed |-> FALSE, work |-> FALSE,
            cfg |-> [i \in 1 .. Slots |-> None],
            ds |-> [i \in 1 .. Slots |-> [peer |-> None, flags |-> {}]], store |-> FALSE, failed |-> FALSE]

-----------------------------------------------------------------------------
(* Services and their handles. *)

FirstOf(g, s) == g.handle[s]
LastOf(g, s) == g.handle[s] + Attrs[s] - 1
Handles(g, s) == FirstOf(g, s) .. LastOf(g, s)

\* db_hash_gen and gen_hash_m.
Hash(g) == [k \in DOMAIN g.db |-> <<g.db[k], FirstOf(g, g.db[k])>>]

\* The handle gatt_register begins after.
TailHandle(g) == IF g.db = <<>> THEN Static ELSE LastOf(g, g.db[Len(g.db)])

\* find_attr; the handles up to Static are those of the static services.
Taken(g, n) == n <= Static \/ \E k \in DOMAIN g.db : n \in Handles(g, g.db[k])

\* gatt_register finds a handle in use.
Conflict(g, s) == FirstOf(g, s) # 0 /\ \E n \in Handles(g, s) : n <= TailHandle(g) /\ Taken(g, n)

\* gatt_register gives handles to a service that has none.
Numbered(g, s) == IF FirstOf(g, s) = 0 THEN [g EXCEPT !.handle[s] = TailHandle(g) + 1] ELSE g

\* gatt_insert: behind the last, or before the first with a greater handle.
Inserted(g, s) ==
    LET greater == {k \in DOMAIN g.db : FirstOf(g, g.db[k]) > FirstOf(g, s)}
    IN  IF g.db = <<>> \/ FirstOf(g, s) > TailHandle(g) THEN [g EXCEPT !.db = Append(@, s)]
        ELSE IF greater # {} THEN [g EXCEPT !.db = InsertAt(@, Min(greater), s)] ELSE g

-----------------------------------------------------------------------------
(* Stores that are put off. *)

Bonded(p) == p \in flash.bonds

\* gatt_delayed_store_find and gatt_delayed_store_alloc.
DsSlot(g, p) ==
    LET own == {i \in 1 .. Slots : g.ds[i].peer = p}
        free == {i \in 1 .. Slots : g.ds[i].flags = {}}
    IN  IF own # {} THEN Min(own) ELSE IF free # {} THEN Min(free) ELSE 0

Pending(g, p) == \E i \in 1 .. Slots : g.ds[i].peer = p /\ g.ds[i].flags # {}

\* gatt_delayed_store_enqueue; without a slot its assertion fails.
Enqueued(g, p, flag) ==
    IF ~Bonded(p) THEN g
    ELSE IF DsSlot(g, p) = 0 THEN [g EXCEPT !.failed = TRUE]
    ELSE [g EXCEPT !.ds[DsSlot(g, p)] = [peer |-> p, flags |-> @.flags \cup {flag}], !.store = TRUE]

\* gatt_delayed_store_free, by bt_gatt_disconnected, which cancels the work when nothing is left.
Dequeued(g, p) ==
    LET ds == [i \in 1 .. Slots |-> IF g.ds[i].peer = p THEN [peer |-> None, flags |-> {}] ELSE g.ds[i]]
    IN  [g EXCEPT !.ds = ds, !.store = @ /\ \E i \in 1 .. Slots : ds[i].flags # {}]

-----------------------------------------------------------------------------
(* The features of clients. *)

\* find_cf_cfg and find_cf_cfg_by_addr.
CfgOf(g, p) == {i \in 1 .. Slots : g.cfg[i] # None /\ g.cfg[i].peer = p}
NoCfg(g) == {i \in 1 .. Slots : g.cfg[i] = None}
Cfg(g, p) == g.cfg[Min(CfgOf(g, p))]

\* set_change_aware.
SetAware(g, p, aware) ==
    IF Cfg(g, p).aware = aware THEN g
    ELSE Enqueued([g EXCEPT !.cfg[Min(CfgOf(g, p))].aware = aware], p, "cf")

\* db_changed, for each client.
AllUnaware(g) ==
    FoldSet(LAMBDA p, t : [SetAware(t, p, FALSE) EXCEPT !.cfg[Min(CfgOf(t, p))].read = FALSE],
            g, {p \in Peers : CfgOf(g, p) # {}})

\* db_changed.
DbChanged(g) == AllUnaware([g EXCEPT !.valid = FALSE, !.work = TRUE])

\* bt_gatt_store_cf.
StoreCf(g, f, p) ==
    [f EXCEPT !.cf[p] = IF CfgOf(g, p) = {} THEN None ELSE Cfg(g, p).aware]

\* set_all_change_unaware, which writes at once.
AllUnawareNow(g) ==
    [g EXCEPT !.cfg = [i \in 1 .. Slots |-> IF @[i] = None THEN None ELSE [@[i] EXCEPT !.aware = FALSE]]]
AllStored(g, f) == [f EXCEPT !.cf = [p \in Peers |-> IF CfgOf(g, p) = {} THEN @[p] ELSE Cfg(g, p).aware]]

-----------------------------------------------------------------------------
(* The application. *)

\* bt_gatt_service_register.
Register(s) ==
    LET n == Numbered(gatt, s)
        r == Inserted(n, s)
    IN  /\ gatt.phase # "storing" /\ flash.calls > 0
        /\ gatt' = IF Conflict(gatt, s) THEN gatt ELSE IF gatt.phase = "off" THEN r ELSE DbChanged(r)
        /\ flash' = [flash EXCEPT !.calls = @ - 1]
        /\ known' = [p \in Peers |-> [known[p] EXCEPT !.refused = @ /\ (CfgOf(gatt, p) = {} \/ Conflict(gatt, s))]]
    /\ UNCHANGED stuck

\* bt_gatt_service_unregister.
Unregister(s) ==
    LET r == [gatt EXCEPT !.db = SelectSeq(@, LAMBDA t : t # s)]
    IN  /\ gatt.phase # "storing" /\ flash.calls > 0
        /\ s \in ToSet(gatt.db)
        /\ gatt' = IF gatt.phase = "off" THEN r ELSE DbChanged(r)
        /\ flash' = [flash EXCEPT !.calls = @ - 1]
        /\ known' = [p \in Peers |-> [known[p] EXCEPT !.refused = @ /\ CfgOf(gatt, p) = {}]]
    /\ UNCHANGED stuck

-----------------------------------------------------------------------------
(* Start-up and power loss. *)

\* bt_gatt_init.
InitGatt ==
    /\ gatt.phase = "off"
    /\ gatt' = [gatt EXCEPT !.phase = "init", !.work = TRUE]
    /\ UNCHANGED <<flash, known, stuck>>

\* cf_set, of the clients in the order of the storage; one without a slot is left out.
CfSet(g, p) ==
    IF flash.cf[p] = None \/ NoCfg(g) = {} THEN g
    ELSE [g EXCEPT !.cfg[Min(NoCfg(g))] = [peer |-> p, aware |-> flash.cf[p], read |-> FALSE]]

\* settings_load, with db_hash_set and db_hash_commit.  Features stored of a client without a bond
\* may take the slots of others, who are then without.
LoadSettings(order) ==
    LET g == FoldLeft(CfSet, gatt, order)
        strangers == {p \in Peers : flash.cf[p] # None /\ ~Bonded(p)}
    IN  /\ gatt.phase = "init"
        /\ gatt' = [g EXCEPT !.phase = "on", !.work = TRUE]
        /\ known' = [p \in Peers |-> [known[p] EXCEPT !.wrote = @ /\ (strangers = {} \/ CfgOf(g, p) # {})]]
        /\ UNCHANGED <<flash, stuck>>

NoneEarly == [p \in Peers |-> [known[p] EXCEPT !.early = FALSE]]

\* db_hash_process; a change is written in two steps, first the clients, then the hash.
HashWork ==
    LET g == [gatt EXCEPT !.work = FALSE, !.hash = IF gatt.valid THEN @ ELSE Hash(gatt), !.valid = TRUE]
        same == IF gatt.processed THEN gatt.valid ELSE g.hash = flash.hash
    IN  /\ gatt.work /\ gatt.phase \in {"init", "on"}
        /\ IF gatt.phase = "init" THEN gatt' = g /\ UNCHANGED flash
           ELSE IF same THEN gatt' = [g EXCEPT !.processed = TRUE] /\ UNCHANGED flash
           ELSE /\ gatt' = [AllUnawareNow(g) EXCEPT !.processed = TRUE, !.phase = "storing"]
                /\ flash' = AllStored(AllUnawareNow(g), flash)
        /\ known' = IF gatt.phase = "init" \/ same THEN known ELSE NoneEarly
        /\ UNCHANGED stuck

\* db_hash_store.
HashStored == [flash EXCEPT !.hash = gatt.hash]
DbHashStore ==
    /\ gatt.phase = "storing"
    /\ gatt' = [gatt EXCEPT !.phase = "on"]
    /\ flash' = HashStored
    /\ UNCHANGED <<known, stuck>>

\* Power is lost; a write that was not made is lost with it.
Restart ==
    /\ flash.restarts > 0
    /\ gatt' = PowerOn
    /\ flash' = [flash EXCEPT !.restarts = @ - 1]
    /\ known' = [p \in Peers |->
                    [known[p] EXCEPT !.link = "down", !.refused = FALSE,
                        !.db = IF Bonded(p) THEN @ ELSE None, !.wrote = @ /\ Bonded(p) /\ flash.cf[p] # None]]
    /\ stuck' = {}

\* delayed_store.
DelayedStore ==
    LET due == {i \in 1 .. Slots : gatt.ds[i].peer # None /\ Bonded(gatt.ds[i].peer)}
    IN  /\ gatt.store /\ gatt.phase = "on"
        /\ gatt' = [gatt EXCEPT !.store = FALSE,
                        !.ds = [i \in 1 .. Slots |-> IF i \in due THEN [peer |-> None, flags |-> {}] ELSE @[i]]]
        /\ flash' = FoldSet(LAMBDA i, f : IF "cf" \in gatt.ds[i].flags THEN StoreCf(gatt, f, gatt.ds[i].peer) ELSE f,
                            flash, due)
        /\ UNCHANGED <<known, stuck>>

-----------------------------------------------------------------------------
(* Clients. *)

Alive(p) == gatt.phase = "on" /\ gatt.processed /\ known[p].link = "up"

\* A link is made; a client without a bond discovers the services anew.
Connect(p) ==
    /\ gatt.phase = "on" /\ gatt.processed
    /\ known[p].link = "down" /\ Cardinality({q \in Peers : known[q].link # "down"}) < MaxConn
    /\ known' = [known EXCEPT ![p].link = "up", ![p].db = IF Bonded(p) THEN @ ELSE Hash(gatt)]
    /\ UNCHANGED <<gatt, flash, stuck>>

\* cf_write, of a client that has just discovered the services.
CfWrite(p) ==
    /\ Alive(p) /\ ~known[p].wrote
    /\ LET i == IF CfgOf(gatt, p) # {} THEN Min(CfgOf(gatt, p)) ELSE Min(NoCfg(gatt))
           fresh == CfgOf(gatt, p) = {}
           g == IF fresh THEN [gatt EXCEPT !.cfg[i] = [peer |-> p, aware |-> FALSE, read |-> FALSE]] ELSE gatt
       IN  /\ ~fresh \/ NoCfg(gatt) # {}
           /\ gatt' = SetAware(g, p, TRUE)
    /\ known' = [known EXCEPT ![p].wrote = TRUE, ![p].db = Hash(gatt), ![p].early = ~gatt.valid]
    /\ UNCHANGED <<flash, stuck>>

\* bt_gatt_attr_write_ccc, as far as it is about the list.
WriteCcc(p) ==
    /\ Alive(p) /\ Bonded(p)
    /\ gatt' = Enqueued(gatt, p, "ccc")
    /\ UNCHANGED <<flash, known, stuck>>

\* db_hash_read; the client discovers what it missed.
DbHashRead(p) ==
    LET g == [gatt EXCEPT !.work = FALSE]
        h == IF gatt.valid THEN g ELSE AllUnawareNow([g EXCEPT !.hash = Hash(gatt), !.valid = TRUE])
        marks == CfgOf(h, p) # {} /\ ~Cfg(h, p).aware
    IN  /\ Alive(p)
        /\ gatt' = IF marks THEN [h EXCEPT !.cfg[Min(CfgOf(h, p))].read = TRUE] ELSE h
        /\ flash' = IF gatt.valid THEN flash ELSE [AllStored(h, flash) EXCEPT !.hash = h.hash]
        /\ known' = [(IF gatt.valid THEN known ELSE NoneEarly) EXCEPT ![p].db = h.hash]
        /\ UNCHANGED stuck

\* bt_gatt_change_aware for a request: it is refused once, and the client then discovers the
\* services again; with the hash read or refused, it is aware.
Request(p) ==
    /\ Alive(p) /\ CfgOf(gatt, p) # {} /\ ~Cfg(gatt, p).aware
    /\ LET c == Cfg(gatt, p)
           g == [gatt EXCEPT !.cfg[Min(CfgOf(gatt, p))].read = FALSE]
       IN  IF c.read \/ known[p].refused
           THEN /\ gatt' = SetAware(g, p, TRUE)
                /\ known' = [known EXCEPT ![p].refused = FALSE, ![p].early = ~gatt.valid]
           ELSE /\ known' = [known EXCEPT ![p].refused = TRUE, ![p].db = Hash(gatt), ![p].early = ~gatt.valid]
                /\ UNCHANGED gatt
    /\ UNCHANGED <<flash, stuck>>

\* bt_gatt_pairing_complete.
PairingComplete(p) ==
    /\ Alive(p) /\ ~Bonded(p) /\ Cardinality(flash.bonds) < MaxPaired
    /\ flash' = StoreCf(gatt, [flash EXCEPT !.bonds = @ \cup {p}], p)
    /\ UNCHANGED <<gatt, known, stuck>>

\* bt_unpair, with bt_gatt_clear_cf; a link goes down.
Unpair(p) ==
    /\ gatt.phase = "on" /\ Bonded(p)
    /\ flash' = [flash EXCEPT !.bonds = @ \ {p}]
    /\ stuck' = IF Pending(gatt, p) /\ known[p].link = "down" THEN stuck \cup {p} ELSE stuck
    /\ gatt' = [gatt EXCEPT !.cfg = [i \in 1 .. Slots |-> IF i \in CfgOf(gatt, p) THEN None ELSE @[i]]]
    /\ known' = [known EXCEPT ![p].link = IF @ = "up" THEN "closing" ELSE @, ![p].wrote = FALSE, ![p].db = None]

\* bt_gatt_disconnected, with remove_cf_cfg.
DisconnectedStored(p) == IF Bonded(p) THEN StoreCf(gatt, flash, p) ELSE flash
Disconnected(p) ==
    LET g == Dequeued(gatt, p)
    IN  /\ gatt.phase = "on" /\ known[p].link # "down"
        /\ flash' = DisconnectedStored(p)
        /\ gatt' = IF Bonded(p) THEN g
                   ELSE [g EXCEPT !.cfg = [i \in 1 .. Slots |-> IF i \in CfgOf(gatt, p) THEN None ELSE @[i]]]
        /\ known' = [known EXCEPT ![p].link = "down", ![p].refused = FALSE,
                                  ![p].wrote = @ /\ Bonded(p)]
        /\ stuck' = stuck \ {p}

-----------------------------------------------------------------------------
Init ==
    /\ gatt = PowerOn
    /\ flash = [cf |-> [p \in Peers |-> None], hash |-> None, bonds |-> {},
                calls |-> MaxCalls, restarts |-> MaxRestarts]
    /\ stuck = {}
    /\ known = [p \in Peers |-> [link |-> "down", db |-> None, wrote |-> FALSE, refused |-> FALSE, early |-> FALSE]]

\* An assertion that fails stops the program.
Next ==
    /\ ~gatt.failed
    /\ \/ \E s \in Services : Register(s) \/ Unregister(s)
       \/ InitGatt \/ HashWork \/ DbHashStore \/ Restart \/ DelayedStore
       \/ \E order \in SetToSeqs(Peers) : LoadSettings(order)
       \/ \E p \in Peers : \/ Connect(p) \/ CfWrite(p) \/ WriteCcc(p) \/ DbHashRead(p) \/ Request(p)
                           \/ PairingComplete(p) \/ Unpair(p) \/ Disconnected(p)

Spec == Init /\ [][Next]_vars

-----------------------------------------------------------------------------
TypeOK ==
    /\ ToSet(gatt.db) \subseteq Services /\ gatt.handle \in [Services -> Nat]
    /\ gatt.phase \in {"off", "init", "on", "storing"} /\ {gatt.valid, gatt.work, gatt.store} \subseteq BOOLEAN
    /\ \A i \in 1 .. Slots : /\ gatt.ds[i].flags \subseteq {"ccc", "cf"}
                            /\ gatt.cfg[i] # None => gatt.cfg[i].peer \in Peers /\ gatt.cfg[i].aware \in BOOLEAN
    /\ Cardinality(flash.bonds) <= MaxPaired
    /\ \A p \in Peers : flash.cf[p] \in BOOLEAN \cup {None} /\ known[p].link \in {"up", "down", "closing"}

\* Services are in the list once, in the order of their handles, and no handle is given twice.
ServicesApart ==
    \A j, k \in DOMAIN gatt.db : j < k => LastOf(gatt, gatt.db[j]) < FirstOf(gatt, gatt.db[k])

\* A client that the server takes for aware of the database knows it as it is.
AwareClientsKnow ==
    gatt.phase = "on" /\ gatt.processed =>
        \A p \in Peers : CfgOf(gatt, p) # {} /\ Cfg(gatt, p).aware /\ ~known[p].early /\ (Bonded(p) \/ known[p].link = "up") => known[p].db = Hash(gatt)

\* What is kept of a bonded client is stored, or will be.
StoreFollows ==
    gatt.phase = "on" /\ ~gatt.failed =>
        \A p \in flash.bonds : CfgOf(gatt, p) # {} =>
            \/ flash.cf[p] = Cfg(gatt, p).aware
            \/ gatt.store /\ \E i \in 1 .. Slots : gatt.ds[i].peer = p /\ "cf" \in gatt.ds[i].flags

\* A bonded client that wrote its features, which were stored, has them.
FeaturesKept ==
    gatt.phase = "on" => \A p \in flash.bonds : known[p].wrote => CfgOf(gatt, p) # {}

\* A slot is that of a client that is bonded or connected, or whose features are still stored;
\* the list of stores does not fill, unless bonds were removed.
SlotsOwned ==
    LET Here(p) == Bonded(p) \/ known[p].link # "down"
    IN  /\ \A i \in 1 .. Slots : gatt.cfg[i] # None => Here(gatt.cfg[i].peer) \/ flash.cf[gatt.cfg[i].peer] # None
        /\ \A p \in Peers : Pending(gatt, p) => Here(p) \/ p \in stuck
        /\ gatt.failed => stuck # {}

FeaturesHold == AwareClientsKnow /\ StoreFollows /\ FeaturesKept /\ SlotsOwned
==================================================================================
