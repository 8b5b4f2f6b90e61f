-------------------------------- MODULE Bonds ---------------------------------
(***************************************************************************)
(* The keys of bonded peers: the key pool (keys.c), the resolving list of  *)
(* the controller (id.c: bt_id_add, bt_id_del), the key-value storage, and *)
(* what a pairing on the link of a peripheral does to all three (smp.c),   *)
(* up to a restart of the host.  Of the pairing itself, which is Smp's,    *)
(* there are only the steps that reach the keys.                           *)
(*                                                                         *)
(* One identity of the host, LE Secure Connections, CONFIG_BT_SETTINGS as  *)
(* in example/peripheral_hids, no privacy of the host's own; a full pool   *)
(* refuses new bonds.  Commands of the resolving list fail only where the  *)
(* list has the entry already, or has it no more.                          *)
(***************************************************************************)
EXTENDS Integers, SequencesExt, FiniteSetsExt

CONSTANTS
    Peers,
    Private,    \* those that may hide behind a resolvable private address
    MaxPaired,  \* CONFIG_BT_MAX_PAIRED
    RlSize,     \* bt_dev.le.rl_size, 0 if the controller has no resolving list
    MaxItems,   \* BT_SETTINGS_KEY_MAX
    None

\* What the module assumes of its constants; MCLayers asserts it of each instance.
BondsAssumption ==
    /\ Private \subseteq Peers
    /\ MaxPaired \in Nat \ {0} /\ RlSize \in Nat /\ MaxItems \in Nat \ {0}

VARIABLES
    keyring,    \* key_pool, the resolving list and the storage
    acl,        \* the link, its conn->le.keys and its pairing
    bonded      \* the addresses the application knows as bonded

vars == <<keyring, acl, bonded>>

Addrs == Peers \X {"identity", "rpa"}
Slots == 1 .. MaxPaired

(* In a slot, owner is whose keys these are, sized that enc_size is set, added and pending the *)
(* states ID_ADDED and ID_PENDING_ADD.  In the keyring, entries is rl_entries, ctl what the    *)
(* controller's list holds, creating that a connection is in state CONNECTING, due the flag    *)
(* ID_PENDING.  Not in the code: leaked, that an entry lost its keys before it left the list,  *)
(* and clobbered, that one bond was stored over another.                                       *)
Free == [addr |-> None, keys |-> {}, owner |-> None, sized |-> FALSE, added |-> FALSE, pending |-> FALSE]
Saved(k) == [k EXCEPT !.addr = None, !.added = FALSE, !.pending = FALSE]
Up == [pool |-> [s \in Slots |-> Free], entries |-> 0, ctl |-> {}, creating |-> FALSE, due |-> FALSE,
       list |-> <<>>, items |-> [i \in 0 .. MaxItems - 1 |-> Free],
       leaked |-> FALSE, clobbered |-> FALSE]
NoLink == [state |-> "none", peer |-> None, private |-> FALSE, dst |-> None, slot |-> 0,
           smp |-> "idle", bond |-> FALSE, ids |-> FALSE]

With(h, s, k) == [h EXCEPT !.pool[s] = k]
AtAddr(h, a) == {s \in Slots : h.pool[s].addr = a}
Added(h) == {s \in Slots : h.pool[s].added}

\* bt_keys_get_addr: the slot of the address, or the first free one, or 0.
GetAddr(h, a) ==
    LET s == IF AtAddr(h, a) # {} THEN AtAddr(h, a) ELSE AtAddr(h, None)
    IN  IF s = {} THEN 0 ELSE Min(s)
Reserved(h, s, a) == [h EXCEPT !.pool[s].addr = a]

-----------------------------------------------------------------------------
(* The storage. *)

Positions(h, a) == {i \in 1 .. Len(h.list) : h.list[i].addr = a}

\* bt_storage_kv_key_store: the index the address has, or 0; the item is appended all the same,
\* and overwrites the first one of a full list.
Stored(h, s) ==
    LET a == h.pool[s].addr
        index == IF Positions(h, a) = {} THEN 0 ELSE h.list[Min(Positions(h, a))].index
        item == [addr |-> a, index |-> index]
        full == Len(h.list) >= MaxItems
        over == \E i \in 1 .. Len(h.list) :
                   h.list[i].addr # a /\ (h.list[i].index = index \/ (full /\ i = 1))
    IN  [h EXCEPT !.list = IF full THEN [@ EXCEPT ![1] = item] ELSE Append(@, item),
                  !.clobbered = @ \/ over,
                  !.items[index] = Saved(h.pool[s])]

\* bt_storage_kv_set_key_list_info_delete: the first item stays, whoever it is of.
Forgotten(h, a) ==
    IF Positions(h, a) = {} \/ Min(Positions(h, a)) = 1 THEN h
    ELSE [h EXCEPT !.list = RemoveAt(@, Min(Positions(h, a)))]

\* bt_keys_loading: it ends at the first bond for which there is no slot.  Nothing is added to the
\* resolving list.
Loaded(h) ==
    LET off == [Up EXCEPT !.list = h.list, !.items = h.items, !.clobbered = h.clobbered]
        after[i \in 0 .. Len(h.list)] ==
            IF i = 0 THEN [keys |-> off, ended |-> FALSE]
            ELSE LET before == after[i - 1]
                     item == h.list[i]
                     s == GetAddr(before.keys, item.addr)
                 IN  IF before.ended \/ s = 0 THEN [before EXCEPT !.ended = TRUE]
                     ELSE [before EXCEPT !.keys =
                               With(@, s, [h.items[item.index] EXCEPT !.addr = item.addr])]
    IN  after[Len(h.list)].keys

-----------------------------------------------------------------------------
(* The resolving list.  Advertising and scanning pause around each change of it. *)

\* bt_id_add.
IdAdded(h, s) ==
    LET counted == [h EXCEPT !.entries = @ + 1, !.pool[s].added = TRUE]
    IN  CASE RlSize = 0 \/ h.entries > RlSize -> counted
          [] RlSize # 0 /\ h.entries <= RlSize /\ h.creating ->
                [h EXCEPT !.due = TRUE, !.pool[s].pending = TRUE]
          [] RlSize # 0 /\ h.entries = RlSize /\ ~h.creating -> [counted EXCEPT !.ctl = {}]
          [] OTHER -> IF h.pool[s].addr \in h.ctl THEN h
                      ELSE [counted EXCEPT !.ctl = @ \cup {h.pool[s].addr}]

\* bt_id_del.  When the list fits again, the controller gets all of it.
IdDeleted(h, s) ==
    LET counted == [h EXCEPT !.entries = @ - 1, !.pool[s].added = FALSE]
    IN  CASE RlSize = 0 \/ h.entries > RlSize + 1 -> counted
          [] RlSize # 0 /\ h.entries <= RlSize + 1 /\ h.creating -> [h EXCEPT !.due = TRUE]
          [] RlSize # 0 /\ h.entries = RlSize + 1 /\ ~h.creating ->
                [counted EXCEPT !.ctl = {h.pool[r].addr : r \in Added(h) \ {s}}]
          [] OTHER -> IF h.pool[s].addr \in h.ctl THEN [counted EXCEPT !.ctl = @ \ {h.pool[s].addr}]
                      ELSE h

\* bt_keys_clear without its call of bt_id_del.
ClearedOnly(h, s) == With(Forgotten(h, h.pool[s].addr), s, Free)

\* bt_keys_clear: what bt_id_del has put off is lost with the slot.
Cleared(h, s) ==
    LET gone == IF h.pool[s].added THEN IdDeleted(h, s) ELSE h
    IN  With(Forgotten([gone EXCEPT !.leaked = @ \/ gone.pool[s].added], h.pool[s].addr), s, Free)

\* bt_id_find_conflict: another bond of the list with this address or this IRK.
Conflicts(h, s) ==
    \E r \in Added(h) : \/ h.pool[r].addr = h.pool[s].addr
                        \/ h.pool[r].owner # None /\ h.pool[r].owner = h.pool[s].owner

\* bt_id_pending_keys_update, where the other connection is made or given up.
PendingUpdated(h) ==
    LET add(s, k) == IdAdded([k EXCEPT !.pool[s].pending = FALSE], s)
    IN  FoldSet(add, [h EXCEPT !.due = FALSE],
                {s \in Slots : h.due /\ h.pool[s].pending /\ "IRK" \in h.pool[s].keys})

StartCreating ==
    /\ acl.state # "crashed" /\ ~keyring.creating
    /\ keyring' = [keyring EXCEPT !.creating = TRUE] /\ UNCHANGED <<acl, bonded>>
StopCreating ==
    /\ acl.state # "crashed" /\ keyring.creating
    /\ keyring' = PendingUpdated([keyring EXCEPT !.creating = FALSE])
    /\ UNCHANGED <<acl, bonded>>

-----------------------------------------------------------------------------
(* The link and its pairing. *)

\* bt_hci_le_enh_conn_complete: the identity that bt_keys_find_irk knows for a private address.
Connected(p, private) ==
    /\ acl.state = "none" /\ (private => p \in Private)
    /\ LET known == {s \in Slots : "IRK" \in keyring.pool[s].keys /\ keyring.pool[s].owner = p}
           own == <<p, IF private THEN "rpa" ELSE "identity">>
       IN  acl' = [NoLink EXCEPT !.state = "up", !.peer = p, !.private = private,
                                 !.dst = IF private /\ known # {} THEN keyring.pool[Min(known)].addr ELSE own]
    /\ UNCHANGED <<keyring, bonded>>

Linked == acl.state \in {"up", "ending"}

\* bt_smp_request_ltk, outside of a pairing.
RequestLtk ==
    /\ Linked /\ acl.smp = "idle" /\ acl.slot = 0
    /\ \E s \in AtAddr(keyring, acl.dst) :
          "LTK" \in keyring.pool[s].keys /\ acl' = [acl EXCEPT !.slot = s]
    /\ UNCHANGED <<keyring, bonded>>

\* smp_pairing_req; update_keys_check may refuse it for a bond that is worth more.  On a link that
\* is given up the response is not sent, and the pairing can only fail.
PairingReq(bond, ids, refused) ==
    /\ Linked /\ acl.smp \in {"idle", "asked"} /\ (ids => bond)
    /\ LET s == IF acl.slot # 0 THEN acl.slot ELSE GetAddr(keyring, acl.dst)
       IN  /\ s # 0
           /\ refused => "LTK" \in keyring.pool[s].keys
           /\ keyring' = Reserved(keyring, s, acl.dst)
           /\ acl' = IF refused THEN [acl EXCEPT !.slot = s, !.smp = "idle"]
                     ELSE IF acl.state = "ending" THEN [acl EXCEPT !.slot = s, !.smp = "asked"]
                     ELSE [acl EXCEPT !.slot = s, !.smp = "pairing", !.bond = bond, !.ids = ids]
    /\ UNCHANGED bonded
\* smp_send_security_req.
SecurityRequest ==
    /\ acl.state = "up" /\ acl.smp = "idle"
    /\ LET s == IF acl.slot # 0 THEN acl.slot ELSE GetAddr(keyring, acl.dst)
       IN  /\ s # 0
           /\ keyring' = Reserved(keyring, s, acl.dst)
           /\ acl' = [acl EXCEPT !.slot = s, !.smp = "asked"]
    /\ UNCHANGED bonded

\* smp_pairing_complete, with an error.
Lost(l) == l.slot # 0 /\ (~keyring.pool[l.slot].sized \/ l.smp = "keys")
Quiet(l) == [l EXCEPT !.smp = "idle", !.bond = FALSE, !.ids = FALSE]
PairingFails ==
    /\ Linked /\ acl.smp # "idle"
    /\ keyring' = IF Lost(acl) THEN Cleared(keyring, acl.slot) ELSE keyring
    /\ acl' = [Quiet(acl) EXCEPT !.slot = IF Lost(acl) THEN 0 ELSE @]
    /\ UNCHANGED bonded

\* smp_pairing_complete, without; bt_keys_store does not look whether there are keys.
Succeed(h, l) ==
    IF l.bond /\ l.slot = 0
    THEN /\ acl' = [l EXCEPT !.state = "crashed"] /\ keyring' = h /\ UNCHANGED bonded
    ELSE /\ acl' = Quiet(l)
         /\ keyring' = IF l.bond THEN Stored(h, l.slot) ELSE h
         /\ bonded' = IF l.bond THEN bonded \cup {l.dst} ELSE bonded \ {l.dst}

\* The link is encrypted with the key of the pairing: bt_smp_update_keys, bt_smp_encrypt_change.
Encrypted ==
    /\ Linked /\ acl.smp = "pairing"
    /\ LET old == IF acl.slot # 0 THEN Cleared(keyring, acl.slot) ELSE keyring
           s == GetAddr(old, acl.dst)
           new == With(old, s, [old.pool[s] EXCEPT
                      !.addr = acl.dst, !.sized = TRUE, !.owner = IF acl.bond THEN acl.peer ELSE @,
                      !.keys = IF acl.bond THEN @ \cup {"LTK"} ELSE @])
       IN  CASE s = 0 -> acl' = [Quiet(acl) EXCEPT !.slot = 0] /\ keyring' = old /\ UNCHANGED bonded
             [] s # 0 /\ acl.ids -> /\ acl' = [acl EXCEPT !.slot = s, !.smp = "keys"]
                                    /\ keyring' = new /\ bonded' = bonded \ {acl.dst}
             [] s # 0 /\ ~acl.ids -> Succeed(new, [acl EXCEPT !.slot = s])

\* bt_keys_get_type(BT_KEYS_IRK), which takes a slot if unpair has taken that of the link.
GetIrk(h, s) == With(h, s, [h.pool[s] EXCEPT !.addr = acl.dst, !.keys = @ \cup {"IRK"}, !.owner = acl.peer])

\* smp_ident_info; without a slot the pairing fails.
IdentInfo ==
    /\ Linked /\ acl.smp = "keys" /\ GetAddr(keyring, acl.dst) # 0
    /\ keyring' = GetIrk(keyring, GetAddr(keyring, acl.dst))
    /\ UNCHANGED <<acl, bonded>>

\* smp_ident_addr_info, after smp_ident_info: a bond the identity has is cleared, if the new one is
\* worth as much (else the pairing fails), and the link gets the identity as its address.
IdentAddrInfo ==
    /\ Linked /\ acl.smp = "keys"
    /\ \E s \in AtAddr(keyring, acl.dst) :
          /\ "IRK" \in keyring.pool[s].keys
          /\ LET identity == <<acl.peer, "identity">>
                 old == AtAddr(keyring, identity) \ {s}
                 cleared == IF old # {} THEN Cleared(keyring, Min(old)) ELSE keyring
                 renamed == acl.private /\ acl.dst # identity
                 named == IF renamed THEN [cleared EXCEPT !.pool[s].addr = identity] ELSE cleared
                 l == IF renamed THEN [acl EXCEPT !.dst = identity] ELSE acl
             IN  IF Conflicts(named, s)
                 THEN /\ keyring' = IF l.slot # 0 THEN Cleared(named, l.slot) ELSE named
                      /\ acl' = [Quiet(l) EXCEPT !.slot = 0]
                      /\ UNCHANGED bonded
                 ELSE Succeed(IdAdded(named, s), l)

\* bt_unpair; the link, if there is one of this address or first address, loses its slot and is
\* given up.
Unpair(a) ==
    /\ acl.state # "crashed"
    /\ LET linked == Linked /\ (acl.dst = a \/ (acl.private /\ a = <<acl.peer, "rpa">>))
           s == IF linked /\ acl.slot # 0 THEN {acl.slot} ELSE AtAddr(keyring, a)
       IN  /\ linked \/ s # {}
           /\ acl' = IF linked THEN [acl EXCEPT !.slot = 0, !.state = "ending"] ELSE acl
           /\ keyring' = IF s # {} THEN Cleared(keyring, Min(s)) ELSE keyring
           /\ bonded' = bonded \ {IF s # {} THEN keyring.pool[Min(s)].addr ELSE a}

\* bt_smp_disconnected: it has read conn->le.keys first, and clears a slot without keys.
Disconnected ==
    /\ Linked
    /\ keyring' = IF acl.slot # 0 /\ ((acl.smp # "idle" /\ Lost(acl)) \/ keyring.pool[acl.slot].keys = {})
                  THEN Cleared(keyring, acl.slot) ELSE keyring
    /\ acl' = NoLink /\ UNCHANGED bonded

\* The host starts again; the application knows those that came back as they were.
Whole(h) == {a \in Addrs : \E s \in Slots : /\ h.pool[s].addr = a /\ "LTK" \in h.pool[s].keys
                                            /\ h.pool[s].owner = a[1]}
Restart ==
    /\ keyring' = Loaded(keyring) /\ acl' = NoLink
    /\ bonded' = Whole(keyring')

-----------------------------------------------------------------------------
Init == keyring = Up /\ acl = NoLink /\ bonded = {}

Next ==
    \/ StartCreating \/ StopCreating
    \/ \E p \in Peers, private \in BOOLEAN : Connected(p, private)
    \/ RequestLtk \/ SecurityRequest
    \/ \E bond, ids, refused \in BOOLEAN : PairingReq(bond, ids, refused)
    \/ PairingFails \/ Encrypted \/ IdentInfo \/ IdentAddrInfo
    \/ \E a \in Addrs : Unpair(a)
    \/ Disconnected \/ Restart

Spec == Init /\ [][Next]_vars

-----------------------------------------------------------------------------
(* Properties. *)

Keyed == SUBSET {"LTK", "IRK"}
SlotType == [addr : Addrs \cup {None}, keys : Keyed, owner : Peers \cup {None}, sized : BOOLEAN,
             added : BOOLEAN, pending : BOOLEAN]
TypeOK ==
    /\ keyring.pool \in [Slots -> SlotType]
    /\ keyring.entries \in Nat /\ keyring.ctl \subseteq Addrs
    /\ Len(keyring.list) <= MaxItems
    /\ acl.slot \in 0 .. MaxPaired /\ acl.smp \in {"idle", "asked", "pairing", "keys"}
    /\ acl.state \in {"none", "up", "ending", "crashed"}
    /\ bonded \subseteq Addrs

\* No address has two slots; a slot in use holds keys or is that of the link, whose address it has.
SlotsAccounted ==
    /\ \A a \in Addrs : Cardinality(AtAddr(keyring, a)) <= 1
    /\ \A s \in Slots : keyring.pool[s].addr # None => keyring.pool[s].keys # {} \/ acl.slot = s
    /\ acl.slot # 0 => keyring.pool[acl.slot].addr = acl.dst

\* The controller resolves the addresses of the bonds added, or none when they do not fit its list,
\* and the host counts them right.  Except: an entry whose bond was cleared while another
\* connection was being made stays for ever (bt_keys_clear loses what bt_id_del puts off).
ResolvingListKept ==
    ~keyring.leaked =>
        /\ keyring.entries = Cardinality(Added(keyring))
        /\ keyring.ctl = IF keyring.entries > RlSize THEN {} ELSE {keyring.pool[s].addr : s \in Added(keyring)}

\* A bond the application was told of is in the pool until it is deleted or made anew, with the keys
\* of that peer; except that after a bond was stored over another, a restart mixes them up.
BondsInPool ==
    acl.state # "crashed" => \A a \in bonded : \E s \in AtAddr(keyring, a) :
        "LTK" \in keyring.pool[s].keys /\ (keyring.clobbered \/ keyring.pool[s].owner = a[1])

\* It is in the storage too, and comes back as it was.  Except: a second bond is stored over the
\* first (bt_storage_kv_key_store has index 0 for every new address), also over one deleted.
BondsInStorage ==
    LET loaded == Loaded(keyring)
    IN  ~keyring.clobbered /\ acl.state # "crashed" =>
            \A a \in bonded : \E s \in AtAddr(keyring, a), r \in AtAddr(loaded, a) :
                Saved(keyring.pool[s]) = Saved(loaded.pool[r])

\* Keys are stored without a slot only after bt_unpair has taken it from a pairing.
CrashHasACause == acl.state = "crashed" => acl.slot = 0 /\ acl.smp = "keys"

BondsAreKept == SlotsAccounted /\ ResolvingListKept /\ BondsInPool /\ BondsInStorage /\ CrashHasACause
=============================================================================
