--------------------------------- MODULE Notify ---------------------------------
(***************************************************************************)
(* Who a GATT server notifies (gatt.c): the table of a Client              *)
(* Characteristic Configuration, an entry for each peer that is configured *)
(* or bonded, and the value of them all, by which the application knows    *)
(* whether to produce data.                                                *)
(*                                                                         *)
(* One CCC, of a service that stays registered.  CONFIG_BT_SETTINGS and    *)
(* CONFIG_BT_SMP, as the examples; bt_gatt_store_ccc is compiled out, so a *)
(* restart forgets the table and is left out.  A peer has one private      *)
(* address at most, and connects again when its last link is torn down.    *)
(***************************************************************************)
EXTENDS Naturals, FiniteSets, FiniteSetsExt

CONSTANTS
    Clients,
    Private,     \* those that show a private address until the host has their identity
    CccValues,   \* what can be written: 0, 1 to notify, 2 to indicate, 3 for both
    MaxCcc,      \* BT_GATT_CCC_MAX
    Encrypted    \* whether the CCC and its value need an encrypted link

\* What the module assumes of its constants; MCLayers asserts it of each instance.
NotifyAssumption ==
    /\ IsFiniteSet(Clients) /\ Private \subseteq Clients
    /\ {0} \subseteq CccValues /\ CccValues \subseteq 0 .. 3
    /\ MaxCcc \in Nat \ {0} /\ Encrypted \in BOOLEAN

VARIABLES
    cfg,      \* ccc->cfg
    value,    \* ccc->value
    client    \* each peer with its link and bond

notifyVars == <<cfg, value, client>>

Address == Clients \X {"identity", "private"}
AnyAddr == << >>   \* BT_ADDR_LE_ANY
IdAddr(p) == <<p, "identity">>
Hidden(p) == IF p \in Private THEN <<p, "private">> ELSE IdAddr(p)

\* left is not in the code: that nobody asked for the entry who is there now, because its link or
\* bond ended and it stayed, or because the peer has another.
Clear == [peer |-> AnyAddr, value |-> 0, left |-> FALSE]

\* link: "closing" until bt_gatt_disconnected; addrs: dst and init_addr; bond: "host" if the peer
\* has lost its keys; wants, not in the code: the value it last wrote, on this link or bond.
Stranger == [link |-> "down", dst |-> AnyAddr, init |-> AnyAddr, encrypt |-> FALSE, bond |-> "none", wants |-> 0]

\* bt_conn_is_peer_addr_le.
IsPeer(p, addr) == client[p].link # "down" /\ addr \in {client[p].dst, client[p].init}
Mine(p) == {i \in 1 .. MaxCcc : IsPeer(p, cfg[i].peer)}
Of(table, addr) == {i \in 1 .. MaxCcc : table[i].peer = addr}

\* bt_addr_le_is_bonded of the address of the link.
Bonded(p) == client[p].bond # "none" /\ client[p].dst = IdAddr(p)

\* bt_gatt_check_perm.
Permitted(p) == Encrypted => client[p].encrypt

Client(p, r) == client' = [client EXCEPT ![p] = r]

\* A wrong gatt_ccc_changed, which looks at the last entry that was written only.
ChangedByLast(table, i) == table[i].value

\* gatt_ccc_changed, after entry i changed: over all entries, also of peers that are away.
Changed(table, i) == Max({table[j].value : j \in 1 .. MaxCcc})

-----------------------------------------------------------------------------
(* What the server does with the table, without changing it. *)

\* bt_gatt_attr_read_ccc, with find_ccc_cfg.
ReadCcc(p) == IF Mine(p) = {} THEN 0 ELSE cfg[Min(Mine(p))].value

\* notify_cb, if every one can be sent to; at the first that fails it stops.  An entry that asks
\* for both matches neither type.
Notified(type) ==
    {p \in Clients : client[p].link = "up" /\ Permitted(p) /\ \E i \in Mine(p) : cfg[i].value = type}

-----------------------------------------------------------------------------
(* The peers. *)

\* bt_gatt_attr_write_ccc: without an entry 0 needs none, and anything else a free one.  An answer
\* to a link that is closing gets lost, but the write is done.
Write(p, v, accepted) ==
    /\ client[p].link \in {"up", "closing"} /\ Permitted(p)
    /\ Mine(p) # {} \/ v # 0
    /\ Mine(p) \cup Of(cfg, AnyAddr) # {}
    /\ LET i == Min(IF Mine(p) # {} THEN Mine(p) ELSE Of(cfg, AnyAddr))
           taken == IF Mine(p) # {} THEN cfg ELSE [cfg EXCEPT ![i].peer = client[p].dst]
           done == [taken EXCEPT ![i].value = v, ![i].left = FALSE]
       IN  \/ /\ accepted
              /\ cfg' = IF v = 0 THEN [done EXCEPT ![i] = Clear] ELSE done
              /\ value' = IF v # value THEN Changed(done, i) ELSE value
              /\ Client(p, [client[p] EXCEPT !.wants = v])
           \/ \* cfg_write of the application refuses.
              ~accepted /\ cfg' = taken /\ UNCHANGED <<value, client>>

\* update_ccc, for a peer that has just connected or encrypted the link.
Update(p, r) ==
    LET mine == {i \in 1 .. MaxCcc : cfg[i].peer \in {r.dst, r.init} /\ cfg[i].value # 0}
    IN  IF mine # {} /\ (Encrypted => r.encrypt) THEN Changed(cfg, Min(mine)) ELSE value

\* bt_gatt_connected.  The host resolves the address of a peer whose keys it has.
LinkUp(p) ==
    /\ client[p].link = "down"
    /\ LET known == client[p].bond = "both"
           r == [client[p] EXCEPT !.link = "up", !.init = Hidden(p),
                                  !.dst = IF known THEN IdAddr(p) ELSE Hidden(p)]
       IN  Client(p, r) /\ value' = Update(p, r)
    /\ UNCHANGED cfg

\* bt_gatt_encrypt_change.
ClientEncrypted(p) ==
    /\ client[p].link # "down" /\ ~client[p].encrypt
    /\ LET r == [client[p] EXCEPT !.encrypt = TRUE]
       IN  Client(p, r) /\ value' = Update(p, r)
    /\ UNCHANGED cfg

\* A new bond, and bt_gatt_identity_resolved with convert_to_id_on_match.  Keys the host had under
\* the identity are cleared, not what it had configured.
Pair(p) ==
    /\ client[p].link # "down" /\ client[p].encrypt /\ client[p].bond # "both"
    /\ Client(p, [client[p] EXCEPT !.bond = "both", !.dst = IdAddr(p)])
    /\ cfg' = [i \in 1 .. MaxCcc |->
                 IF cfg[i].peer = client[p].dst
                 THEN [cfg[i] EXCEPT !.peer = IdAddr(p),
                         !.left = @ \/ (Hidden(p) # IdAddr(p) /\ Of(cfg, IdAddr(p)) # {})]
                 ELSE cfg[i]]
    /\ UNCHANGED value

\* The peer forgets the bond.
LoseKeys(p) ==
    /\ client[p].link = "down" /\ client[p].bond = "both"
    /\ Client(p, [client[p] EXCEPT !.bond = "host", !.wants = 0])
    /\ cfg' = [i \in 1 .. MaxCcc |-> [cfg[i] EXCEPT !.left = @ \/ cfg[i].peer = IdAddr(p)]]
    /\ UNCHANGED value

\* The link ends, from either side.
Closing(p) ==
    /\ client[p].link = "up"
    /\ Client(p, [client[p] EXCEPT !.link = "closing"])
    /\ UNCHANGED <<cfg, value>>

-----------------------------------------------------------------------------
\* Whether disconnected_cb finds another peer that is connected and configured.
ValueUsed(p) ==
    \E q \in Clients \ {p} : client[q].link = "up" /\ \E i \in Mine(q) \ Mine(p) : cfg[i].value # 0

\* disconnected_cb.  It looks at no entry if the value is 0, and at none whose value is 0.
ClientGone(p) ==
    /\ client[p].link = "closing"
    /\ LET seen == {i \in Mine(p) : value # 0 /\ cfg[i].value # 0}
           Kept(e) == IF Bonded(p) THEN [e EXCEPT !.peer = client[p].dst] ELSE Clear
       IN  cfg' = [i \in 1 .. MaxCcc |->
                     IF i \in seen THEN Kept(cfg[i])
                     ELSE [cfg[i] EXCEPT !.left = @ \/ (i \in Mine(p) /\ ~Bonded(p))]]
    /\ value' = IF ValueUsed(p) THEN value ELSE 0
    /\ Client(p, [Stranger EXCEPT !.bond = client[p].bond,
                                  !.wants = IF Bonded(p) THEN client[p].wants ELSE 0])

\* bt_unpair, with bt_gatt_clear_ccc: the first entry of the identity; the value stays.
Unbond(p) ==
    /\ client[p].bond # "none"
    /\ LET here == IsPeer(p, IdAddr(p))
           mine == Of(cfg, IdAddr(p))
       IN  /\ Client(p, [client[p] EXCEPT !.bond = "none",
                           !.link = IF here THEN "closing" ELSE @,
                           !.wants = IF here \/ client[p].link = "down" THEN 0 ELSE @])
           /\ cfg' = [i \in 1 .. MaxCcc |->
                        IF i \in mine /\ i = Min(mine) THEN Clear
                        ELSE [cfg[i] EXCEPT !.left = @ \/ i \in mine]]
    /\ UNCHANGED value

-----------------------------------------------------------------------------
NotifyInit ==
    /\ cfg = [i \in 1 .. MaxCcc |-> Clear] /\ value = 0
    /\ client = [p \in Clients |-> Stranger]

NotifyNext ==
    \E p \in Clients :
       \/ \E v \in CccValues, accepted \in BOOLEAN : Write(p, v, accepted)
       \/ LinkUp(p) \/ ClientEncrypted(p) \/ Pair(p) \/ LoseKeys(p)
       \/ Closing(p) \/ ClientGone(p) \/ Unbond(p)

NotifySpec == NotifyInit /\ [][NotifyNext]_notifyVars

-----------------------------------------------------------------------------
NotifyTypeOK ==
    /\ cfg \in [1 .. MaxCcc -> [peer : Address \cup {AnyAddr}, value : CccValues, left : BOOLEAN]]
    /\ value \in CccValues
    /\ client \in [Clients -> [link : {"up", "closing", "down"}, encrypt : BOOLEAN,
                             dst : Address \cup {AnyAddr}, init : Address \cup {AnyAddr},
                             bond : {"none", "host", "both"}, wants : CccValues]]

Undisturbed(p) == \A i \in Mine(p) : ~cfg[i].left

\* A connected client reads what it wrote, on this link or earlier under its bond, gets what it
\* asked for once the link is secure enough, and nothing else, and the application knows of it:
\* through other clients that come, go and write, a new address and a new bond.  Clients with an
\* entry that was left are excepted, and one that asks for both gets neither (2288-2400,
\* 2916-2981, 3473-3626).
ServedAsAsked ==
    \A p \in Clients :
        client[p].link = "up" /\ Undisturbed(p)
            => /\ ReadCcc(p) = client[p].wants
               /\ \A type \in {1, 2} : p \in Notified(type) <=> client[p].wants = type /\ Permitted(p)
               /\ Permitted(p) => value >= client[p].wants

\* An entry belongs to one peer that is connected or bonded, and each has one, so that
\* CONFIG_BT_MAX_PAIRED + CONFIG_BT_MAX_CONN of them are enough; unless it was left: by a write
\* that the application refused, a second link that closes at the time, keys lost by the peer.
EntriesOwned ==
    \A i \in 1 .. MaxCcc :
        cfg[i].peer # AnyAddr /\ ~cfg[i].left
            => /\ \E p \in Clients : \/ IsPeer(p, cfg[i].peer)
                                     \/ cfg[i].peer = IdAddr(p) /\ client[p].bond # "none"
               /\ \A j \in Of(cfg, cfg[i].peer) \ {i} : cfg[j].left

\* The application is not left producing data when everybody is gone (3613-3622).
IdleWhenAlone == (\A p \in Clients : client[p].link = "down") => value = 0

\* All of it.
ClientsAreServed == ServedAsAsked /\ EntriesOwned /\ IdleWhenAlone
=================================================================================
