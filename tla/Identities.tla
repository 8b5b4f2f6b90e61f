------------------------------- MODULE Identities -------------------------------
(***************************************************************************)
(* The identities of the device, its name, and what is stored of both      *)
(* (id.c, settings.c, hci_core.c), from one start to the next.  They are   *)
(* stored as the arrays they are, one value after another, in files that   *)
(* the port for Windows deletes, creates and writes; power may be lost at  *)
(* any of these steps.                                                     *)
(*                                                                         *)
(* CONFIG_BT_SETTINGS, CONFIG_BT_PRIVACY, CONFIG_BT_SMP and the dynamic    *)
(* name are on.  The bonds are those of Bonds, here one for each identity. *)
(***************************************************************************)
EXTENDS Naturals, Sequences

CONSTANTS
    MaxIds,     \* CONFIG_BT_ID_MAX
    Statics,    \* bound: the static addresses there are
    Irks,       \* bound: the resolving keys, but for the one of zeroes
    Public,     \* whether the controller has an address
    Names,      \* bound: the names an application gives
    Default,    \* CONFIG_BT_DEVICE_NAME
    Calls,      \* bound: how often applications create, reset, delete and name
    Losses      \* bound: how often power is lost, or the host is turned off

\* What the module assumes of its constants; MCLayers asserts it of each instance.
IdentitiesAssumption ==
    /\ {MaxIds, Losses, Calls} \subseteq Nat \ {0} /\ Public \in BOOLEAN
    /\ "any" \notin Statics /\ "public" \notin Statics
    /\ 0 \notin Irks /\ Default # "" /\ "" \notin Names

VARIABLES
    dev,    \* bt_dev: what is in RAM
    todo,   \* the values that are still to be stored: nothing else happens before
    flash,  \* the files: what is in each, and whether it is there: "missing", "empty" or "full"
    app     \* not in the code: what the application takes for granted

idVars == <<dev, todo, flash, app>>

Ids == 0 .. MaxIds - 1
AddrAny == "any"        \* BT_ADDR_LE_ANY
Addrs == Statics \cup {AddrAny, "public"}

(* A key of zeroes is 0.  phase: before bt_enable, until an address is asked for, until it comes, ready. *)
AtBoot == [phase |-> "off", count |-> 0, addr |-> [i \in Ids |-> AddrAny], irk |-> [i \in Ids |-> 0],
           name |-> "", adv |-> {}, links |-> {}, bonds |-> {}]

\* An identity exists that has an address.
Exists(h, i) == i < h.count /\ h.addr[i] # AddrAny

-----------------------------------------------------------------------------
(* Storing. *)

\* bt_settings_save_id, as what there is to store.
SaveId(h) == <<[key |-> "id", value |-> h.addr], [key |-> "irk", value |-> h.irk]>>

\* id_create, with the address and the key it is given or made.  The address is stored before it is
\* counted; the whole array is.
IdCreate(h, i, addr, irk) == [h EXCEPT !.addr[i] = addr, !.irk[i] = irk]

\* bt_storage_kv_set: the file is deleted, made anew, and written.
Store ==
    /\ todo # <<>>
    /\ flash' = [flash EXCEPT ![Head(todo).key] = Head(todo).value, !.is[Head(todo).key] = "full"]
    /\ todo' = Tail(todo)
    /\ UNCHANGED <<dev, app>>

\* What bt_storage_kv_get leaves in old; of an empty file nothing is read, and no error comes.
Got(key, old) == IF flash.is[key] = "full" THEN flash[key] ELSE old

\* bt_storage_kv_get_id.  The length that comes back is the length that was asked for, so that all of
\* the array counts; an application that made identities before has those alone.
Loaded(h) ==
    LET ids == IF h.count > 0 THEN h
               ELSE [h EXCEPT !.addr = Got("id", @), !.count = IF flash.is["id"] = "missing" THEN 0 ELSE MaxIds]
    IN  [ids EXCEPT !.irk = Got("irk", @)]

-----------------------------------------------------------------------------
(* Start-up. *)

\* bt_enable with bt_settings_init; bt_set_name with the default name if there is none.
BtEnable ==
    LET name == Got("name", dev.name)
        h == [Loaded(dev) EXCEPT !.phase = "starting", !.name = IF name = "" THEN Default ELSE name,
                                  !.bonds = flash.bonds]
    IN  /\ dev.phase = "off" /\ todo = <<>>
        /\ dev' = h
        /\ todo' = IF name = "" THEN <<[key |-> "name", value |-> Default]>> ELSE <<>>
        /\ app' = IF h.name # app.name THEN [app EXCEPT !.name = h.name, !.renamed = ~app.torn] ELSE app
        /\ UNCHANGED flash

\* Ghost: the application knows the identity i by its address and key.
Believes(a, h, i) == [a EXCEPT !.has[i] = IF h.addr[i] = AddrAny THEN <<>> ELSE <<h.addr[i], h.irk[i]>>]

\* hci_state_event_process, once the event mask is set: an identity there is will do.
AskAddress ==
    /\ dev.phase = "starting" /\ todo = <<>>
    /\ dev' = [dev EXCEPT !.phase = IF dev.count > 0 THEN "ready" ELSE "asking"]
    /\ UNCHANGED <<todo, flash, app>>

\* bt_setup_public_id_addr_new, bt_setup_random_id_addr.
SetupPublic(irk) == IdCreate(dev, 0, "public", irk)
SetupRandom(addr, irk) == IdCreate(dev, 0, addr, irk)

\* read_bd_addr_complete, and what hci_state_event_process does then.  What the application created
\* since the address was asked for, it has no more.
AddressComes ==
    \E irk \in Irks, random \in Statics :
        LET h == [IF Public THEN SetupPublic(irk) ELSE SetupRandom(random, irk) EXCEPT !.count = 1, !.phase = "ready"]
        IN  /\ dev.phase = "asking" /\ todo = <<>>
            /\ Public \/ (\A i \in Ids : dev.addr[i] # random)
            /\ dev' = h
            /\ todo' = SaveId(h)
            /\ app' = [Believes(app, h, 0) EXCEPT !.raced = @ \/ dev.count > 0]
            /\ UNCHANGED flash

-----------------------------------------------------------------------------
(* The application. *)

\* The address and the key a call leaves: those it is given, or made; before bt_enable it must give both.
IdChoices == [addr : Statics, given : BOOLEAN, irk : Irks]
Permitted(c) ==
    /\ \A i \in Ids : i < dev.count => dev.addr[i] # c.addr
    /\ dev.phase = "off" => c.given
CallsAllowed == todo = <<>> /\ app.calls > 0
Called(a) == [a EXCEPT !.calls = @ - 1]

\* bt_id_create.  Called before bt_enable it stores what it has all the same, over what was stored.
CreateId(c) ==
    LET i == dev.count
        h == [IdCreate(dev, i, c.addr, c.irk) EXCEPT !.count = @ + 1]
    IN  /\ CallsAllowed /\ Permitted(c) /\ dev.count < MaxIds
        /\ dev' = h
        /\ todo' = SaveId(h)
        /\ app' = [Believes(Called(app), h, i) EXCEPT !.over = @ \/ dev.phase = "off"]
        /\ UNCHANGED flash

\* bt_unpair of all bonds of an identity; only links with a bond are disconnected.
Unpaired(h, i) == IF i \in h.bonds THEN [h EXCEPT !.bonds = @ \ {i}, !.links = @ \ {i}] ELSE h

\* bt_id_reset.
Reset(i, c) ==
    LET h == IdCreate(IF dev.addr[i] # AddrAny THEN Unpaired(dev, i) ELSE dev, i, c.addr, c.irk)
    IN  /\ CallsAllowed /\ Permitted(c) /\ i # 0 /\ i < dev.count
        /\ i \notin dev.adv
        /\ dev' = h
        /\ todo' = SaveId(h)
        /\ flash' = [flash EXCEPT !.bonds = h.bonds]
        /\ app' = [Believes(Called(app), h, i) EXCEPT !.linked = @ \/ i \in h.links]

\* bt_id_delete.
Delete(i) ==
    LET h == [Unpaired(dev, i) EXCEPT !.addr[i] = AddrAny, !.irk[i] = 0,
                                       !.count = IF i = @ - 1 THEN @ - 1 ELSE @]
    IN  /\ CallsAllowed /\ i # 0 /\ Exists(dev, i) /\ i \notin dev.adv
        /\ dev' = h
        /\ todo' = SaveId(h)
        /\ flash' = [flash EXCEPT !.bonds = h.bonds]
        /\ app' = [Believes(Called(app), h, i) EXCEPT !.linked = @ \/ i \in h.links]

\* bt_set_name.
SetName(name) ==
    /\ CallsAllowed /\ dev.phase # "off" /\ name # dev.name
    /\ dev' = [dev EXCEPT !.name = name]
    /\ todo' = <<[key |-> "name", value |-> name]>>
    /\ app' = [Called(app) EXCEPT !.name = name]
    /\ UNCHANGED flash

\* bt_le_adv_start with the identity i (valid_adv_param), a connection, a pairing, and their ends.
Advertise(i) ==
    /\ dev.phase = "ready" /\ todo = <<>> /\ dev.adv = {} /\ Exists(dev, i)
    /\ dev' = [dev EXCEPT !.adv = {i}]
    /\ UNCHANGED <<todo, flash, app>>
StopAdvertising ==
    /\ todo = <<>> /\ dev.adv # {}
    /\ \E link \in SUBSET dev.adv : dev' = [dev EXCEPT !.adv = {}, !.links = @ \cup link]
    /\ UNCHANGED <<todo, flash, app>>
Paired(i) ==
    /\ todo = <<>> /\ i \in dev.links \ dev.bonds
    /\ dev' = [dev EXCEPT !.bonds = @ \cup {i}]
    /\ flash' = [flash EXCEPT !.bonds = dev'.bonds]
    /\ app' = [app EXCEPT !.paired[i] = dev.addr[i]]
    /\ UNCHANGED todo
Disconnected(i) ==
    /\ todo = <<>> /\ i \in dev.links
    /\ dev' = [dev EXCEPT !.links = @ \ {i}]
    /\ UNCHANGED <<todo, flash, app>>

\* Power is lost, in the midst of storing, too; left is what becomes of the file.
PowerLoss(left) ==
    /\ app.losses > 0 /\ (todo = <<>> => left = "old")
    /\ dev' = AtBoot /\ todo' = <<>>
    /\ flash' = IF left = "old" THEN flash ELSE [flash EXCEPT !.is[Head(todo).key] = left]
    /\ app' = [app EXCEPT !.losses = @ - 1, !.torn = @ \/ todo # <<>>]

-----------------------------------------------------------------------------
IdInit ==
    /\ dev = AtBoot /\ todo = <<>>
    /\ flash = [id |-> dev.addr, irk |-> dev.irk, name |-> "", bonds |-> {},
                is |-> [key \in {"id", "irk", "name"} |-> "missing"]]
    /\ app = [has |-> [i \in Ids |-> <<>>], paired |-> [i \in Ids |-> AddrAny], name |-> Default, calls |-> Calls, losses |-> Losses,
              torn |-> FALSE, over |-> FALSE, raced |-> FALSE, linked |-> FALSE, renamed |-> FALSE]

IdNext ==
    \/ Store \/ BtEnable \/ AskAddress \/ AddressComes \/ StopAdvertising
    \/ \E c \in IdChoices : CreateId(c) \/ (\E i \in Ids : Reset(i, c))
    \/ \E i \in Ids : Delete(i) \/ Advertise(i) \/ Paired(i) \/ Disconnected(i)
    \/ \E name \in Names : SetName(name)
    \/ \E left \in {"old", "missing", "empty"} : PowerLoss(left)

IdSpec == IdInit /\ [][IdNext]_idVars

-----------------------------------------------------------------------------
IdTypeOK ==
    /\ dev.phase \in {"off", "starting", "asking", "ready"} /\ dev.count \in 0 .. MaxIds
    /\ dev.addr \in [Ids -> Addrs] /\ dev.irk \in [Ids -> Irks \cup {0}]
    /\ dev.name \in Names \cup {Default, ""}
    /\ dev.adv \cup dev.links \cup dev.bonds \subseteq Ids
    /\ flash.is \in [{"id", "irk", "name"} -> {"missing", "empty", "full"}] /\ flash.bonds \subseteq Ids

\* The host runs, and nothing of its identities was lost in one of the ways the code has: power lost
\* while they were stored, an identity made before bt_enable, which is stored over the others, or
\* between the command and the answer of start-up (hci_core.c:2787).
Whole == dev.phase = "ready" /\ ~app.torn /\ ~app.over /\ ~app.raced

\* The identities an application has created it has, with address and key, through every restart;
\* nobody else's.  The default one is always there.
IdentitiesKept ==
    Whole => /\ \A i \in Ids : app.has[i] = IF Exists(dev, i) THEN <<dev.addr[i], dev.irk[i]>> ELSE <<>>
             /\ Exists(dev, 0) /\ dev.irk[0] # 0

\* No two identities have one address, and one that is counted out has none, but for a race at start-up.
IdentitiesApart ==
    ~app.raced => /\ \A i, j \in Ids : i # j /\ dev.addr[i] = dev.addr[j] => dev.addr[i] = AddrAny
                  /\ \A i \in Ids : dev.addr[i] # AddrAny => i < dev.count

\* Advertising is that of an identity that exists; so are links and bonds, which were made with the
\* address it has, unless a link without a bond was left when its identity was reset or deleted
\* (bt_unpair looks for bonds, hci_core.c:1799): it may pair later.
UsedByIdentities ==
    Whole => /\ \A i \in dev.adv : Exists(dev, i)
             /\ ~app.linked => /\ \A i \in dev.links \cup dev.bonds : Exists(dev, i)
                               /\ \A i \in dev.bonds : dev.addr[i] = app.paired[i]

\* The name is the one that was set last.
NameKept == dev.phase # "off" /\ ~app.torn => dev.name = app.name /\ ~app.renamed

IdentitiesHold == IdentitiesKept /\ IdentitiesApart /\ UsedByIdentities /\ NameKept
=============================================================================
