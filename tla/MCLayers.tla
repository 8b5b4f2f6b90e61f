------------------------------- MODULE MCLayers -------------------------------
(***************************************************************************)
(* Small instances of the modules around the connection.  They share no    *)
(* state, so each behaviour explores one of them: "focus" says which, and  *)
(* v1 to v7 are its variables, in their order, or None.                    *)
(***************************************************************************)
EXTENDS Naturals, Sequences

CONSTANTS None, reqCancel, r1, r2, m1, m2, m3, c1, c2, p1, p2, h1, h2, p3

VARIABLES focus, v1, v2, v3, v4, v5, v6, v7

A == INSTANCE Att WITH bearer <- v1, attached <- v2, link <- v3, sec <- v4, raising <- v5, others <- v6, peerWaits <- v7,
        Reqs <- {r1, r2}, Cancelled <- reqCancel,
        Metas <- {m1, m2, m3}, MaxOthers <- 1, MaxSec <- 1

\* Everything peers may offer, and every PDU that can be lost, on one link.
OneLink == INSTANCE Smp WITH smp <- v1, gen <- v2, pkey <- v3,
        Pool <- {1}, Rounds <- 2,
        Offers <- {o \in [sc : BOOLEAN, asks : BOOLEAN, bad : BOOLEAN, dist : SUBSET {"ENC_KEY", "ID_KEY"},
                          method : {"JUST_WORKS", "PASSKEY_CONFIRM", "PASSKEY_INPUT", "PASSKEY_DISPLAY"}] :
                        o.sc \/ o.method # "PASSKEY_CONFIRM"},
        Sendings <- {"sent", "dropped", "nobuf"}

\* Two links that need the controller at the same time.
TwoLinks == INSTANCE Smp WITH smp <- v1, gen <- v2, pkey <- v3,
        Pool <- {1, 2}, Rounds <- 2, Sendings <- {"sent"},
        Offers <- [sc : {TRUE}, method : {"PASSKEY_CONFIRM"}, dist : {{}},
                   asks : {FALSE}, bad : {FALSE}]

\* Channels that come and go, one that receives, and two that send.
Opening == INSTANCE L2cap WITH mux <- v1, flight <- v2, metas <- v3, link <- v4, secured <- v5, sdus <- v6, cut <- v7,
        Chans <- {c1, c2}, Slots <- 1, InitCredits <- 1, MaxCredits <- 2,
        MaxSegs <- 0, MaxSdus <- 0, MaxQueue <- 0, MaxAsked <- 2
Receiving == INSTANCE L2cap WITH mux <- v1, flight <- v2, metas <- v3, link <- v4, secured <- v5, sdus <- v6, cut <- v7,
        Chans <- {c1}, Slots <- 1, InitCredits <- 2, MaxCredits <- 1,
        MaxSegs <- 3, MaxSdus <- 0, MaxQueue <- 2, MaxAsked <- 2
Sending == INSTANCE L2cap WITH mux <- v1, flight <- v2, metas <- v3, link <- v4, secured <- v5, sdus <- v6, cut <- v7,
        Chans <- {c1, c2}, Slots <- 2, InitCredits <- 1, MaxCredits <- 2,
        MaxSegs <- 0, MaxSdus <- 3, MaxQueue <- 0, MaxAsked <- 0

\* A client with robust caching and a database that changes often; two without, of whom none
\* gets an entry for the time it is away.
OneClient == INSTANCE Gatt WITH db <- v1, sc <- v2, peer <- v3,
        GattPeers <- {p1}, Robust <- {p1}, ScCfgs <- 1, MaxChanges <- 3, MaxOut <- 2
TwoClients == INSTANCE Gatt WITH db <- v1, sc <- v2, peer <- v3,
        GattPeers <- {p1, p2}, Robust <- {}, ScCfgs <- 0, MaxChanges <- 2, MaxOut <- 1

\* An application that connects to two peers and scans in between, and one that leaves it to the
\* host to connect.
Connecting == INSTANCE Central WITH host <- v1, ctl <- v2, wire <- v3,
        Conns <- {1, 2}, Direct <- {p1, p2}, Allowed <- {}, Nobody <- None,
        MaxRefs <- 4, MaxAsked <- 1, MaxWire <- 1
Background == INSTANCE Central WITH host <- v1, ctl <- v2, wire <- v3,
        Conns <- {1}, Direct <- {}, Allowed <- {p1}, Nobody <- None,
        MaxRefs <- 4, MaxAsked <- 2, MaxWire <- 1

\* Two parameters of one characteristic, one of them volatile.
Subscribing == INSTANCE Subscribe WITH entry <- v1, reqs <- v2, ccc <- v3, session <- v4,
        Params <- {p1, p2}, Shared <- {p1, p2}, Volatile <- {p2},
        MaxReqs <- 2

\* Three lists of services, one of them of includes, and three services: UUIDs of both lengths
\* meet in one response, and entries fill responses to the last byte.
Attr(kind, uuid) == [kind |-> kind, uuid |-> uuid, locked |-> FALSE]
Locked(attr) == [attr EXCEPT !.locked = TRUE]
Service == Attr("primary", "short")
LongService == Attr("primary", "long")
Include == Attr("include", "short")
LongInclude == Attr("include", "long")
Ccc == Attr("ccc", "0x2902")
Chrc(uuid) == <<Attr("chrc", uuid), Attr("value", uuid)>>
Lists ==
    {<<Service, LongService, Attr("secondary", "short"), Service, Include, LongService, Service>>,
     <<Service, Service, Service, Service, LongService, Service, LongService>>,
     <<Service, LongInclude, LongInclude, Include, Include, LongInclude, Include, Include>>}
Definitions ==
    {<<Service>> \o Chrc("short") \o <<Ccc>> \o Chrc("long") \o <<Ccc>>,
     <<Service>> \o Chrc("short") \o Chrc("short") \o Chrc("long"),
     <<Attr("secondary", "long")>> \o Chrc("short") \o <<Locked(Ccc), Ccc, Ccc, Ccc>>}
\* The first attribute of a list has handle 1, of a definition 3; the last handle is MaxHandle.
At(base, attrs) == [h \in base .. base + Len(attrs) - 1 |-> attrs[h - base + 1]]
Databases == {At(1, l) : l \in Lists} \cup {At(3, d) : d \in Definitions}
Discovering == INSTANCE Discover WITH server <- v1, params <- v2, phase <- v3, rsp <- v4, found <- v5, broken <- v6,
        MaxHandle <- 9, Mtus <- {23, 26}, Long <- {"long"}, Cut <- "cut",
        Dbs <- Databases,
        Asks <- {[type |-> q[1], uuid |-> q[2], start |-> from, end |-> to] :
                    from \in {1, 2, 4}, to \in {7, 9},
                    q \in ({"primary"} \X {None, "short", "long"}) \cup ({"secondary"} \X {None, "short"})
                          \cup ({"include"} \X {None, "short"}) \cup ({"chrc"} \X {None, "long"})
                          \cup ({"descriptor"} \X {None, "0x2902"})
                          \cup {<<"attribute", None>>, <<"ccc", "0x2902">>}}

\* Two peers, of which one bond more than fits the resolving list; one that hides its address, and
\* may have a bond for each it has shown.
TwoBonds == INSTANCE Bonds WITH keyring <- v1, acl <- v2, bonded <- v3,
        Peers <- {p1, p2}, Private <- {}, MaxPaired <- 2, RlSize <- 1, MaxItems <- 2
Hiding == INSTANCE Bonds WITH keyring <- v1, acl <- v2, bonded <- v3,
        Peers <- {p1}, Private <- {p1}, MaxPaired <- 2, RlSize <- 1, MaxItems <- 2

\* Two clients whose addresses are known, and one that hides its address behind an encrypted link.
TwoNotified == INSTANCE Notify WITH cfg <- v1, value <- v2, client <- v3,
        Clients <- {p1, p2}, Private <- {}, CccValues <- 0 .. 2, MaxCcc <- 2, Encrypted <- FALSE
HiddenNotified == INSTANCE Notify WITH cfg <- v1, value <- v2, client <- v3,
        Clients <- {p1}, Private <- {p1}, CccValues <- 0 .. 3, MaxCcc <- 2, Encrypted <- TRUE

\* Advertising of every kind with one slot; with two, and a controller that can advertise while
\* it has a connection, advertising that hides the address.
OneSlot == INSTANCE Advertise WITH adv <- v1, radio <- v2, events <- v3,
        Handles <- {h1}, Slots <- 1, PerConn <- FALSE, Exchanges <- TRUE,
        Asks <- [private : BOOLEAN, persist : BOOLEAN, limited : BOOLEAN], MaxRpas <- 2, MaxCmds <- 1
TwoSlots == INSTANCE Advertise WITH adv <- v1, radio <- v2, events <- v3,
        Handles <- {h1, h2}, Slots <- 2, PerConn <- TRUE, Exchanges <- TRUE,
        Asks <- [private : {TRUE}, persist : BOOLEAN, limited : {FALSE}], MaxRpas <- 1, MaxCmds <- 1

\* A client that reads and writes two values at a time, which take one PDU, two and more than there
\* is room for; and two clients with one value.
OneWriter == INSTANCE LongValues WITH op <- v1, att <- v2, server <- v3,
        Clients <- {c1}, Handles <- {1, 2}, Ids <- {1, 2},
        Asks <- [kind : {"write"}, handle : {1, 2}, len : {3, 6, 10}]
                \cup [kind : {"read"}, handle : {1}, len : {0}] \cup [kind : {"command"}, handle : {1}, len : {3}],
        Mtu <- 8, Size <- 9, Count <- 4
TwoWriters == INSTANCE LongValues WITH op <- v1, att <- v2, server <- v3,
        Clients <- {c1, c2}, Handles <- {1}, Ids <- {1},
        Asks <- [kind : {"write"}, handle : {1}, len : {3, 6}] \cup [kind : {"read"}, handle : {1}, len : {0}],
        Mtu <- 8, Size <- 9, Count <- 3

\* Two ends that open bearers at the same time, a request for each; that reconfigure and close them;
\* and requests that run out of time, or get no answer.
BearersAsked == INSTANCE Ecred WITH end <- v1, air <- v2, odd <- v3,
        Hosts <- {h1, h2}, EattMax <- 2, PerReq <- 1, TxMtu <- 2, MaxMtu <- 1,
        Callers <- {h1, h2}, MaxCalls <- 1, Ops <- {"connect"}, Faults <- {}
BearersChanged == INSTANCE Ecred WITH end <- v1, air <- v2, odd <- v3,
        Hosts <- {h1, h2}, EattMax <- 2, PerReq <- 5, TxMtu <- 2, MaxMtu <- 2,
        Callers <- {h1, h2}, MaxCalls <- 1, Ops <- {"one", "reconfigure"}, Faults <- {}
BearersTimed == INSTANCE Ecred WITH end <- v1, air <- v2, odd <- v3,
        Hosts <- {h1, h2}, EattMax <- 2, PerReq <- 5, TxMtu <- 2, MaxMtu <- 1,
        Callers <- {h1}, MaxCalls <- 1, Ops <- {"disconnect"}, Faults <- {"no buffer", "timeout"}

\* A client while services come and go, with a power loss; three that share the slots of two; and
\* services alone.
OneKept == INSTANCE Features WITH gatt <- v1, flash <- v2, known <- v3, stuck <- v4,
        Peers <- {p1}, Services <- {1, 2}, Attrs <- <<2, 1>>, Static <- 1,
        Slots <- 2, MaxPaired <- 1, MaxConn <- 1, MaxCalls <- 3, MaxRestarts <- 1
ThreeKept == INSTANCE Features WITH gatt <- v1, flash <- v2, known <- v3, stuck <- v4,
        Peers <- {p1, p2, p3}, Services <- {}, Attrs <- <<>>, Static <- 1,
        Slots <- 2, MaxPaired <- 1, MaxConn <- 1, MaxCalls <- 0, MaxRestarts <- 1
Registering == INSTANCE Features WITH gatt <- v1, flash <- v2, known <- v3, stuck <- v4,
        Peers <- {}, Services <- {1, 2, 3}, Attrs <- <<1, 2, 3>>, Static <- 1,
        Slots <- 2, MaxPaired <- 1, MaxConn <- 1, MaxCalls <- 6, MaxRestarts <- 1

\* Notifications that share their PDUs, and two clients with an indication for each.
Batching == INSTANCE Tell WITH talk <- v1, inds <- v2, away <- v3, tally <- v4,
        Links <- {1}, Sharers <- {1}, Marks <- {m1, m2}, Params <- {},
        Room <- 2, Metas <- 2, Requests <- 0, MaxNotes <- 4, MaxOthers <- 1
Indicating == INSTANCE Tell WITH talk <- v1, inds <- v2, away <- v3, tally <- v4,
        Links <- {1, 2}, Sharers <- {}, Marks <- {m1}, Params <- {p1},
        Room <- 2, Metas <- 2, Requests <- 2, MaxNotes <- 2, MaxOthers <- 1

\* Connection parameters: both ends ask; a peripheral asks twice; a central whose controller does not
\* know the procedure, and whose application alters what it is asked for.
Par(min, max, latency, timeout) == [min |-> min, max |-> max, latency |-> latency, timeout |-> timeout]
ParWishes == {Par(8, 8, 0, 10), Par(40, 40, 0, 11), Par(80, 80, 1, 40)}
Updates == INSTANCE Params WITH hosts <- v1, lle <- v2, evq <- v3, sig <- v4, will <- v5,
        Wishes <- ParWishes, Alters <- {}, Preferred <- Par(24, 24, 0, 42), Retries <- 1,
        Supports <- {"p", "c"}, Tunes <- 0, Calls <- [s \in {"p", "c"} |-> 1]
Retrying == INSTANCE Params WITH hosts <- v1, lle <- v2, evq <- v3, sig <- v4, will <- v5,
        Wishes <- ParWishes, Alters <- {}, Preferred <- Par(24, 24, 0, 42), Retries <- 1,
        Supports <- {"p", "c"}, Tunes <- 0, Calls <- [s \in {"p", "c"} |-> IF s = "p" THEN 2 ELSE 0]
Tuning == INSTANCE Params WITH hosts <- v1, lle <- v2, evq <- v3, sig <- v4, will <- v5,
        Wishes <- ParWishes, Alters <- ParWishes, Preferred <- Par(24, 24, 0, 42),
        Retries <- 1, Supports <- {"p"}, Tunes <- 1, Calls <- [s \in {"p", "c"} |-> IF s = "p" THEN 1 ELSE 0]

\* Two hosts of every capability that meet for the first time, and ask for every level; that have keys of
\* each other, or one of them has, and meet twice; and that have data of each other, a fixed passkey, or
\* no wish for a bond.
Kit(callbacks, sc) == [callbacks |-> callbacks, sc |-> sc, fixed |-> FALSE, oobd |-> FALSE, bondable |-> TRUE]
Mute == Kit({}, TRUE)
YesNo == Kit({"passkey_display", "passkey_confirm"}, TRUE)
Keyboard == Kit({"passkey_entry"}, TRUE)
Complete == Kit({"passkey_display", "passkey_entry", "passkey_confirm", "pairing_confirm"}, TRUE)
Legacy == Kit({"passkey_display", "passkey_entry"}, FALSE)
WithData == [Kit({"oob_data_request", "pairing_accept"}, TRUE) EXCEPT !.oobd = TRUE]
LegacyWithData == [Kit({"oob_data_request"}, FALSE) EXCEPT !.oobd = TRUE]
Fixed == [Kit({"passkey_entry", "pairing_confirm"}, TRUE) EXCEPT !.fixed = TRUE]
Keys(types, auth) == [types |-> types, ltk |-> 1, auth |-> auth, sc |-> "LTK_P256" \in types, sized |-> TRUE]
OwnKeys == {Keys(types, auth) : types \in {{"LTK_P256"}, {"LTK", "PERIPH_LTK"}}, auth \in BOOLEAN}
NoBond == [types |-> {}, ltk |-> 0, auth |-> FALSE, sc |-> FALSE, sized |-> FALSE]
Meet(central, peripheral, ckeys, pkeys) ==
    [c |-> central, p |-> peripheral, bonds |-> [r \in {"c", "p"} |-> IF r = "c" THEN ckeys ELSE pkeys]]
FirstMeeting == INSTANCE Levels WITH host <- v1, inbox <- v2, link <- v3, told <- v4,
        EnforceMitm <- FALSE, Overwrite <- FALSE, Links <- 1,
        Levels <- 2 .. 4, Forces <- {FALSE}, Requests <- [r \in {"c", "p"} |-> 2],
        Meetings <- {Meet(c, p, NoBond, NoBond) : c \in {Mute, YesNo, Complete, Legacy},
                                                  p \in {Mute, Keyboard, Complete, Legacy}}
MeetingAgain == INSTANCE Levels WITH host <- v1, inbox <- v2, link <- v3, told <- v4,
        EnforceMitm <- FALSE, Overwrite <- TRUE, Links <- 2,
        Levels <- {2, 4}, Forces <- BOOLEAN, Requests <- [r \in {"c", "p"} |-> 1],
        Meetings <- {Meet(c, p, k, k) : c \in {Complete, Mute}, p \in {YesNo, Legacy}, k \in OwnKeys}
                    \cup {Meet(c, p, Keys({"LTK_P256"}, FALSE), NoBond) : c \in {Complete, Mute}, p \in {YesNo, Legacy}}
OutOfBand == INSTANCE Levels WITH host <- v1, inbox <- v2, link <- v3, told <- v4,
        EnforceMitm <- TRUE, Overwrite <- FALSE, Links <- 1,
        Levels <- {2, 4}, Forces <- {FALSE}, Requests <- [r \in {"c", "p"} |-> 1],
        Meetings <- {Meet(c, p, NoBond, NoBond) : c \in {WithData, LegacyWithData},
                        p \in {WithData, LegacyWithData, Complete, Kit({"oob_data_request"}, TRUE)}}
                    \cup {Meet(Fixed, YesNo, NoBond, NoBond), Meet(Complete, Fixed, NoBond, NoBond)}
                    \cup {Meet([YesNo EXCEPT !.bondable = FALSE], Complete, k, k) : k \in {Keys({"LTK", "PERIPH_LTK"}, TRUE)}}

\* Three identities of a controller with an address; two that are made, of one without; and a name.
ThreeIdentities == INSTANCE Identities WITH dev <- v1, todo <- v2, flash <- v3, app <- v4,
        MaxIds <- 3, Statics <- {"s1", "s2"}, Irks <- {1}, Public <- TRUE,
        Names <- {"default"}, Default <- "default", Calls <- 2, Losses <- 1
MadeIdentities == INSTANCE Identities WITH dev <- v1, todo <- v2, flash <- v3, app <- v4,
        MaxIds <- 2, Statics <- {"s1", "s2"}, Irks <- {1}, Public <- FALSE,
        Names <- {"default"}, Default <- "default", Calls <- 2, Losses <- 1
NamedDevice == INSTANCE Identities WITH dev <- v1, todo <- v2, flash <- v3, app <- v4,
        MaxIds <- 2, Statics <- {"s1", "s2"}, Irks <- {1, 2}, Public <- TRUE,
        Names <- {"default", "name"}, Default <- "default", Calls <- 1, Losses <- 1

\* The USB driver while the controller sends, the host does, the driver is reset, and the host sleeps.
UsbReading == INSTANCE UsbDriver WITH usb <- v1, mem <- v2, rx <- v3, tx <- v4, main <- v5, reset <- v6, seen <- v7,
        Count <- [evt |-> 3, in |-> 1, cmd |-> 1, out |-> 1], Monitor <- FALSE,
        Resets <- 0, MaxIn <- [evt |-> 2, in |-> 2], MaxOut <- [cmd |-> 0, out |-> 0]
UsbWriting == INSTANCE UsbDriver WITH usb <- v1, mem <- v2, rx <- v3, tx <- v4, main <- v5, reset <- v6, seen <- v7,
        Count <- [evt |-> 1, in |-> 1, cmd |-> 1, out |-> 2], Monitor <- FALSE,
        Resets <- 0, MaxIn <- [evt |-> 0, in |-> 0], MaxOut <- [cmd |-> 1, out |-> 2]
UsbReset == INSTANCE UsbDriver WITH usb <- v1, mem <- v2, rx <- v3, tx <- v4, main <- v5, reset <- v6, seen <- v7,
        Count <- [evt |-> 1, in |-> 1, cmd |-> 1, out |-> 1], Monitor <- FALSE,
        Resets <- 1, MaxIn <- [evt |-> 1, in |-> 1], MaxOut <- [cmd |-> 0, out |-> 0]
UsbResetWriting == INSTANCE UsbDriver WITH usb <- v1, mem <- v2, rx <- v3, tx <- v4, main <- v5, reset <- v6, seen <- v7,
        Count <- [evt |-> 1, in |-> 1, cmd |-> 1, out |-> 1], Monitor <- FALSE,
        Resets <- 1, MaxIn <- [evt |-> 1, in |-> 0], MaxOut <- [cmd |-> 1, out |-> 0]
UsbSleep == INSTANCE UsbDriver WITH usb <- v1, mem <- v2, rx <- v3, tx <- v4, main <- v5, reset <- v6, seen <- v7,
        Count <- [evt |-> 1, in |-> 1, cmd |-> 1, out |-> 1], Monitor <- TRUE,
        Resets <- 0, MaxIn <- [evt |-> 1, in |-> 1], MaxOut <- [cmd |-> 0, out |-> 0]

\* What the modules assume of their constants.
ASSUME LayersAssumption ==
    /\ A!AttAssumption /\ OneLink!SmpAssumption /\ TwoLinks!SmpAssumption
    /\ Opening!L2capAssumption /\ Receiving!L2capAssumption /\ Sending!L2capAssumption
    /\ OneClient!GattAssumption /\ TwoClients!GattAssumption
    /\ Connecting!CentralAssumption /\ Background!CentralAssumption
    /\ Subscribing!SubscribeAssumption /\ Discovering!DiscoverAssumption
    /\ TwoBonds!BondsAssumption /\ Hiding!BondsAssumption
    /\ TwoNotified!NotifyAssumption /\ HiddenNotified!NotifyAssumption
    /\ OneSlot!AdvertiseAssumption /\ TwoSlots!AdvertiseAssumption
    /\ OneWriter!LongValuesAssumption /\ TwoWriters!LongValuesAssumption
    /\ BearersAsked!EcredAssumption /\ BearersChanged!EcredAssumption /\ BearersTimed!EcredAssumption
    /\ OneKept!FeaturesAssumption /\ ThreeKept!FeaturesAssumption /\ Registering!FeaturesAssumption
    /\ Batching!TellAssumption /\ Indicating!TellAssumption
    /\ Updates!ParamsAssumption /\ Retrying!ParamsAssumption /\ Tuning!ParamsAssumption
    /\ FirstMeeting!LevelsAssumption /\ MeetingAgain!LevelsAssumption /\ OutOfBand!LevelsAssumption
    /\ ThreeIdentities!IdentitiesAssumption /\ MadeIdentities!IdentitiesAssumption /\ NamedDevice!IdentitiesAssumption
    /\ UsbReading!UsbDriverAssumption /\ UsbWriting!UsbDriverAssumption /\ UsbReset!UsbDriverAssumption /\ UsbResetWriting!UsbDriverAssumption /\ UsbSleep!UsbDriverAssumption

-----------------------------------------------------------------------------
\* The variables a module does not have.
No4 == v4 = None /\ v5 = None /\ v6 = None /\ v7 = None
No5 == v5 = None /\ v6 = None /\ v7 = None
No6 == v6 = None /\ v7 = None
No7 == v7 = None

Init ==
    \/ focus = "att" /\ A!Init
    \/ focus = "one link" /\ OneLink!Init /\ No4
    \/ focus = "two links" /\ TwoLinks!Init /\ No4
    \/ focus = "opening" /\ Opening!Init
    \/ focus = "receiving" /\ Receiving!Init /\ v5
    \/ focus = "sending" /\ Sending!Init /\ v5
    \/ focus = "one client" /\ OneClient!GattInit /\ No4
    \/ focus = "two clients" /\ TwoClients!GattInit /\ No4
    \/ focus = "connecting" /\ Connecting!CentralInit /\ No4
    \/ focus = "background" /\ Background!CentralInit /\ No4
    \/ focus = "subscribing" /\ Subscribing!Init /\ No5
    \/ focus = "discovering" /\ Discovering!Init /\ No7
    \/ focus = "two bonds" /\ TwoBonds!Init /\ No4
    \/ focus = "hiding" /\ Hiding!Init /\ No4
    \/ focus = "two notified" /\ TwoNotified!NotifyInit /\ No4
    \/ focus = "hidden notified" /\ HiddenNotified!NotifyInit /\ No4
    \/ focus = "one slot" /\ OneSlot!AdvInit /\ No4
    \/ focus = "two slots" /\ TwoSlots!AdvInit /\ No4
    \/ focus = "one writer" /\ OneWriter!Init /\ No4
    \/ focus = "two writers" /\ TwoWriters!Init /\ No4
    \/ focus = "bearers asked" /\ BearersAsked!Init /\ No4
    \/ focus = "bearers changed" /\ BearersChanged!Init /\ No4
    \/ focus = "bearers timed" /\ BearersTimed!Init /\ No4
    \/ focus = "one kept" /\ OneKept!Init /\ No5
    \/ focus = "three kept" /\ ThreeKept!Init /\ No5
    \/ focus = "registering" /\ Registering!Init /\ No5
    \/ focus = "batching" /\ Batching!Init /\ No5
    \/ focus = "indicating" /\ Indicating!Init /\ No5
    \/ focus = "updates" /\ Updates!Init /\ No6
    \/ focus = "retries" /\ Retrying!Init /\ No6
    \/ focus = "tuning" /\ Tuning!Init /\ No6
    \/ focus = "levels" /\ FirstMeeting!Init /\ No5
    \/ focus = "bonds again" /\ MeetingAgain!Init /\ No5
    \/ focus = "out of band" /\ OutOfBand!Init /\ No5
    \/ focus = "identities" /\ ThreeIdentities!IdInit /\ No5
    \/ focus = "no address" /\ MadeIdentities!IdInit /\ No5
    \/ focus = "named" /\ NamedDevice!IdInit /\ No5
    \/ focus = "usb reading" /\ UsbReading!Init
    \/ focus = "usb writing" /\ UsbWriting!Init
    \/ focus = "usb reset" /\ UsbReset!Init
    \/ focus = "usb reset writing" /\ UsbResetWriting!Init
    \/ focus = "usb sleep" /\ UsbSleep!Init

AttNext == focus = "att" /\ A!Next /\ UNCHANGED focus
OneLinkNext == focus = "one link" /\ OneLink!Next /\ UNCHANGED <<focus, v4, v5, v6, v7>>
TwoLinksNext == focus = "two links" /\ TwoLinks!Next /\ UNCHANGED <<focus, v4, v5, v6, v7>>
OpeningNext == focus = "opening" /\ Opening!Next /\ UNCHANGED focus
ReceivingNext == focus = "receiving" /\ Receiving!Next /\ UNCHANGED focus
SendingNext == focus = "sending" /\ Sending!Next /\ UNCHANGED focus
OneClientNext == focus = "one client" /\ OneClient!GattNext /\ UNCHANGED <<focus, v4, v5, v6, v7>>
TwoClientsNext == focus = "two clients" /\ TwoClients!GattNext /\ UNCHANGED <<focus, v4, v5, v6, v7>>
ConnectingNext == focus = "connecting" /\ Connecting!CentralNext /\ UNCHANGED <<focus, v4, v5, v6, v7>>
BackgroundNext == focus = "background" /\ Background!CentralNext /\ UNCHANGED <<focus, v4, v5, v6, v7>>
SubscribingNext == focus = "subscribing" /\ Subscribing!Next /\ UNCHANGED <<focus, v5, v6, v7>>
DiscoveringNext == focus = "discovering" /\ Discovering!Next /\ UNCHANGED <<focus, v7>>
TwoBondsNext == focus = "two bonds" /\ TwoBonds!Next /\ UNCHANGED <<focus, v4, v5, v6, v7>>
HidingNext == focus = "hiding" /\ Hiding!Next /\ UNCHANGED <<focus, v4, v5, v6, v7>>
TwoNotifiedNext == focus = "two notified" /\ TwoNotified!NotifyNext /\ UNCHANGED <<focus, v4, v5, v6, v7>>
HiddenNotifiedNext == focus = "hidden notified" /\ HiddenNotified!NotifyNext /\ UNCHANGED <<focus, v4, v5, v6, v7>>
OneSlotNext == focus = "one slot" /\ OneSlot!AdvNext /\ UNCHANGED <<focus, v4, v5, v6, v7>>
TwoSlotsNext == focus = "two slots" /\ TwoSlots!AdvNext /\ UNCHANGED <<focus, v4, v5, v6, v7>>
OneWriterNext == focus = "one writer" /\ OneWriter!Next /\ UNCHANGED <<focus, v4, v5, v6, v7>>
TwoWritersNext == focus = "two writers" /\ TwoWriters!Next /\ UNCHANGED <<focus, v4, v5, v6, v7>>
BearersAskedNext == focus = "bearers asked" /\ BearersAsked!Next /\ UNCHANGED <<focus, v4, v5, v6, v7>>
BearersChangedNext == focus = "bearers changed" /\ BearersChanged!Next /\ UNCHANGED <<focus, v4, v5, v6, v7>>
BearersTimedNext == focus = "bearers timed" /\ BearersTimed!Next /\ UNCHANGED <<focus, v4, v5, v6, v7>>
OneKeptNext == focus = "one kept" /\ OneKept!Next /\ UNCHANGED <<focus, v5, v6, v7>>
ThreeKeptNext == focus = "three kept" /\ ThreeKept!Next /\ UNCHANGED <<focus, v5, v6, v7>>
RegisteringNext == focus = "registering" /\ Registering!Next /\ UNCHANGED <<focus, v5, v6, v7>>
BatchingNext == focus = "batching" /\ Batching!Next /\ UNCHANGED <<focus, v5, v6, v7>>
IndicatingNext == focus = "indicating" /\ Indicating!Next /\ UNCHANGED <<focus, v5, v6, v7>>
UpdatesNext == focus = "updates" /\ Updates!Next /\ UNCHANGED <<focus, v6, v7>>
RetryingNext == focus = "retries" /\ Retrying!Next /\ UNCHANGED <<focus, v6, v7>>
TuningNext == focus = "tuning" /\ Tuning!Next /\ UNCHANGED <<focus, v6, v7>>
FirstMeetingNext == focus = "levels" /\ FirstMeeting!Next /\ UNCHANGED <<focus, v5, v6, v7>>
MeetingAgainNext == focus = "bonds again" /\ MeetingAgain!Next /\ UNCHANGED <<focus, v5, v6, v7>>
OutOfBandNext == focus = "out of band" /\ OutOfBand!Next /\ UNCHANGED <<focus, v5, v6, v7>>
ThreeIdentitiesNext == focus = "identities" /\ ThreeIdentities!IdNext /\ UNCHANGED <<focus, v5, v6, v7>>
MadeIdentitiesNext == focus = "no address" /\ MadeIdentities!IdNext /\ UNCHANGED <<focus, v5, v6, v7>>
NamedDeviceNext == focus = "named" /\ NamedDevice!IdNext /\ UNCHANGED <<focus, v5, v6, v7>>
UsbReadingNext == focus = "usb reading" /\ UsbReading!Next /\ UNCHANGED focus
UsbWritingNext == focus = "usb writing" /\ UsbWriting!Next /\ UNCHANGED focus
UsbResetNext == focus = "usb reset" /\ UsbReset!Next /\ UNCHANGED focus
UsbResetWritingNext == focus = "usb reset writing" /\ UsbResetWriting!Next /\ UNCHANGED focus
UsbSleepNext == focus = "usb sleep" /\ UsbSleep!Next /\ UNCHANGED focus

Next ==
    \/ AttNext \/ OneLinkNext \/ TwoLinksNext \/ OpeningNext \/ ReceivingNext \/ SendingNext
    \/ OneClientNext \/ TwoClientsNext \/ ConnectingNext \/ BackgroundNext
    \/ SubscribingNext \/ DiscoveringNext \/ TwoBondsNext \/ HidingNext
    \/ TwoNotifiedNext \/ HiddenNotifiedNext \/ OneSlotNext \/ TwoSlotsNext
    \/ OneWriterNext \/ TwoWritersNext
    \/ BearersAskedNext \/ BearersChangedNext \/ BearersTimedNext
    \/ OneKeptNext \/ ThreeKeptNext \/ RegisteringNext
    \/ BatchingNext \/ IndicatingNext
    \/ UpdatesNext \/ RetryingNext \/ TuningNext
    \/ FirstMeetingNext \/ MeetingAgainNext \/ OutOfBandNext
    \/ ThreeIdentitiesNext \/ MadeIdentitiesNext \/ NamedDeviceNext
    \/ UsbReadingNext \/ UsbWritingNext \/ UsbResetNext \/ UsbResetWritingNext \/ UsbSleepNext

Spec == Init /\ [][Next]_<<focus, v1, v2, v3, v4, v5, v6, v7>>

-----------------------------------------------------------------------------
(* The properties of the modules, each where its module is explored. *)

TypeOK ==
    CASE focus = "att" -> A!TypeOK
      [] focus = "one link" -> OneLink!TypeOK
      [] focus = "two links" -> TwoLinks!TypeOK
      [] focus = "opening" -> Opening!TypeOK
      [] focus = "receiving" -> Receiving!TypeOK
      [] focus = "sending" -> Sending!TypeOK
      [] focus = "one client" -> OneClient!GattTypeOK
      [] focus = "two clients" -> TwoClients!GattTypeOK
      [] focus = "connecting" -> Connecting!CentralTypeOK
      [] focus = "background" -> Background!CentralTypeOK
      [] focus = "subscribing" -> Subscribing!TypeOK
      [] focus = "discovering" -> Discovering!TypeOK
      [] focus = "two bonds" -> TwoBonds!TypeOK
      [] focus = "hiding" -> Hiding!TypeOK
      [] focus = "two notified" -> TwoNotified!NotifyTypeOK
      [] focus = "hidden notified" -> HiddenNotified!NotifyTypeOK
      [] focus = "one slot" -> OneSlot!AdvTypeOK
      [] focus = "two slots" -> TwoSlots!AdvTypeOK
      [] focus = "one writer" -> OneWriter!TypeOK
      [] focus = "two writers" -> TwoWriters!TypeOK
      [] focus = "bearers asked" -> BearersAsked!TypeOK
      [] focus = "bearers changed" -> BearersChanged!TypeOK
      [] focus = "bearers timed" -> BearersTimed!TypeOK
      [] focus = "one kept" -> OneKept!TypeOK
      [] focus = "three kept" -> ThreeKept!TypeOK
      [] focus = "registering" -> Registering!TypeOK
      [] focus = "batching" -> Batching!TypeOK
      [] focus = "indicating" -> Indicating!TypeOK
      [] focus = "updates" -> Updates!TypeOK
      [] focus = "retries" -> Retrying!TypeOK
      [] focus = "tuning" -> Tuning!TypeOK
      [] focus = "levels" -> FirstMeeting!TypeOK
      [] focus = "bonds again" -> MeetingAgain!TypeOK
      [] focus = "out of band" -> OutOfBand!TypeOK
      [] focus = "identities" -> ThreeIdentities!IdTypeOK
      [] focus = "no address" -> MadeIdentities!IdTypeOK
      [] focus = "named" -> NamedDevice!IdTypeOK
      [] focus = "usb reading" -> UsbReading!TypeOK
      [] focus = "usb writing" -> UsbWriting!TypeOK
      [] focus = "usb reset" -> UsbReset!TypeOK
      [] focus = "usb reset writing" -> UsbResetWriting!TypeOK
      [] focus = "usb sleep" -> UsbSleep!TypeOK

\* Requests and contexts of ATT end in one place only, and one transaction runs at a time
\* (Att: MetasAccounted, RequestsAccounted, OneTransaction); what is told shares them, too
\* (Tell: PduMetasAccounted).  Packets between the threads of the USB driver keep their order, none is
\* lost but for the reasons named there, each buffer has one place, and no thread waits for one for
\* ever (UsbDriver: UsbKept).
NothingLost == /\ focus = "att" => A!MetasAccounted /\ A!RequestsAccounted /\ A!OneTransaction
               /\ focus = "batching" => Batching!PduMetasAccounted
               /\ focus = "indicating" => Indicating!PduMetasAccounted
               /\ focus = "usb reading" => UsbReading!UsbKept
               /\ focus = "usb writing" => UsbWriting!UsbKept
               /\ focus = "usb reset" => UsbReset!UsbKept
               /\ focus = "usb reset writing" => UsbResetWriting!UsbKept
               /\ focus = "usb sleep" => UsbSleep!UsbKept

\* Each pairing checks its own DHKey, one that waits for it gets it, and the application hears
\* the end of each once (Smp: CheckIsDue, DhkeyWillCome, EveryPairingReported); the level it hears of
\* is what it asked for, by a method that fits what both ends can do, and bonds become no weaker
\* (Levels: LevelsHold).
PairingsEnd == /\ focus = "one link" => OneLink!PairingsEnd
               /\ focus = "two links" => TwoLinks!PairingsEnd
               /\ focus = "levels" => FirstMeeting!LevelsHold
               /\ focus = "bonds again" => MeetingAgain!LevelsHold
               /\ focus = "out of band" => OutOfBand!LevelsHold

\* What waits for the peer is under a timer: a transaction, a pairing and a request of one
\* or of several channels (Att: TransactionGuarded; Smp: PairingIsTimed; L2cap: RequestsAreTimed;
\* Ecred: ChannelsTimed).
WaitingIsTimed == /\ focus = "att" => A!TransactionGuarded
                  /\ focus = "one link" => OneLink!PairingIsTimed
                  /\ focus = "two links" => TwoLinks!PairingIsTimed
                  /\ focus = "opening" => Opening!RequestsAreTimed
                  /\ focus = "bearers asked" => BearersAsked!ChannelsTimed
                  /\ focus = "bearers changed" => BearersChanged!ChannelsTimed
                  /\ focus = "bearers timed" => BearersTimed!ChannelsTimed

\* Credits keep a channel going: an SDU that can be sent is sent, except in the cases named
\* there, and the peer gets its credits back (L2cap: LimboHasACause, PeerIsNotStarved); both ends
\* of an enhanced channel agree that it is open and on its MTU, and those wanted are opened although
\* both ask (Ecred: BearersHold).
ChannelsFlow == /\ focus = "sending" => Sending!LimboHasACause
                /\ focus = "receiving" => Receiving!PeerIsNotStarved
                /\ focus = "bearers asked" => BearersAsked!BearersHold
                /\ focus = "bearers changed" => BearersChanged!BearersHold
                /\ focus = "bearers timed" => BearersTimed!BearersHold

\* A change of the database reaches its subscribers, and a client that is change-aware has seen
\* the database as it is (Gatt: ChangeIsAnnounced, SubscribersLearn, AwareClientsKnow), also after
\* a restart with another database, and what is stored of a client follows what it is (Features:
\* FeaturesHold).
ClientsKnowChanges ==
    /\ focus = "one client" => /\ OneClient!ChangeIsAnnounced /\ OneClient!SubscribersLearn
                               /\ OneClient!AwareClientsKnow
    /\ focus = "two clients" => TwoClients!ChangeIsAnnounced /\ TwoClients!SubscribersLearn
    /\ focus = "one kept" => OneKept!FeaturesHold
    /\ focus = "three kept" => ThreeKept!FeaturesHold

\* Clients are notified as they asked, each has one entry, and the application does not produce
\* data for nobody (Notify: ServedAsAsked, EntriesOwned, IdleWhenAlone); values longer than a PDU
\* are read as they are and written whole or not at all, as reported, with one answer to each
\* request and no buffer lost, unless writes are mixed (LongValues: ValuesWhole); they are told in
\* order, and the application of each it told, however many share a PDU or are indicated
\* (Tell: ToldHolds).
ClientsAreServed == /\ focus = "two notified" => TwoNotified!ClientsAreServed
                    /\ focus = "hidden notified" => HiddenNotified!ClientsAreServed
                    /\ focus = "one writer" => OneWriter!ValuesWhole
                    /\ focus = "two writers" => TwoWriters!ValuesWhole
                    /\ focus = "batching" => Batching!ToldHolds
                    /\ focus = "indicating" => Indicating!ToldHolds

\* The scan that the application or the host wants runs, and a connection that is asked for ends
\* as one or is reported as failed (Central: WantedScanRuns, PendingEnds).  The parameters of the
\* connection are known to both hosts, and what an application asks for is stored, put to the peer
\* or met, before what the host prefers (Params: WishesHold).
ScansAndConnects == /\ focus = "connecting" => Connecting!WantedScanRuns /\ Connecting!PendingEnds
                    /\ focus = "background" => Background!WantedScanRuns /\ Background!PendingEnds
                    /\ focus = "updates" => Updates!WishesHold
                    /\ focus = "retries" => Retrying!WishesHold
                    /\ focus = "tuning" => Tuning!WishesHold

\* The address the controller uses is the one the host meant and believes in: the identity to
\* connect (Central: ConnectsAsItself), one that hides the device to advertise, which the link
\* then is known by (Advertise: PrivacyKept, AnswersAsShown).
RightAddress == /\ focus = "connecting" => Connecting!ConnectsAsItself
                /\ focus = "background" => Background!ConnectsAsItself
                /\ focus = "one slot" => OneSlot!ShowsItself
                /\ focus = "two slots" => TwoSlots!ShowsItself

\* Advertising runs when it is wanted, only then, and within its limit, and a slot waits for a peer
\* only while one can come (Advertise: AdvertisesAsAsked).
AdvertisesAsAsked == /\ focus = "one slot" => OneSlot!AdvertisesAsAsked
                     /\ focus = "two slots" => TwoSlots!AdvertisesAsAsked

\* A subscription is in the list until the application hears of its end, the entry is free when
\* its list is empty, and the peer is configured as its subscribers want it (Subscribe:
\* SubscribersListed, FreeIffEmpty, PeerFollows).
SubscriptionsHold == focus = "subscribing" => Subscribing!SubscriptionsHold

\* A discovery finds what there is to find, all of it and nothing else (Discover: DiscoversOnly,
\* DiscoversAll); services that come and go have each their own handles, in order (Features:
\* ServicesApart).
DiscoveryIsExact == /\ focus = "discovering" => Discovering!DiscoveryIsExact
                    /\ focus = "one kept" => OneKept!ServicesApart
                    /\ focus = "registering" => Registering!ServicesApart

\* The pool, the controller's resolving list and the storage hold the bonds the application knows
\* (Bonds: SlotsAccounted, ResolvingListKept, BondsInPool, BondsInStorage, CrashHasACause); the
\* identities they were made with stay, with their keys and the name, through every restart
\* (Identities: IdentitiesHold).
BondsAreKept == /\ focus = "two bonds" => TwoBonds!BondsAreKept
                /\ focus = "hiding" => Hiding!BondsAreKept
                /\ focus = "identities" => ThreeIdentities!IdentitiesHold
                /\ focus = "no address" => MadeIdentities!IdentitiesHold
                /\ focus = "named" => NamedDevice!IdentitiesHold
=============================================================================
