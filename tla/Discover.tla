------------------------------- MODULE Discover -------------------------------
(***************************************************************************)
(* Discovery of a server's attributes: the client's procedures in gatt.c   *)
(* (bt_gatt_discover) against the server's handlers in att.c (Find         *)
(* Information, Find By Type Value, Read By Type, Read By Group Type).  A  *)
(* response holds as many entries as the MTU allows, all of one length,    *)
(* and the client asks again from where it ended.                          *)
(*                                                                         *)
(* Lengths are in bytes.  The database does not change meanwhile, and a    *)
(* response fits in one buffer.                                            *)
(***************************************************************************)
EXTENDS Integers, SequencesExt, FiniteSetsExt

CONSTANTS
    MaxHandle,  \* 0xffff
    Long,       \* UUIDs of 128 bits; the others have 16
    None,       \* no UUID asked for
    Cut,        \* what the first bytes of a UUID pass for
    Mtus,       \* MTUs the peers may have agreed on
    Dbs,        \* databases of the server, functions on an interval of handles
    Asks        \* what the application may ask for: type, uuid, start, end

Handles == 1 .. MaxHandle
Kinds == {"primary", "secondary", "include", "chrc", "value", "ccc"}
Services == {"primary", "secondary"}

\* What the module assumes of its constants; MCLayers asserts it of each instance.
DiscoverAssumption ==
    /\ MaxHandle \in Nat \ {0}
    /\ \A m \in Mtus : m \in Nat /\ m >= 23
    /\ \A d \in Dbs : DOMAIN d \subseteq Handles /\ \A h \in DOMAIN d : d[h].kind \in Kinds
    /\ \A ask \in Asks :
          /\ 1 <= ask.start /\ ask.start <= ask.end /\ ask.end <= MaxHandle
          /\ ask.type = "attribute" => ask.uuid = None

VARIABLES
    server,     \* its database, and the MTU
    params,     \* bt_gatt_discover_params: type, uuid, start, end; and the start of the first request
    phase,      \* what the client waits for
    rsp,        \* the response on its way
    found,      \* what the application was told
    broken      \* an error other than Attribute Not Found ended the discovery

vars == <<server, params, phase, rsp, found, broken>>

UuidLen(u) == IF u \in Long THEN 16 ELSE 2
Refusal == [err |-> "other", items |-> <<>>]
NotFound == [err |-> "not_found", items |-> <<>>]
Items(q) == [err |-> "none", items |-> q]

-----------------------------------------------------------------------------
(* The server. *)

\* bt_gatt_foreach_attr: the attributes of S in the range, in the order of handles.
Matching(S) == SelectSeq([h \in Handles |-> h],
                         LAMBDA h : h \in S /\ params.start <= h /\ h <= params.end)
OfKind(kind) == {h \in DOMAIN server.db : server.db[h].kind = kind}

\* The first entries of q, up to the first that is not accepted.
Leading(q, accepted) == SubSeq(q, 1, Max({n \in 0 .. Len(q) : 1 .. n \subseteq accepted}))

\* get_service_handles, find_type_cb, read_group_cb: a service ends before the next declaration.
GroupEnd(h) ==
    Max({e \in DOMAIN server.db : /\ h <= e /\ e <= params.end
                                  /\ \A x \in h + 1 .. e : server.db[x].kind \notin Services})

\* The value of a declaration, in bytes.
ValueLen(a) ==
    CASE a.kind \in Services -> UuidLen(a.uuid)
      [] a.kind = "include" -> IF a.uuid \in Long THEN 4 ELSE 6
      [] a.kind = "chrc" -> 3 + UuidLen(a.uuid)
      [] OTHER -> 2

\* A wrong read_type_cb, which goes on while an entry fits exactly.
TypeRoomExact(room, size) == room >= size

\* read_type_cb goes on with more room than the first entry needs, read_group_cb with as much.
TypeRoom(room, size) == room > size
GroupRoom(room, size) == room >= size

\* att_chan_read with attr_read_type_cb or attr_read_group_cb: a value is cut to the room there
\* is, and the entry stays if it then has the length of the first.
Packed(q, header) ==
    LET value(i) == ValueLen(server.db[q[i]])
        size == header + Min({value(1), server.mtu - 2 - header})
        room(i) == server.mtu - 2 - (i - 1) * size
        enough(i) == IF header = 4 THEN GroupRoom(room(i), size) ELSE TypeRoom(room(i), size)
        same(i) == enough(i) /\ header + Min({value(i), room(i) - header}) = size
        kept == Leading(q, {i \in DOMAIN q : i = 1 \/ same(i)})
    IN  [i \in DOMAIN kept |->
            [handle |-> q[i], end |-> GroupEnd(q[i]), kind |-> server.db[q[i]].kind,
             uuid |-> IF header + value(i) > size THEN Cut ELSE server.db[q[i]].uuid]]

\* att_read_group_rsp.
ReadGroup ==
    LET q == Matching(OfKind(params.type))
    IN  IF q = <<>> THEN NotFound ELSE Items(Packed(q, 4))

\* att_find_type_req and att_find_type_rsp, which know primary services only.
FindType ==
    LET q == Matching({h \in OfKind("primary") : server.db[h].uuid = params.uuid})
        fits == Leading(q, {i \in DOMAIN q : server.mtu - 1 - (i - 1) * 4 >= 4})
    IN  IF params.type # "primary" \/ q = <<>> THEN NotFound
        ELSE Items([i \in DOMAIN fits |-> [handle |-> q[i], end |-> GroupEnd(q[i]),
                                           kind |-> "primary", uuid |-> params.uuid]])

\* att_read_type_rsp: entries up to one that may not be read.
ReadType ==
    LET q == Matching(OfKind(params.type))
        open == Leading(q, {i \in DOMAIN q : ~server.db[q[i]].locked})
    IN  IF q = <<>> THEN NotFound
        ELSE IF open = <<>> THEN Refusal ELSE Items(Packed(open, 2))

\* att_find_info_rsp: types of the same length; those the host declares have 16 bits.
FindInfo ==
    LET q == Matching(DOMAIN server.db)
        long(i) == server.db[q[i]].kind = "value" /\ server.db[q[i]].uuid \in Long
        size == IF long(1) THEN 18 ELSE 4
        room(i) == server.mtu - 2 - (i - 1) * size
        fits == Leading(q, {i \in DOMAIN q : long(i) = long(1) /\ (i = 1 \/ TypeRoom(room(i), size))})
    IN  IF q = <<>> THEN NotFound
        ELSE Items([i \in DOMAIN fits |->
                      [handle |-> q[i], end |-> GroupEnd(q[i]), kind |-> server.db[q[i]].kind,
                       uuid |-> server.db[q[i]].uuid]])

\* The request of the client is answered; without a buffer, or with the link, it fails.
Answer(ok) ==
    /\ phase = "asked"
    /\ phase' = "answered"
    /\ rsp' = IF ~ok THEN Refusal
              ELSE IF params.type \in Services
                   THEN IF params.uuid = None THEN ReadGroup ELSE FindType
              ELSE IF params.type \in {"descriptor", "attribute"} THEN FindInfo ELSE ReadType
    /\ UNCHANGED <<server, params, found, broken>>

-----------------------------------------------------------------------------
(* The client. *)

\* bt_gatt_discover, as the application calls it.
Discover(ask) ==
    /\ phase = "idle"
    /\ phase' = "asked"
    /\ params' = [type |-> ask.type, uuid |-> ask.uuid, start |-> ask.start, end |-> ask.end,
                  from |-> ask.start, before |-> 0]
    /\ UNCHANGED <<server, rsp, found, broken>>

\* gatt_discover_next: from behind the last handle, if there is any left; bt_gatt_discover can fail.
NextFrom(last) == last + 1
DiscoverNext(last, ok) ==
    IF last = MaxHandle \/ NextFrom(last) > params.end
    THEN phase' = "done" /\ UNCHANGED <<params, broken>>
    ELSE /\ params' = [params EXCEPT !.start = NextFrom(last), !.before = params.start]
         /\ phase' = IF ok THEN "asked" ELSE "done"
         /\ broken' = ~ok

Wanted(item) == params.uuid = None \/ item.uuid = params.uuid

\* gatt_find_info_rsp: neither declarations nor, in the same response, what follows one.
Descriptor(q, i) ==
    /\ q[i].kind \notin Services \cup {"include", "chrc"}
    /\ ~(i > 1 /\ q[i - 1].kind = "chrc" /\ params.uuid = None)

\* parse_service, gatt_find_type_rsp, parse_characteristic, parse_read_std_char_desc,
\* parse_include with 16-bit UUIDs: the entries the application is told of.
Reports ==
    LET q == rsp.items
        told(i) == Wanted(q[i]) /\ (params.type = "descriptor" => Descriptor(q, i))
        told_indices == SelectSeq([i \in DOMAIN q |-> i], told)
    IN  [j \in DOMAIN told_indices |-> q[told_indices[j]]]

\* The handle to go on from: of a service its end.
LastHandle == IF params.type \in Services THEN Last(rsp.items).end ELSE Last(rsp.items).handle

LongInclude == params.type = "include" /\ rsp.items # <<>> /\ Head(rsp.items).uuid \in Long

\* An error is reported as the end is, with NULL.
Failed ==
    /\ phase = "answered" /\ rsp.err # "none"
    /\ phase' = "done"
    /\ broken' = (rsp.err = "other")
    /\ UNCHANGED <<server, params, rsp, found>>

Parsed(ok) ==
    /\ phase = "answered" /\ rsp.err = "none" /\ ~LongInclude
    /\ found' = found \o Reports
    /\ DiscoverNext(LastHandle, ok)
    /\ UNCHANGED <<server, rsp>>

\* The callback returns BT_GATT_ITER_STOP.
Stopped(n) ==
    /\ phase = "answered" /\ rsp.err = "none" /\ ~LongInclude
    /\ n \in DOMAIN Reports
    /\ found' = found \o SubSeq(Reports, 1, n)
    /\ phase' = "stopped"
    /\ UNCHANGED <<server, params, rsp, broken>>

\* parse_include, read_included_uuid: the UUID of the first entry is read from its service.
ReadIncluded ==
    /\ phase = "answered" /\ LongInclude
    /\ phase' = "reading"
    /\ UNCHANGED <<server, params, rsp, found, broken>>

\* read_included_uuid_cb: it goes on from the start of the request, not from the entry.
IncludedRead(ok, stop) ==
    /\ phase = "reading"
    /\ found' = IF ok /\ Wanted(Head(rsp.items)) THEN Append(found, Head(rsp.items)) ELSE found
    /\ IF ~ok THEN phase' = "done" /\ broken' = TRUE /\ UNCHANGED params
       ELSE IF stop /\ Wanted(Head(rsp.items)) THEN phase' = "stopped" /\ UNCHANGED <<params, broken>>
       ELSE DiscoverNext(params.start, TRUE)
    /\ UNCHANGED <<server, rsp>>

-----------------------------------------------------------------------------
Init ==
    /\ server \in [db : Dbs, mtu : Mtus]
    /\ params = [type |-> "primary", uuid |-> None, start |-> 1, end |-> 1, from |-> 1, before |-> 0]
    /\ phase = "idle" /\ rsp = NotFound /\ found = <<>> /\ broken = FALSE

Next ==
    \/ \E ask \in Asks : Discover(ask)
    \/ \E ok, stop \in BOOLEAN : Answer(ok) \/ Parsed(ok) \/ IncludedRead(ok, stop)
    \/ Failed \/ ReadIncluded
    \/ \E n \in Handles : Stopped(n)

Spec == Init /\ [][Next]_vars

-----------------------------------------------------------------------------
TypeOK ==
    /\ params.type \in Kinds \cup {"descriptor", "attribute"}
    /\ params.start \in Handles /\ params.end \in Handles /\ params.start <= params.end
    /\ phase \in {"idle", "asked", "answered", "reading", "done", "stopped"}
    /\ rsp.err \in {"none", "not_found", "other"}
    /\ phase \in {"answered", "reading"} =>
          \A i \in DOMAIN rsp.items : rsp.items[i].handle \in params.start .. params.end
    /\ broken \in BOOLEAN

(* What there is to find, whatever the responses hold. *)

\* A characteristic's value is no descriptor.
IsWanted(h) ==
    LET a == server.db[h]
    IN  /\ CASE params.type = "descriptor" -> a.kind = "ccc"
             [] params.type = "attribute" -> TRUE
             [] params.type = "secondary" -> a.kind = "secondary" /\ params.uuid = None
             [] OTHER -> a.kind = params.type
        /\ params.uuid \in {None, a.uuid}
Expected ==
    SelectSeq([h \in Handles |-> h],
              LAMBDA h : h \in DOMAIN server.db /\ params.from <= h /\ h <= params.end /\ IsWanted(h))

\* What was found, without the two kinds that are reported although nothing asks for them: the
\* value behind a characteristic declaration that ended a response (gatt.c:4713), and an include
\* with a 128-bit UUID, found again from each handle before it (gatt.c:4210).
Genuine ==
    SelectSeq([i \in DOMAIN found |-> i],
              LAMBDA i : /\ ~(params.type = "descriptor" /\ found[i].kind = "value")
                         /\ \A j \in 1 .. i - 1 : found[j] # found[i])
FoundHandles == [j \in DOMAIN Genuine |-> found[Genuine[j]].handle]

\* bt_gatt_discover tells the application of nothing but what it asked for, in the order of
\* handles, each once and as it is.  With an MTU that leaves an entry's length at the end of a
\* response, a 128-bit service passes for one of 16 bits (read_group_cb, att.c:1916).
DiscoversOnly ==
    /\ IsPrefix(FoundHandles, Expected)
    /\ \A i \in DOMAIN found :
          /\ \/ found[i].uuid = server.db[found[i].handle].uuid
             \/ params.type \in Services /\ found[i].uuid = Cut /\ (server.mtu - 2) % 6 = 0
          /\ params.type \in Services =>
                /\ found[i].end \in found[i].handle .. params.end
                /\ \A h \in found[i].handle + 1 .. found[i].end : server.db[h].kind \notin Services
                /\ (found[i].end + 1 \in DOMAIN server.db /\ found[i].end < params.end) =>
                      server.db[found[i].end + 1].kind \in Services

\* A discovery that ends of itself, and not by an error, has found everything, and each of its
\* requests asks for less than the one before.
DiscoversAll ==
    /\ phase = "done" /\ ~broken => FoundHandles = Expected
    /\ phase = "asked" => params.start > params.before

\* A discovery finds what there is to find, all of it and nothing else.
DiscoveryIsExact == DiscoversOnly /\ DiscoversAll
=============================================================================
