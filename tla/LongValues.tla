------------------------------ MODULE LongValues ------------------------------
(***************************************************************************)
(* Values longer than a PDU: clients that read and write them in pieces    *)
(* (gatt.c) and the server with its queue of prepared writes (att.c).  A   *)
(* client may have several operations under way; ATT sends one request at  *)
(* a time, and the answer is given to the operation after the next request *)
(* was sent.  The queue is one for all operations of a client, the buffers *)
(* in it are those of all clients.                                         *)
(*                                                                         *)
(* CONFIG_BT_ATT_PREPARE_COUNT > 0, as example/peripheral has it in a      *)
(* comment; the attributes are those of that example.  Client and server   *)
(* are both this host.  Without a buffer for an answer the server finds    *)
(* one for the error.                                                      *)
(***************************************************************************)
EXTENDS Naturals, SequencesExt, FiniteSetsExt

CONSTANTS
    Clients,
    Handles,    \* attributes
    Ids,        \* operations of a client
    Asks,       \* what a client asks for: [kind, handle, len]
    Mtu,        \* ATT_MTU, at least 6
    Size,       \* sizeof(vnd_long_value)
    Count,      \* CONFIG_BT_ATT_PREPARE_COUNT
    None

\* What the module assumes of its constants; MCLayers asserts it of each instance.
LongValuesAssumption ==
    /\ {Mtu, Size, Count} \subseteq Nat /\ Mtu > 5
    /\ IsFiniteSet(Clients) /\ IsFiniteSet(Ids) /\ None \notin Clients
    /\ Asks \subseteq [kind : {"read", "write", "command"}, handle : Handles, len : Nat]
    /\ \A a \in Asks : a.kind = "command" => a.len <= Mtu - 3

VARIABLES
    op,     \* the parameters of each operation; not in the code: start, clean (the value did not
            \* change since) and wrote (the bytes of it the server has written)
    att,    \* the bearer of each client, with the PDUs on their way
    server  \* values, prep_queue of each client, free buffers of prep_pool; not in the code: lost,
            \* the buffers it lost, and mixed, that writes have met in a queue

vars == <<op, att, server>>

\* A byte of operation i of client c, and the bytes after the first `at' of it.
Byte(c, i, at) == <<c, i, at>>
Data(c, i, at, n) == [k \in 1 .. n |-> Byte(c, i, at + k)]

NoOp == [kind |-> None]
Running(o) == o.kind # None /\ o.status = "running"
Smaller(m, n) == IF m < n THEN m ELSE n

-----------------------------------------------------------------------------
(* Requests. *)

Pdu(i, code, handle, offset, data) ==
    [id |-> i, code |-> code, handle |-> handle, offset |-> offset, data |-> data]

\* bt_gatt_read: gatt_read_encode or gatt_read_blob.
ReadReq(i, o) == Pdu(i, IF o.at = 0 THEN "READ" ELSE "BLOB", o.handle, o.at, <<>>)

\* bt_gatt_write: the value at once, or gatt_prepare_write.
WriteReq(c, i, o) ==
    IF o.at > 0 \/ o.len + 2 > Mtu - 1
    THEN Pdu(i, "PREPARE", o.handle, o.at, Data(c, i, o.at, Smaller(o.len - o.at, Mtu - 5)))
    ELSE Pdu(i, "WRITE", o.handle, 0, Data(c, i, 0, o.len))

\* gatt_exec_write and gatt_cancel_all_writes.
ExecReq(i) == Pdu(i, "EXEC", None, 0, <<>>)
CancelReq(i) == Pdu(i, "CANCEL", None, 0, <<>>)

\* att_req_send_process: the next request, when none is outstanding.
Process(a) ==
    IF a.req # None \/ a.reqs = <<>> THEN a
    ELSE [a EXCEPT !.req = Head(a.reqs), !.reqs = Tail(@), !.sent = Append(@, Head(a.reqs))]

\* bt_att_req_send.
Send(a, r) == Process([a EXCEPT !.reqs = Append(@, r)])

-----------------------------------------------------------------------------
(* The client. *)

\* bt_gatt_read, bt_gatt_write and bt_gatt_write_without_response_cb.
Start(c, i, ask) ==
    /\ att[c].up /\ op[c][i] = NoOp /\ \A j \in Ids : j < i => op[c][j] # NoOp
    /\ LET o == [kind |-> ask.kind, handle |-> ask.handle, len |-> ask.len, at |-> 0, got |-> <<>>,
                 start |-> server.value[ask.handle], clean |-> TRUE, wrote |-> {},
                 status |-> IF ask.kind = "command" THEN "sent" ELSE "running"]
       IN  /\ op' = [op EXCEPT ![c][i] = o]
           /\ att' = [att EXCEPT ![c] =
                CASE ask.kind = "read" -> Send(@, ReadReq(i, o))
                  [] ask.kind = "write" -> Send(@, WriteReq(c, i, o))
                  [] ask.kind = "command" ->
                        [@ EXCEPT !.sent = Append(@, Pdu(i, "COMMAND", o.handle, 0, Data(c, i, 0, o.len)))]]
    /\ UNCHANGED server

\* What a callback makes of an operation and the request it makes, or None.
Ends(o, ok) == [op |-> [o EXCEPT !.status = IF ok THEN "ok" ELSE "failed"], req |-> None]
Asking(o, r) == [op |-> o, req |-> r]

\* A wrong gatt_read_rsp, to which a full PDU is the last.
ReadRspFull(i, o, pdu) ==
    LET k == [o EXCEPT !.got = @ \o pdu.data, !.at = @ + Len(pdu.data)]
    IN  IF pdu.code = "ERROR" \/ Len(pdu.data) <= Mtu - 1 THEN Ends(k, pdu.code # "ERROR")
        ELSE Asking(k, ReadReq(i, k))

\* gatt_read_rsp.
ReadRsp(i, o, pdu) ==
    LET k == [o EXCEPT !.got = @ \o pdu.data, !.at = @ + Len(pdu.data)]
    IN  IF pdu.code = "ERROR" \/ Len(pdu.data) < Mtu - 1 THEN Ends(k, pdu.code # "ERROR")
        ELSE Asking(k, ReadReq(i, k))

\* gatt_write_rsp: also the answer to a cancellation is a success.
WriteRsp(o, pdu) == Ends(o, pdu.code # "ERROR")

\* gatt_prepare_write_rsp; an answer to something else is too short or does not match.
PrepareRsp(c, i, o, pdu) ==
    LET k == [o EXCEPT !.at = @ + Len(pdu.data)]
    IN  CASE pdu.code = "ERROR" -> Ends(o, FALSE)
          [] pdu.code # "ERROR" /\ pdu # WriteReq(c, i, o) -> Asking(o, CancelReq(i))
          [] pdu = WriteReq(c, i, o) ->
                Asking(k, IF k.at = o.len THEN ExecReq(i) ELSE WriteReq(c, i, k))

\* bt_att_recv of an answer, and att_handle_rsp: it is not compared with the request.  A request
\* the callback makes may find no memory.
Answered(c) ==
    /\ att[c].up /\ att[c].answers # <<>>
    /\ LET pdu == Head(att[c].answers)
           was == att[c].req
           a == [att[c] EXCEPT !.answers = Tail(@)]
       IN  IF was = None THEN att' = [att EXCEPT ![c] = a] /\ UNCHANGED op
           ELSE LET i == was.id
                    o == op[c][i]
                    next == Process([a EXCEPT !.req = None])
                    then == CASE was.code \in {"READ", "BLOB"} -> ReadRsp(i, o, pdu)
                              [] was.code = "PREPARE" -> PrepareRsp(c, i, o, pdu)
                              [] OTHER -> WriteRsp(o, pdu)
                IN  \/ /\ op' = [op EXCEPT ![c][i] = then.op]
                       /\ att' = [att EXCEPT ![c] = IF then.req = None THEN next ELSE Send(next, then.req)]
                    \/ /\ then.req # None
                       /\ op' = [op EXCEPT ![c][i] = Ends(then.op, FALSE).op]
                       /\ att' = [att EXCEPT ![c] = next]
    /\ UNCHANGED server

-----------------------------------------------------------------------------
(* The server. *)

\* The bytes of a value, with data at the offset.
Over(value, offset, data) ==
    [q \in DOMAIN value |-> IF q - offset \in DOMAIN data THEN data[q - offset] ELSE value[q]]

\* A wrong write_long_vnd, which does not look at the offset.
WriteFromStart(s, e) ==
    IF Len(e.data) > Size THEN [s EXCEPT !.err = TRUE]
    ELSE [s EXCEPT !.value[e.handle] = Over(@, 0, e.data), !.err = FALSE]

\* write_long_vnd, from write_cb; the application may refuse.
Write(s, e) ==
    IF e.offset + Len(e.data) > Size \/ e.handle \in s.refusing THEN [s EXCEPT !.err = TRUE]
    ELSE [s EXCEPT !.value[e.handle] = Over(@, e.offset, e.data), !.err = FALSE]

Error == Pdu(None, "ERROR", None, 0, <<>>)
Done == Pdu(None, "DONE", None, 0, <<>>)
Answer(s, pdu) == [s EXCEPT !.said = Append(@, pdu)]

\* att_write_rsp: without a buffer for the answer nothing is written.
WriteReqs(s, r) ==
    LET k == Write(s, r)
    IN  IF s.lacking THEN Answer(s, Error) ELSE Answer(k, IF k.err THEN Error ELSE Done)

\* att_read_rsp, read_cb, att_chan_read and bt_gatt_attr_read.
ReadReqs(s, r) ==
    IF s.lacking \/ r.handle \in s.refusing \/ r.offset > Size THEN Answer(s, Error)
    ELSE Answer(s, [Done EXCEPT !.data =
            SubSeq(s.value[r.handle], r.offset + 1, Smaller(r.offset + Mtu - 1, Size))])

\* att_prep_write_rsp and prep_write_cb: the piece is in the queue before its answer is made.
PrepareReqs(s, r) ==
    IF r.handle \in s.refusing \/ s.free = 0 THEN Answer(s, Error)
    ELSE LET k == [s EXCEPT !.queue = Append(@, [handle |-> r.handle, offset |-> r.offset, data |-> r.data]),
                            !.free = @ - 1]
         IN  Answer(k, IF s.lacking THEN Error ELSE r)

\* A wrong exec_write_reassemble, which takes the pieces as they come.
JoinAll(whole, piece) ==
    IF whole.stop \/ piece.handle # whole.handle THEN [whole EXCEPT !.kept = Append(@, piece)]
    ELSE [whole EXCEPT !.data = @ \o piece.data, !.used = @ + 1]

\* A turn of exec_write_reassemble.
Join(whole, piece) ==
    LET keep == [whole EXCEPT !.kept = Append(@, piece)]
    IN  CASE whole.stop \/ piece.handle # whole.handle -> keep
          [] ~whole.stop /\ piece.handle = whole.handle /\ piece.offset = 0 -> [keep EXCEPT !.stop = TRUE]
          [] ~whole.stop /\ piece.handle = whole.handle /\ piece.offset > 0 ->
                IF piece.offset # whole.offset + Len(whole.data)
                THEN [keep EXCEPT !.stop = TRUE, !.bad = TRUE]
                ELSE [whole EXCEPT !.data = @ \o piece.data, !.used = @ + 1]

Reassembled(queue) ==
    LET first == Head(queue)
    IN  FoldLeft(Join, [handle |-> first.handle, offset |-> first.offset, data |-> first.data,
                        kept |-> <<>>, used |-> 0, stop |-> FALSE, bad |-> FALSE], Tail(queue))

\* A turn of att_exec_write_rsp: a piece out of place ends it, without its buffer.
ExecNext(s) ==
    IF s.queue = <<>> \/ s.halted THEN s
    ELSE LET whole == Reassembled(s.queue)
             k == [s EXCEPT !.queue = whole.kept, !.free = @ + whole.used]
             w == Write([k EXCEPT !.free = @ + 1], whole)
         IN  IF whole.bad THEN Answer([k EXCEPT !.halted = TRUE, !.lost = @ + 1], Error)
             ELSE IF ~s.exec THEN [k EXCEPT !.free = @ + 1, !.err = FALSE]
             ELSE IF w.err THEN Answer(w, Error) ELSE w

\* att_exec_write_rsp; what came of the last value decides on the answer.
ExecReqs(s) ==
    LET k == FoldLeft(LAMBDA t, e : ExecNext(t), s, s.queue)
    IN  IF k.halted \/ k.err THEN k ELSE Answer(k, IF s.lacking THEN Error ELSE Done)

\* What the properties compare with: the bytes written, and the reads they disturb.
Noted(ops, old, new) ==
    [c \in Clients |-> [i \in Ids |->
        IF ops[c][i] = NoOp THEN NoOp
        ELSE [ops[c][i] EXCEPT
                !.wrote = @ \cup {q \in 1 .. Size : new[ops[c][i].handle][q] = Byte(c, i, q)},
                !.clean = @ /\ old[ops[c][i].handle] = new[ops[c][i].handle]]]]

\* Pieces of different operations in one queue.
Mixed(queue) == \E e, f \in Range(queue) : e.data[1][2] # f.data[1][2]

\* bt_att_recv of a request or a command.
Serve(c, refusing, lacking) ==
    /\ att[c].up /\ att[c].sent # <<>>
    /\ LET r == Head(att[c].sent)
           s == [value |-> server.value, queue |-> server.queue[c], free |-> server.free, lost |-> server.lost,
                 said |-> <<>>, err |-> FALSE, halted |-> FALSE,
                 exec |-> r.code = "EXEC", refusing |-> refusing, lacking |-> lacking]
           k == CASE r.code \in {"READ", "BLOB"} -> ReadReqs(s, r)
                  [] r.code = "WRITE" -> WriteReqs(s, r)
                  [] r.code = "COMMAND" -> Write(s, r)
                  [] r.code = "PREPARE" -> PrepareReqs(s, r)
                  [] r.code \in {"EXEC", "CANCEL"} -> ExecReqs(s)
       IN  /\ server' = [value |-> k.value, queue |-> [server.queue EXCEPT ![c] = k.queue], free |-> k.free,
                         lost |-> k.lost, mixed |-> [server.mixed EXCEPT ![c] = @ \/ Mixed(k.queue)]]
           /\ att' = [att EXCEPT ![c].sent = Tail(@), ![c].answers = @ \o k.said]
           /\ op' = Noted(op, s.value, k.value)

-----------------------------------------------------------------------------
(* The link. *)

Idle == [up |-> FALSE, req |-> None, reqs |-> <<>>, sent |-> <<>>, answers |-> <<>>]

\* bt_att_disconnected at both ends: every request fails, and the queue is discarded.
LinkLost(c) ==
    /\ att[c].up
    /\ att' = [att EXCEPT ![c] = Idle]
    /\ op' = [op EXCEPT ![c] = [i \in Ids |-> IF Running(@[i]) THEN Ends(@[i], FALSE).op ELSE @[i]]]
    /\ server' = [server EXCEPT !.queue[c] = <<>>, !.free = @ + Len(server.queue[c])]

\* bt_att_connected.
Connected(c) ==
    /\ ~att[c].up
    /\ att' = [att EXCEPT ![c].up = TRUE]
    /\ UNCHANGED <<op, server>>

-----------------------------------------------------------------------------
Init ==
    /\ op = [c \in Clients |-> [i \in Ids |-> NoOp]]
    /\ att = [c \in Clients |-> [Idle EXCEPT !.up = TRUE]]
    /\ server = [value |-> [h \in Handles |-> Data(None, 0, 0, Size)], queue |-> [c \in Clients |-> <<>>],
                 free |-> Count, lost |-> 0, mixed |-> [c \in Clients |-> FALSE]]

Next ==
    \E c \in Clients :
        \/ \E i \in Ids, ask \in Asks : Start(c, i, ask)
        \/ Answered(c)
        \/ \E refusing \in SUBSET Handles, lacking \in BOOLEAN : Serve(c, refusing, lacking)
        \/ LinkLost(c) \/ Connected(c)

Spec == Init /\ [][Next]_vars

-----------------------------------------------------------------------------
TypeOK ==
    /\ \A c \in Clients, i \in Ids :
            op[c][i].kind # None => op[c][i].status \in {"running", "ok", "failed", "sent"}
    /\ \A c \in Clients : att[c].req = None => att[c].reqs = <<>>
    /\ server.free \in 0 .. Count /\ server.lost \in 0 .. Count
    /\ DOMAIN server.value = Handles

\* A byte is written where it belongs.
BytesInPlace ==
    \A h \in Handles, q \in 1 .. Size :
        LET b == server.value[h][q]
        IN  b[3] = q /\ (b[1] # None => op[b[1]][b[2]].handle = h)

\* A value is written whole or not at all, and one that is reported as written was; unless several
\* writes of the client have met in its queue (att_exec_write_rsp writes what it finds there).
Unmixed == {c \in Clients : ~server.mixed[c]}
WrittenWhole ==
    \A c \in Unmixed, i \in Ids :
        op[c][i].kind = "write" =>
            /\ op[c][i].wrote \in {{}, 1 .. op[c][i].len}
            /\ op[c][i].status = "ok" => op[c][i].wrote = 1 .. op[c][i].len

\* A value that did not change while it was read is read as it is.
ReadWhole ==
    \A c \in Unmixed, i \in Ids :
        op[c][i].kind = "read" /\ op[c][i].status = "ok" /\ op[c][i].clean => op[c][i].got = op[c][i].start

\* Every request gets one answer; only a queue with several values can make it two.
OneAnswer ==
    \A c \in Unmixed :
        LET asked == SelectSeq(att[c].sent, LAMBDA r : r.code # "COMMAND")
        IN  Len(asked) + Len(att[c].answers) = IF att[c].req = None THEN 0 ELSE 1

\* A buffer is free or in a queue, except those lost with a piece out of place; and a client whose
\* writes all succeeded has none.
PrepAccounted ==
    /\ server.free + server.lost + FoldSet(LAMBDA c, n : n + Len(server.queue[c]), 0, Clients) = Count
    /\ \A c \in Clients : ~att[c].up => server.queue[c] = <<>>
    /\ \A c \in Clients :
        (\A i \in Ids : op[c][i].kind = "write" => op[c][i].status = "ok") => server.queue[c] = <<>>

ValuesWhole == BytesInPlace /\ WrittenWhole /\ ReadWhole /\ OneAnswer /\ PrepAccounted
===============================================================================
