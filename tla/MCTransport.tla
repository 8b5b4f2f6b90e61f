----------------------------- MODULE MCTransport -----------------------------
(* A receiver with few buffers and packets of every kind, checked by TLC. *)
EXTENDS Transport

\* Lengths as the header gives them.  "event" is longer than any event buffer, and
\* "aclLong" than an event buffer, which it may be read into.
MCPktLen == [adv |-> 2, cc |-> 1, ncp |-> 1, event |-> 7, acl |-> 1, aclLong |-> 6]
MCTxLen  == [cmd |-> 2, aclTx |-> 1]
MCCount  == [evt |-> 1, num |-> 1, acl |-> 1, cmd |-> 1, aclTx |-> 1]
MCRoom   == [evt |-> 5, num |-> 3, acl |-> 10]

ASSUME MCLengthsTold == LengthsTold
=============================================================================
