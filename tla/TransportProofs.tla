--------------------------- MODULE TransportProofs ---------------------------
(***************************************************************************)
(* Proofs about the H:4 transport: the packets bt_recv and the controller  *)
(* are given, those that are lost, and the buffers of the pools, for all   *)
(* lengths, pools and numbers of packets.                                  *)
(*                                                                         *)
(* The receiver and the wire are always at the same byte of the same       *)
(* packet: RxInv says at which, and what became of the packets before it.  *)
(* TxInv says the same of the packet that is being transmitted.            *)
(***************************************************************************)
EXTENDS Transport, ListLemmas

\* The first n bytes of packet p, as the receiver collects them.
Piece(p, n) == [i \in 1 .. n |-> <<p, i>>]

\* Every byte on the wire is followed by the rest of its packet, and that by the next packet.
WireWhole ==
    /\ wire \in Seq(Nat \X Nat)
    /\ \A k \in 1 .. Len(wire) :
          /\ wire[k][1] \in 1 .. Len(sent)
          /\ wire[k][2] \in 0 .. FrameLen(sent[wire[k][1]])
          /\ LET end == k + FrameLen(sent[wire[k][1]]) - wire[k][2] IN
             /\ end <= Len(wire)
             /\ \A j \in k .. end : wire[j] = <<wire[k][1], wire[k][2] + j - k>>
             /\ IF end = Len(wire) THEN wire[k][1] = Len(sent)
                                   ELSE wire[end + 1] = <<wire[k][1] + 1, 0>>

\* The receiver has read packet p to its end ...
Between(p) ==
    /\ p \in 0 .. Len(sent)
    /\ IF p = Len(sent) THEN wire = <<>> ELSE wire # <<>> /\ wire[1] = <<p + 1, 0>>

\* ... or is before its byte i.
InFrame(p, i) ==
    /\ p \in 1 .. Len(sent) /\ i \in 1 .. FrameLen(sent[p]) + 1
    /\ IF i <= FrameLen(sent[p]) THEN wire # <<>> /\ wire[1] = <<p, i>> ELSE Between(p)

IdleAt(p) == rx = RxIdle /\ Between(p)

HeaderAt(p) ==
    LET n == Len(rx.hdr) IN
    /\ p \in 1 .. Len(sent) /\ InFrame(p, n + 1)
    /\ rx.type = TypeOf(sent[p]) /\ ~ rx.haveHdr /\ rx.discard = 0
    /\ n < HdrLen(sent[p]) /\ rx.hdr = Piece(p, n)
    /\ rx.hdrLen = IF n = 0 THEN (IF IsAcl(sent[p]) THEN 4 ELSE 2) ELSE HdrLen(sent[p])
    /\ rx.remaining = rx.hdrLen - n

PayloadAt(p) ==
    /\ p \in 1 .. Len(sent) /\ InFrame(p, FrameLen(sent[p]) - rx.remaining + 1)
    /\ rx.type = TypeOf(sent[p]) /\ rx.haveHdr /\ rx.discard = 0
    /\ rx.hdrLen = HdrLen(sent[p]) /\ rx.hdr = Piece(p, rx.hdrLen)
    /\ rx.discardable => sent[p] = "adv"
    /\ rx.remaining <= PayloadLen(sent[p])
    /\ IF rxBuf = NoBuf THEN rx.remaining = PayloadLen(sent[p])
       ELSE /\ rxBuf.bytes = Piece(p, FrameLen(sent[p]) - rx.remaining)
            /\ PayloadLen(sent[p]) <= Room[rxBuf.pool]

DiscardAt(p) ==
    /\ rx.discard > 0 /\ rx = [RxIdle EXCEPT !.discard = rx.discard]
    /\ p \in 1 .. Len(sent) /\ rx.discard <= PayloadLen(sent[p])
    /\ InFrame(p, FrameLen(sent[p]) - rx.discard + 1)

\* The packets that are over, when p is the last of which a byte was read.
Over(p) == 1 .. (IF rx.type = "none" THEN p ELSE p - 1)

\* A packet up to p did not fit its buffer, which is in the given pool.
Misfit(p, pool) == \E o \in 1 .. p : Oversize(sent[o]) /\ PoolOf(sent[o]) = pool

\* What became of them.
History(p) ==
    /\ received \in Seq(Seq(Nat \X Nat))
    /\ lost \subseteq Over(p)
    /\ \A q \in Over(p) : Ended(q)
    /\ \A i \in 1 .. Len(received) :
          LET q == received[i][1][1] IN
          /\ q \in Over(p) \ lost
          /\ received[i] = Body(q, sent[q])
          /\ i > 1 => received[i - 1][1][1] < q
    /\ \A q \in lost : sent[q] = "adv" \/ \E pool \in RxPools : Misfit(q, pool)

\* The buffer of the receiver is that of the packet it reads, or was left by a misfit.
BufferOf(p) ==
    /\ rxBuf \in [pool : RxPools \cup {"none"}, bytes : Seq(Nat \X Nat)]
    /\ rxBuf.pool = "none" => rxBuf = NoBuf
    /\ rxBuf # NoBuf => \/ rx.haveHdr /\ rxBuf.pool = PoolOf(sent[p])
                        \/ Misfit(p, rxBuf.pool)
    /\ ~ rx.haveHdr => rxBuf.bytes = <<>>

RxRecord ==
    [type : {"none", "evt", "acl"}, remaining : Nat, hdrLen : Nat, haveHdr : BOOLEAN,
     discardable : BOOLEAN, discard : Nat, hdr : Seq(Nat \X Nat)]

RxTypes == rx \in RxRecord

RxAt(p) ==
    /\ p \in 0 .. Len(sent)
    /\ IdleAt(p) \/ HeaderAt(p) \/ PayloadAt(p) \/ DiscardAt(p)
    /\ BufferOf(p)
    /\ History(p)

\* Each buffer in rx_queue holds a packet whose payload the receiver compared with its room.
QueueFits ==
    /\ rxQueue \in Seq([pool : RxPools, pkt : 1 .. Len(sent)])
    /\ \A i \in 1 .. Len(rxQueue) :
          LET kind == sent[rxQueue[i].pkt] IN
          /\ PayloadLen(kind) <= Room[rxQueue[i].pool]
          /\ rxQueue[i].pool = PoolOf(kind) \/ Misfit(Len(sent), rxQueue[i].pool)

RxInv ==
    /\ sent \in Seq(Kinds) /\ WireWhole /\ RxTypes
    /\ \E p \in 0 .. Len(sent) : RxAt(p)
    /\ QueueFits

-----------------------------------------------------------------------------
(* Lengths and pools *)

LEMMA KindFacts ==
    ASSUME NEW kind \in Kinds
    PROVE  /\ PayloadLen(kind) \in Nat /\ HdrLen(kind) \in 2 .. 4
           /\ FrameLen(kind) \in Nat /\ FrameLen(kind) = HdrLen(kind) + PayloadLen(kind)
           /\ PoolOf(kind) \in RxPools /\ TypeOf(kind) \in {"evt", "acl"}
           /\ IsAcl(kind) => HdrLen(kind) = 4
           /\ ~ IsAcl(kind) => HdrLen(kind) = IF IsMeta(kind) THEN 3 ELSE 2
           /\ PktLen[kind] - (IF IsAcl(kind) THEN 0 ELSE HdrLen(kind) - 2) = PayloadLen(kind)
<1>1. PktLen[kind] \in Nat /\ (IsMeta(kind) => PktLen[kind] > 0)
  BY TransportAssumption DEF IsMeta
<1>2. IsMeta(kind) => ~ IsAcl(kind)
  BY DEF IsMeta, IsAcl
<1>3. HdrLen(kind) \in 2 .. 4
  BY DEF HdrLen
<1>4. PayloadLen(kind) \in Nat
  BY <1>1 DEF PayloadLen
<1>5. /\ IsAcl(kind) => HdrLen(kind) = 4
      /\ ~ IsAcl(kind) => HdrLen(kind) = IF IsMeta(kind) THEN 3 ELSE 2
  BY DEF HdrLen
<1>6. PktLen[kind] - (IF IsAcl(kind) THEN 0 ELSE HdrLen(kind) - 2) = PayloadLen(kind)
  BY <1>1, <1>2, <1>5 DEF PayloadLen
<1>7. PoolOf(kind) \in RxPools /\ TypeOf(kind) \in {"evt", "acl"}
  BY DEF PoolOf, RxPools, TypeOf
<1>8. QED
  BY <1>3, <1>4, <1>5, <1>6, <1>7 DEF FrameLen

\* Sending appends to the packets sent; those there were keep their numbers.
LEMMA SentGrows ==
    ASSUME sent \in Seq(Kinds), NEW kind \in Kinds, sent' = Append(sent, kind)
    PROVE  /\ sent' \in Seq(Kinds) /\ Len(sent') = Len(sent) + 1
           /\ sent'[Len(sent) + 1] = kind
           /\ \A p \in 1 .. Len(sent) : sent'[p] = sent[p]
OBVIOUS

-----------------------------------------------------------------------------
(* The wire *)

\* The next byte the driver will return is byte i of packet p.
AtByte(p, i) ==
    /\ p \in 1 .. Len(sent) /\ i \in 0 .. FrameLen(sent[p])
    /\ wire # <<>> /\ wire[1] = <<p, i>>

\* Bytes that do not reach beyond the end of packet p are the ones that follow byte i.
LEMMA ReadBytes ==
    ASSUME sent \in Seq(Kinds), WireWhole, UNCHANGED sent,
           NEW p, NEW i, AtByte(p, i),
           NEW k \in Nat, k > 0, k <= FrameLen(sent[p]) - i + 1,
           k <= Len(wire), wire' = SubSeq(wire, k + 1, Len(wire))
    PROVE  /\ WireWhole' /\ InFrame(p, i + k)'
           /\ SubSeq(wire, 1, k) = [j \in 1 .. k |-> <<p, i + j - 1>>]
<1>1. /\ p \in Nat /\ i \in Nat /\ FrameLen(sent[p]) \in Nat /\ Len(wire) \in Nat
      /\ Len(sent) \in Nat /\ 1 \in 1 .. Len(wire)
  <2>1. p \in 1 .. Len(sent) /\ i \in 0 .. FrameLen(sent[p]) /\ wire # <<>>
    BY DEF AtByte
  <2>2. sent[p] \in Kinds /\ Len(sent) \in Nat
    BY <2>1
  <2>3. FrameLen(sent[p]) \in Nat
    BY <2>2, KindFacts
  <2>4. wire \in Seq(Nat \X Nat)
    BY DEF WireWhole
  <2>5. Len(wire) \in Nat /\ 1 \in 1 .. Len(wire)
    BY <2>1, <2>4
  <2>6. QED
    BY <2>1, <2>2, <2>3, <2>5
<1> DEFINE end == 1 + FrameLen(sent[p]) - i
<1>2. /\ end <= Len(wire) /\ k <= end
      /\ \A j \in 1 .. end : wire[j] = <<p, i + j - 1>>
      /\ IF end = Len(wire) THEN p = Len(sent) ELSE wire[end + 1] = <<p + 1, 0>>
  <2>1. wire[1][1] = p /\ wire[1][2] = i
    BY DEF AtByte
  <2>2. LET last == 1 + FrameLen(sent[p]) - i IN
        /\ last <= Len(wire)
        /\ \A j \in 1 .. last : wire[j] = <<p, i + j - 1>>
        /\ IF last = Len(wire) THEN p = Len(sent) ELSE wire[last + 1] = <<p + 1, 0>>
    BY <1>1, <2>1 DEF WireWhole
  <2>3. k <= end
    BY <1>1
  <2>4. QED
    BY <2>2, <2>3
<1>3. SubSeq(wire, 1, k) = [j \in 1 .. k |-> <<p, i + j - 1>>]
  <2>1. SubSeq(wire, 1, k) = [j \in 1 .. k |-> wire[j]]
    BY <1>1 DEF WireWhole
  <2> HIDE DEF end
  <2>2. \A j \in 1 .. k : wire[j] = <<p, i + j - 1>>
    <3>1. end \in Nat
      BY <1>1 DEF end
    <3>2. QED
      BY <1>1, <1>2, <3>1
  <2>3. QED
    BY <2>1, <2>2
<1>4. /\ wire' \in Seq(Nat \X Nat) /\ Len(wire') = Len(wire) - k
      /\ \A j \in 1 .. Len(wire) - k : wire'[j] = wire[j + k]
  <2>1. wire \in Seq(Nat \X Nat)
    BY DEF WireWhole
  <2>2. k \in 0 .. Len(wire)
    BY <1>1
  <2>3. QED
    BY <2>1, <2>2, CutElements
<1>5. WireWhole'
  <2>1. SUFFICES ASSUME NEW m \in 1 .. Len(wire')
                 PROVE  /\ wire'[m][1] \in 1 .. Len(sent)
                        /\ wire'[m][2] \in 0 .. FrameLen(sent[wire'[m][1]])
                        /\ LET last == m + FrameLen(sent[wire'[m][1]]) - wire'[m][2] IN
                           /\ last <= Len(wire')
                           /\ \A j \in m .. last :
                                 wire'[j] = <<wire'[m][1], wire'[m][2] + j - m>>
                           /\ IF last = Len(wire') THEN wire'[m][1] = Len(sent)
                              ELSE wire'[last + 1] = <<wire'[m][1] + 1, 0>>
    BY <1>4, ZenonT(40) DEF WireWhole, FrameLen, PayloadLen, HdrLen
  <2> DEFINE n == m + k
             q == wire[n][1]
             b == wire[n][2]
             far == n + FrameLen(sent[q]) - b
  <2>2. n \in 1 .. Len(wire) /\ m \in Nat /\ wire'[m] = wire[n]
    BY <1>1, <1>4, <2>1, SMTT(30)
  <2>3. /\ q \in 1 .. Len(sent) /\ b \in 0 .. FrameLen(sent[q])
        /\ far <= Len(wire)
        /\ \A j \in n .. far : wire[j] = <<q, b + j - n>>
        /\ IF far = Len(wire) THEN q = Len(sent) ELSE wire[far + 1] = <<q + 1, 0>>
    BY <2>2 DEF WireWhole
  <2>4. FrameLen(sent[q]) \in Nat /\ b \in Nat /\ q \in Nat
    <3>1. sent[q] \in Kinds
      BY <2>3
    <3>2. FrameLen(sent[q]) \in Nat
      BY <3>1, KindFacts
    <3>3. QED
      BY <1>1, <2>3, <3>2, SMTT(30)
  <2>5. wire'[m][1] = q /\ wire'[m][2] = b
    BY <2>2
  <2> HIDE DEF q, b
  <2> DEFINE last == m + FrameLen(sent[q]) - b
  <2>6. last = far - k /\ far \in Nat /\ last \in Nat /\ last >= m /\ last <= Len(wire')
    <3>1. n = m + k /\ far = n + FrameLen(sent[q]) - b /\ last = m + FrameLen(sent[q]) - b
      OBVIOUS
    <3> HIDE DEF n, far, last
    <3>2. b <= FrameLen(sent[q]) /\ far <= Len(wire) /\ Len(wire') = Len(wire) - k
      BY <1>4, <2>3, <2>4
    <3> DEFINE F == FrameLen(sent[q])
    <3>3. F \in Nat /\ b \in Nat /\ m \in Nat /\ k \in Nat /\ b <= F /\ n = m + k
          /\ far = n + F - b /\ last = m + F - b
      BY <2>2, <2>4, <3>1, <3>2
    <3> HIDE DEF F
    <3>4. n \in Nat /\ last = far - k /\ far \in Nat /\ last \in Nat /\ last >= m
      BY <3>3
    <3>5. last <= Len(wire')
      BY <1>1, <3>2, <3>3, <3>4
    <3>6. QED
      BY <3>4, <3>5
  <2>7. ASSUME NEW j \in m .. last PROVE wire'[j] = <<q, b + j - m>>
    <3>1. /\ j \in 1 .. Len(wire) - k /\ j + k \in n .. far
          /\ b + (j + k) - n = b + j - m
      <4>1. n = m + k
        OBVIOUS
      <4> HIDE DEF n, far, last
      <4>2. QED
        BY <1>1, <1>4, <2>2, <2>4, <2>6, <4>1
    <3>2. wire'[j] = wire[j + k] /\ wire[j + k] = <<q, b + (j + k) - n>>
      BY <3>1, <1>4, <2>3
    <3>3. QED
      BY <3>1, <3>2
  <2>8. IF last = Len(wire') THEN q = Len(sent) ELSE wire'[last + 1] = <<q + 1, 0>>
    <3>1. CASE last = Len(wire')
      BY <1>1, <1>4, <2>3, <2>6, <3>1
    <3>2. CASE last # Len(wire')
      <4>1. /\ last + 1 \in 1 .. Len(wire) - k /\ (last + 1) + k = far + 1
            /\ far # Len(wire)
        <5> HIDE DEF n, far, last
        <5>1. last + 1 \in 1 .. Len(wire) - k
          <6> DEFINE w == Len(wire')
          <6>1. w \in Nat /\ last \in Nat /\ last <= w /\ last # w /\ w = Len(wire) - k
            <7>1. Len(wire') \in Nat /\ Len(wire') = Len(wire) - k
              BY <1>4
            <7>2. last \in Nat /\ last <= Len(wire') /\ last # Len(wire')
              BY <2>6, <3>2
            <7>3. QED
              BY <7>1, <7>2
          <6> HIDE DEF w
          <6>2. last + 1 \in 1 .. w
            BY <6>1
          <6>3. QED
            BY <6>1, <6>2
        <5>2. (last + 1) + k = far + 1 /\ far # Len(wire)
          BY <1>1, <1>4, <2>2, <2>6, <3>2
        <5>3. QED
          BY <5>1, <5>2
      <4>2. QED
        BY <1>4, <2>3, <3>2, <4>1
    <3>3. QED
      BY <3>1, <3>2
  <2>9. QED
    BY <2>3, <2>5, <2>6, <2>7, <2>8
<1>6. InFrame(p, i + k)'
  <2>1. p \in 1 .. Len(sent) /\ i + k \in 1 .. FrameLen(sent[p]) + 1
    BY <1>1 DEF AtByte
  <2>2. CASE i + k <= FrameLen(sent[p])
    <3>1. 1 \in 1 .. Len(wire) - k /\ 1 + k \in 1 .. end /\ i + (1 + k) - 1 = i + k
      BY <1>1, <1>2, <2>2
    <3>2. wire'[1] = <<p, i + k>> /\ wire' # <<>>
      <4>1. wire[1 + k] = <<p, i + (1 + k) - 1>>
        BY <1>2, <3>1
      <4>2. wire'[1] = wire[1 + k] /\ Len(wire') # 0
        BY <1>1, <1>4, <3>1
      <4>3. QED
        BY <3>1, <4>1, <4>2
    <3>3. QED
      BY <2>1, <2>2, <3>2 DEF InFrame, FrameLen, PayloadLen, HdrLen
  <2>3. CASE i + k > FrameLen(sent[p])
    <3>1. k = end
      BY <1>1, <1>2, <2>3
    <3>2. CASE end = Len(wire)
      BY <1>1, <1>2, <1>4, <2>1, <2>3, <3>1, <3>2, SMTT(30)
         DEF InFrame, Between, FrameLen, PayloadLen, HdrLen
    <3>3. CASE end # Len(wire)
      <4>1. 1 \in 1 .. Len(wire) - k /\ end + 1 \in 1 .. Len(wire) /\ 1 + k = end + 1
        BY <1>1, <1>2, <3>1, <3>3, SMTT(30)
      <4>2. wire'[1] = <<p + 1, 0>> /\ wire' # <<>>
        <5>1. wire'[1] = wire[1 + k] /\ Len(wire') # 0
          BY <1>1, <1>4, <4>1
        <5>2. QED
          BY <1>2, <3>3, <4>1, <5>1
      <4>3. p # Len(sent)
        <5>1. wire[end + 1][1] \in 1 .. Len(sent)
          BY <4>1 DEF WireWhole
        <5>2. wire[end + 1][1] = p + 1
          BY <1>2, <3>3
        <5>3. QED
          BY <1>1, <5>1, <5>2
      <4>4. QED
        BY <1>1, <2>1, <2>3, <4>2, <4>3, SMTT(30) DEF InFrame, Between, FrameLen, PayloadLen, HdrLen
    <3>4. QED
      BY <3>2, <3>3
  <2>4. QED
    BY <1>1, <2>2, <2>3
<1>7. QED
  BY <1>3, <1>5, <1>6

\* A frame is the packet's bytes, from position 0 to its last.
LEMMA FrameElements ==
    ASSUME NEW p \in Nat, NEW kind \in Kinds
    PROVE  /\ Body(p, kind) \in Seq(Nat \X Nat) /\ Len(Body(p, kind)) = FrameLen(kind)
           /\ Frame(p, kind) \in Seq(Nat \X Nat) /\ Len(Frame(p, kind)) = FrameLen(kind) + 1
           /\ \A j \in 1 .. FrameLen(kind) + 1 : Frame(p, kind)[j] = <<p, j - 1>>
<1> DEFINE n == FrameLen(kind)
           type == <<<<p, 0>>>>
           body == Body(p, kind)
<1>1. n \in Nat
  BY KindFacts
<1> HIDE DEF n
<1>2. body \in Seq(Nat \X Nat) /\ Len(body) = n /\ \A i \in 1 .. n : body[i] = <<p, i>>
  <2>1. body = [i \in 1 .. n |-> <<p, i>>]
    BY DEF Body, n
  <2> HIDE DEF body
  <2>2. \A i \in 1 .. n : <<p, i>> \in Nat \X Nat
    BY <1>1
  <2>3. body \in [1 .. n -> Nat \X Nat]
    BY <2>1, <2>2
  <2>4. QED
    BY <1>1, <2>1, <2>3
<1> HIDE DEF body
<1>3. type \in Seq(Nat \X Nat) /\ Len(type) = 1 /\ type[1] = <<p, 0>>
  OBVIOUS
<1> HIDE DEF type
<1>4. /\ type \o body \in Seq(Nat \X Nat) /\ Len(type \o body) = Len(type) + Len(body)
      /\ \A j \in 1 .. Len(type) + Len(body) :
            (type \o body)[j] = IF j <= Len(type) THEN type[j] ELSE body[j - Len(type)]
  BY <1>2, <1>3, ConcatProperties
<1>5. ASSUME NEW j \in 1 .. n + 1 PROVE (type \o body)[j] = <<p, j - 1>>
  <2>1. CASE j = 1
    BY <1>1, <1>2, <1>3, <1>4, <2>1
  <2>2. CASE j # 1
    <3>1. j - 1 \in 1 .. n /\ j \in 1 .. Len(type) + Len(body) /\ ~ (j <= Len(type))
      BY <1>1, <1>2, <1>3, <2>2
    <3>2. QED
      BY <1>2, <1>3, <1>4, <3>1
  <2>3. QED
    BY <2>1, <2>2
<1>6. Frame(p, kind) = type \o body
  BY DEF Frame, type, body
<1>7. Len(type \o body) = n + 1
  BY <1>1, <1>2, <1>3, <1>4
<1>8. QED
  BY <1>2, <1>4, <1>5, <1>6, <1>7 DEF body, n

\* A packet more on the wire changes nothing for the receiver.
LEMMA EmitBytes ==
    ASSUME sent \in Seq(Kinds), WireWhole, NEW kind \in Kinds,
           sent' = Append(sent, kind), wire' = wire \o Frame(Len(sent) + 1, kind)
    PROVE  /\ WireWhole'
           /\ \A p : Between(p) => Between(p)'
           /\ \A p, i : InFrame(p, i) => InFrame(p, i)'
<1> DEFINE new == Len(sent) + 1
           frame == Frame(new, kind)
           n == FrameLen(kind)
           L == Len(wire)
<1>1. L \in Nat /\ new \in Nat /\ n \in Nat /\ wire \in Seq(Nat \X Nat)
  BY KindFacts DEF WireWhole
<1>2. /\ frame \in Seq(Nat \X Nat) /\ Len(frame) = n + 1
      /\ \A j \in 1 .. n + 1 : frame[j] = <<new, j - 1>>
  BY <1>1, FrameElements
<1>3. wire' = wire \o frame
  OBVIOUS
<1> HIDE DEF frame, n
<1>4. /\ wire' \in Seq(Nat \X Nat) /\ Len(wire') = L + n + 1
      /\ \A j \in 1 .. L + n + 1 : wire'[j] = IF j <= L THEN wire[j] ELSE <<new, j - L - 1>>
  <2>1. /\ wire' \in Seq(Nat \X Nat) /\ Len(wire') = L + Len(frame)
        /\ \A j \in 1 .. L + Len(frame) :
              wire'[j] = IF j <= L THEN wire[j] ELSE frame[j - L]
    <3>1. /\ wire \o frame \in Seq(Nat \X Nat) /\ Len(wire \o frame) = Len(wire) + Len(frame)
          /\ \A j \in 1 .. Len(wire) + Len(frame) : (wire \o frame)[j] =
                IF j <= Len(wire) THEN wire[j] ELSE frame[j - Len(wire)]
      BY <1>1, <1>2, ConcatProperties
    <3>2. QED
      BY <1>3, <3>1
  <2>2. L + Len(frame) = L + n + 1
    BY <1>1, <1>2
  <2>3. ASSUME NEW j \in 1 .. L + n + 1, ~ (j <= L)
        PROVE  wire'[j] = <<new, j - L - 1>>
    <3>1. j - L \in 1 .. n + 1
      BY <1>1, <2>3
    <3>2. QED
      BY <1>2, <2>1, <2>2, <2>3, <3>1
  <2>4. QED
    BY <2>1, <2>2, <2>3
<1>5. /\ sent' \in Seq(Kinds) /\ Len(sent') = new /\ sent'[new] = kind
      /\ \A p \in 1 .. Len(sent) : sent'[p] = sent[p]
  BY SentGrows
<1> HIDE DEF L
<1>6. \A j \in 1 .. L : wire'[j] = wire[j]
  <2>1. \A j \in 1 .. L : j \in 1 .. L + n + 1 /\ j <= L
    BY <1>1
  <2>2. QED
    BY <1>4, <2>1
<1>7. wire'[L + 1] = <<new, 0>> /\ wire' # <<>>
  <2>1. L + 1 \in 1 .. L + n + 1 /\ ~ (L + 1 <= L) /\ L + 1 - L - 1 = 0
    BY <1>1
  <2>2. wire'[L + 1] = <<new, 0>>
    <3> DEFINE j == L + 1
    <3>1. j \in 1 .. L + n + 1 /\ ~ (j <= L)
      BY <2>1
    <3> HIDE DEF j
    <3>2. wire'[j] = <<new, j - L - 1>>
      BY <1>4, <3>1
    <3>3. j = L + 1
      BY DEF j
    <3>4. j - L - 1 = 0
      BY <1>1, <3>3
    <3>5. wire'[j] = <<new, 0>>
      BY <3>2, <3>4
    <3>6. QED
      BY <3>3, <3>5
  <2>3. Len(wire') # 0
    BY <1>1, <1>4
  <2>4. QED
    BY <2>1, <2>2, <2>3
<1>8. WireWhole'
  <2> DEFINE F(q) == FrameLen(sent'[q])
  <2>1. \A q : FrameLen(sent[q])' = F(q)
    BY DEF FrameLen, PayloadLen, HdrLen
  <2>2. SUFFICES ASSUME NEW m \in 1 .. Len(wire')
                 PROVE  /\ wire'[m][1] \in 1 .. new
                        /\ wire'[m][2] \in 0 .. F(wire'[m][1])
                        /\ LET last == m + F(wire'[m][1]) - wire'[m][2] IN
                           /\ last <= Len(wire')
                           /\ \A j \in m .. last :
                                 wire'[j] = <<wire'[m][1], wire'[m][2] + j - m>>
                           /\ IF last = Len(wire') THEN wire'[m][1] = new
                              ELSE wire'[last + 1] = <<wire'[m][1] + 1, 0>>
    BY <1>4, <1>5, <2>1 DEF WireWhole, FrameLen, PayloadLen, HdrLen
  <2>3. CASE m \in 1 .. L
    <3> DEFINE q == wire[m][1]
               b == wire[m][2]
               last == m + F(q) - b
    <3>1. wire'[m] = wire[m]
      BY <1>6, <2>3
    <3>2. /\ q \in 1 .. Len(sent) /\ b \in 0 .. FrameLen(sent[q])
          /\ LET end == m + FrameLen(sent[q]) - b IN
             /\ end <= L
             /\ \A j \in m .. end : wire[j] = <<q, b + j - m>>
             /\ IF end = L THEN q = Len(sent) ELSE wire[end + 1] = <<q + 1, 0>>
      BY <2>3 DEF WireWhole, L
    <3>3. F(q) = FrameLen(sent[q])
      BY <1>5, <3>2
    <3>4. F(q) \in Nat /\ b \in Nat /\ b <= F(q) /\ m \in Nat
      <4>1. sent[q] \in Kinds
        BY <3>2
      <4>2. FrameLen(sent[q]) \in Nat
        BY <4>1, KindFacts
      <4>3. QED
        BY <1>1, <2>3, <3>2, <3>3, <4>2
    <3>5. /\ last <= L
          /\ \A j \in m .. last : wire[j] = <<q, b + j - m>>
          /\ IF last = L THEN q = Len(sent) ELSE wire[last + 1] = <<q + 1, 0>>
      BY <3>2, <3>3
    <3>6. q \in 1 .. new
      BY <1>1, <3>2
    <3> HIDE DEF q, b, F
    <3>7. last \in Nat /\ last <= Len(wire') /\ last # Len(wire') /\ last >= m
      BY <1>1, <1>4, <3>4, <3>5, SMTT(30)
    <3> HIDE DEF last
    <3>8. ASSUME NEW j \in m .. last PROVE wire'[j] = <<q, b + j - m>>
      <4>1. j \in 1 .. L
        BY <1>1, <2>3, <3>5, <3>7
      <4>2. QED
        BY <1>6, <3>5, <4>1
    <3>9. wire'[last + 1] = <<q + 1, 0>>
      <4>1. CASE last = L
        BY <1>7, <3>5, <4>1
      <4>2. CASE last # L
        <5>1. last + 1 \in 1 .. L
          BY <1>1, <3>5, <3>7, <4>2
        <5>2. QED
          BY <1>6, <3>5, <4>2, <5>1
      <4>3. QED
        BY <4>1, <4>2
    <3>10. QED
      <4>1. b \in 0 .. F(q)
        BY <3>4
      <4>2. wire'[m][1] = q /\ wire'[m][2] = b
        BY <3>1 DEF q, b
      <4>3. last = m + F(q) - b
        BY DEF last
      <4>4. QED
        BY <3>6, <3>7, <3>8, <3>9, <4>1, <4>2, <4>3
  <2>4. CASE m \notin 1 .. L
    <3>1. m \in L + 1 .. L + n + 1 /\ m \in Nat
      BY <1>1, <1>4, <2>4
    <3>2. wire'[m] = <<new, m - L - 1>>
      <4>1. m \in 1 .. L + n + 1 /\ ~ (m <= L)
        BY <1>1, <3>1
      <4>2. QED
        BY <1>4, <4>1
    <3>3. F(new) = n
      BY <1>5 DEF n
    <3> HIDE DEF F
    <3>4. m - L - 1 \in 0 .. n /\ m + n - (m - L - 1) = Len(wire')
      BY <1>1, <1>4, <3>1
    <3>5. ASSUME NEW j \in m .. Len(wire')
          PROVE  wire'[j] = <<new, (m - L - 1) + j - m>>
      <4>1. j \in 1 .. L + n + 1 /\ ~ (j <= L) /\ (m - L - 1) + j - m = j - L - 1
        BY <1>1, <1>4, <3>1
      <4>2. QED
        BY <1>4, <4>1
    <3>6. new \in 1 .. new
      BY <1>1
    <3>7. Len(wire') <= Len(wire')
      BY <1>1, <1>4
    <3>8. QED
      <4>1. wire'[m][1] = new /\ wire'[m][2] = m - L - 1
        BY <3>2
      <4> DEFINE b == m - L - 1
      <4>2. b \in 0 .. n /\ m + n - b = Len(wire')
            /\ \A j \in m .. Len(wire') : wire'[j] = <<new, b + j - m>>
        BY <3>4, <3>5
      <4>3. wire'[m][2] = b
        BY <4>1
      <4> HIDE DEF b
      <4>4. QED
        BY <3>3, <3>6, <3>7, <4>1, <4>2, <4>3
  <2>5. QED
    BY <2>3, <2>4
<1>9. ASSUME NEW p, Between(p) PROVE Between(p)'
  <2>1. CASE p = Len(sent)
    <3>1. L = 0 /\ p + 1 = new /\ p \in 0 .. new /\ p # new
      BY <1>1, <1>9, <2>1 DEF Between, L
    <3>2. wire'[1] = <<p + 1, 0>> /\ wire' # <<>>
      BY <1>7, <3>1
    <3>3. QED
      BY <1>5, <3>1, <3>2 DEF Between
  <2>2. CASE p # Len(sent)
    <3>1. p \in 0 .. new /\ p # new /\ wire # <<>> /\ wire[1] = <<p + 1, 0>>
      BY <1>1, <1>9, <2>2 DEF Between
    <3>2. wire'[1] = wire[1]
      BY <1>1, <1>6, <3>1 DEF L
    <3>3. QED
      BY <1>5, <1>7, <3>1, <3>2 DEF Between
  <2>3. QED
    BY <2>1, <2>2
<1>10. ASSUME NEW p, NEW i, InFrame(p, i) PROVE InFrame(p, i)'
  <2>1. p \in 1 .. Len(sent) /\ p \in 1 .. new /\ i \in 1 .. FrameLen(sent[p]) + 1
    BY <1>1, <1>10 DEF InFrame
  <2>2. FrameLen(sent[p])' = FrameLen(sent[p])
    BY <1>5, <2>1 DEF FrameLen, PayloadLen, HdrLen
  <2>3. CASE i <= FrameLen(sent[p])
    <3>1. wire # <<>> /\ wire[1] = <<p, i>>
      BY <1>10, <2>3 DEF InFrame
    <3>2. wire'[1] = wire[1]
      BY <1>1, <1>6, <3>1 DEF L
    <3>3. QED
      BY <1>5, <1>7, <2>1, <2>2, <2>3, <3>1, <3>2 DEF InFrame
  <2>4. CASE ~ (i <= FrameLen(sent[p]))
    <3>1. Between(p)'
      BY <1>9, <1>10, <2>4 DEF InFrame
    <3>2. QED
      BY <1>5, <2>1, <2>2, <2>4, <3>1 DEF InFrame
  <2>5. QED
    BY <2>3, <2>4
<1>11. QED
  BY <1>8, <1>9, <1>10

-----------------------------------------------------------------------------
(* What a step keeps of the receiver *)

\* The packets sent keep their kinds.
SentKept ==
    /\ Len(sent) \in Nat /\ Len(sent') \in Nat /\ Len(sent) <= Len(sent')
    /\ \A q \in 1 .. Len(sent) : sent'[q] = sent[q]

LEMMA MisfitKept ==
    ASSUME SentKept, NEW p \in 0 .. Len(sent), NEW r \in p .. Len(sent'), NEW pool,
           Misfit(p, pool)
    PROVE  Misfit(r, pool)'
<1>1. PICK o \in 1 .. p : Oversize(sent[o]) /\ PoolOf(sent[o]) = pool
  BY DEF Misfit
<1>2. o \in 1 .. Len(sent) /\ o \in 1 .. r
  BY DEF SentKept
<1>3. sent'[o] = sent[o]
  BY <1>2 DEF SentKept
<1>4. Oversize(sent'[o]) /\ PoolOf(sent'[o]) = pool
  BY <1>1, <1>3
<1>5. QED
  BY <1>2, <1>4 DEF Misfit, Oversize, PoolOf, FrameLen, PayloadLen, HdrLen, IsAcl, IsMeta

LEMMA OverIsSent ==
    ASSUME sent \in Seq(Kinds), NEW p \in 0 .. Len(sent)
    PROVE  /\ Over(p) \subseteq 1 .. p /\ 1 .. p \subseteq 1 .. Len(sent)
           /\ \A q \in Over(p) : q \in Nat /\ sent[q] \in Kinds
<1>1. p \in Nat /\ Len(sent) \in Nat
  OBVIOUS
<1>2. Over(p) = 1 .. p \/ Over(p) = 1 .. p - 1
  BY DEF Over
<1>3. 1 .. p - 1 \subseteq 1 .. p /\ 1 .. p \subseteq 1 .. Len(sent)
  BY <1>1
<1>4. \A q \in 1 .. p : q \in Nat /\ sent[q] \in Kinds
  BY <1>1
<1>5. Over(p) \subseteq 1 .. p
  BY <1>2, <1>3
<1>6. QED
  BY <1>3, <1>4, <1>5

LEMMA HistoryKept ==
    ASSUME sent \in Seq(Kinds), SentKept, NEW p \in 0 .. Len(sent), History(p),
           NEW r, Over(r)' = Over(p), UNCHANGED <<received, lost>>
    PROVE  History(r)'
<1>1. \A q \in Over(p) : q \in 0 .. Len(sent) /\ q \in q .. Len(sent') /\ sent'[q] = sent[q]
  BY OverIsSent DEF SentKept
<1>2. lost \subseteq Over(p) /\ \A q \in Over(p) : Ended(q)
  BY DEF History
<1>3. \A q \in Over(p) : Ended(q)'
  BY <1>2 DEF Ended, ReceivedPkts
<1>4. ASSUME NEW i \in 1 .. Len(received)
      PROVE  LET q == received[i][1][1] IN
             /\ q \in Over(p) \ lost
             /\ received[i] = Body(q, sent'[q])
             /\ i > 1 => received[i - 1][1][1] < q
  BY <1>1 DEF History
<1>5. ASSUME NEW q \in lost
      PROVE  sent'[q] = "adv" \/ \E pool \in RxPools : Misfit(q, pool)'
  <2>1. sent[q] = "adv" \/ \E pool \in RxPools : Misfit(q, pool)
    BY DEF History
  <2>2. q \in 0 .. Len(sent) /\ q \in q .. Len(sent') /\ sent'[q] = sent[q]
    BY <1>1, <1>2
  <2>3. QED
    BY <2>1, <2>2, MisfitKept
<1>6. received \in Seq(Seq(Nat \X Nat))
  BY DEF History
<1>7. QED
  BY <1>2, <1>3, <1>4, <1>5, <1>6 DEF History, Body, FrameLen, PayloadLen, HdrLen

\* The packet that was being read is discarded.
LEMMA HistoryLoses ==
    ASSUME sent \in Seq(Kinds), UNCHANGED sent, NEW p \in 1 .. Len(sent), History(p),
           rx.type # "none", rx'.type = "none",
           sent[p] = "adv" \/ \E pool \in RxPools : Misfit(p, pool),
           received' = received, lost' = lost \cup {p}
    PROVE  History(p)'
<1>1. p \in Nat /\ Len(sent) \in Nat /\ p \in 0 .. Len(sent)
  OBVIOUS
<1>2. Over(p) = 1 .. p - 1 /\ Over(p)' = 1 .. p /\ 1 .. p = Over(p) \cup {p} /\ p \notin Over(p)
  BY <1>1 DEF Over
<1>3. lost' \subseteq Over(p)'
  BY <1>2 DEF History
<1>4. ASSUME NEW q \in Over(p)' PROVE Ended(q)'
  <2>1. CASE q = p
    BY <2>1 DEF Ended
  <2>2. CASE q \in Over(p)
    <3>1. Ended(q)
      BY <2>2 DEF History
    <3>2. QED
      BY <3>1 DEF Ended, ReceivedPkts
  <2>3. QED
    BY <1>2, <2>1, <2>2
<1>5. ASSUME NEW i \in 1 .. Len(received)
      PROVE  LET q == received[i][1][1] IN
             /\ q \in Over(p)' \ lost'
             /\ received[i] = Body(q, sent[q])
             /\ i > 1 => received[i - 1][1][1] < q
  BY <1>2 DEF History
<1>6. ASSUME NEW q \in lost'
      PROVE  sent[q] = "adv" \/ \E pool \in RxPools : Misfit(q, pool)
  BY DEF History
<1>7. received \in Seq(Seq(Nat \X Nat))
  BY DEF History
<1>8. QED
  BY <1>3, <1>4, <1>5, <1>6, <1>7
     DEF History, Body, Misfit, Oversize, FrameLen, PayloadLen, HdrLen

\* The packet that was being read is given to bt_recv.
LEMMA HistoryDelivers ==
    ASSUME sent \in Seq(Kinds), UNCHANGED sent, NEW p \in 1 .. Len(sent), History(p),
           rx.type # "none", rx'.type = "none",
           received' = Append(received, Body(p, sent[p])), lost' = lost
    PROVE  History(p)'
<1> DEFINE body == Body(p, sent[p])
           n == Len(received)
<1>1. p \in Nat /\ Len(sent) \in Nat /\ sent[p] \in Kinds
  OBVIOUS
<1>2. Over(p) = 1 .. p - 1 /\ Over(p)' = 1 .. p /\ 1 .. p = Over(p) \cup {p} /\ p \notin Over(p)
  BY <1>1 DEF Over
<1>3. body \in Seq(Nat \X Nat) /\ body[1][1] = p
  <2>1. FrameLen(sent[p]) \in Nat /\ FrameLen(sent[p]) >= 1
    BY <1>1, KindFacts
  <2>2. body[1] = <<p, 1>>
    BY <2>1 DEF Body
  <2>3. QED
    <3>1. body \in Seq(Nat \X Nat)
      BY <1>1, FrameElements
    <3>2. body[1][1] = p
      BY <2>2
    <3>3. QED
      BY <3>1, <3>2
<1>4. received \in Seq(Seq(Nat \X Nat)) /\ n \in Nat
  BY DEF History
<1> HIDE DEF body
<1>5. received' = Append(received, body)
  BY DEF body
<1>6. /\ received' \in Seq(Seq(Nat \X Nat)) /\ Len(received') = n + 1
      /\ \A i \in 1 .. n : received'[i] = received[i]
      /\ received'[n + 1] = body
  BY <1>3, <1>4, <1>5, AppendProperties
<1>7. lost' \subseteq Over(p)'
  BY <1>2 DEF History
<1> HIDE DEF n
<1>8. ASSUME NEW q \in Over(p)' PROVE Ended(q)'
  <2>1. DOMAIN received' = 1 .. n + 1 /\ DOMAIN received = 1 .. n
    BY <1>4, <1>6 DEF n
  <2>2. CASE q = p
    <3>1. n + 1 \in DOMAIN received' /\ received'[n + 1][1][1] = p
      BY <1>3, <1>4, <1>6, <2>1
    <3>2. QED
      BY <2>2, <3>1 DEF Ended, ReceivedPkts
  <2>3. CASE q \in Over(p)
    <3>1. Ended(q)
      BY <2>3 DEF History
    <3>2. CASE q \in lost
      BY <3>2 DEF Ended
    <3>3. CASE q \notin lost
      <4>1. PICK i \in 1 .. n : q = received[i][1][1]
        BY <2>1, <3>1, <3>3 DEF Ended, ReceivedPkts
      <4>2. received'[i][1][1] = q /\ i \in 1 .. n + 1
        BY <1>4, <1>6, <4>1
      <4>3. QED
        BY <2>1, <4>2 DEF Ended, ReceivedPkts
    <3>4. QED
      BY <3>2, <3>3
  <2>4. QED
    BY <1>2, <2>2, <2>3
<1>9. ASSUME NEW i \in 1 .. n + 1
      PROVE  LET q == received'[i][1][1] IN
             /\ q \in Over(p)' \ lost'
             /\ received'[i] = Body(q, sent[q])
             /\ i > 1 => received'[i - 1][1][1] < q
  <2>1. \A j \in 1 .. n :
           /\ received[j][1][1] \in Over(p) \ lost
           /\ received[j] = Body(received[j][1][1], sent[received[j][1][1]])
           /\ j > 1 => received[j - 1][1][1] < received[j][1][1]
    BY DEF History, n
  <2>2. CASE i <= n
    <3>1. i \in 1 .. n /\ (i > 1 => i - 1 \in 1 .. n)
      BY <1>4, <2>2
    <3>2. received'[i] = received[i] /\ (i > 1 => received'[i - 1] = received[i - 1])
      BY <1>6, <3>1
    <3>3. received[i][1][1] \in Over(p)'
      BY <1>2, <2>1, <3>1
    <3>4. QED
      BY <2>1, <3>1, <3>2, <3>3
  <2>3. CASE i > n
    <3>1. i = n + 1 /\ (i > 1 => i - 1 \in 1 .. n)
      BY <1>4, <2>3
    <3>2. received'[i] = body /\ (i > 1 => received'[i - 1] = received[i - 1])
      BY <1>6, <3>1
    <3>3. i > 1 => received[i - 1][1][1] < p
      <4>1. i > 1 => received[i - 1][1][1] \in 1 .. p - 1
        BY <1>2, <2>1, <3>1
      <4>2. QED
        BY <1>1, <4>1
    <3>4. p \in Over(p)' /\ p \notin lost'
      BY <1>2 DEF History
    <3>5. received'[i] = Body(p, sent[p])
      BY <3>2 DEF body
    <3>6. received'[i][1][1] = p
      BY <1>3, <3>2
    <3>7. QED
      BY <3>2, <3>3, <3>4, <3>5, <3>6
  <2>4. i <= n \/ i > n
    BY <1>4
  <2>5. QED
    BY <2>2, <2>3, <2>4
<1>10. \A q \in lost' : sent[q] = "adv" \/ \E pool \in RxPools : Misfit(q, pool)
  BY DEF History
<1>11. \A i \in 1 .. Len(received') :
          LET q == received'[i][1][1] IN
          /\ q \in Over(p)' \ lost'
          /\ received'[i] = Body(q, sent[q])
          /\ i > 1 => received'[i - 1][1][1] < q
  BY <1>6, <1>9
<1>12. \A q : Body(q, sent[q])' = Body(q, sent[q])
  BY DEF Body, FrameLen, PayloadLen, HdrLen
<1>13. \A q, pool : Misfit(q, pool)' = Misfit(q, pool)
  BY DEF Misfit, Oversize, FrameLen, PayloadLen, HdrLen
<1>14. \A q \in lost' : sent'[q] = "adv" \/ \E pool \in RxPools : Misfit(q, pool)'
  BY <1>10, <1>13
<1>15. QED
  BY <1>6, <1>7, <1>8, <1>11, <1>12, <1>14 DEF History

\* The buffer stays as it is, with the packet it belongs to.
LEMMA BufferKept ==
    ASSUME SentKept, NEW p \in 0 .. Len(sent), BufferOf(p), NEW r \in p .. Len(sent'),
           rx.haveHdr => p \in 1 .. Len(sent) /\ r = p,
           rxBuf' = rxBuf, rx'.haveHdr = rx.haveHdr
    PROVE  BufferOf(r)'
<1>1. /\ rxBuf \in [pool : RxPools \cup {"none"}, bytes : Seq(Nat \X Nat)]
      /\ rxBuf.pool = "none" => rxBuf = NoBuf
      /\ rxBuf # NoBuf => \/ rx.haveHdr /\ rxBuf.pool = PoolOf(sent[p])
                          \/ Misfit(p, rxBuf.pool)
      /\ ~ rx.haveHdr => rxBuf.bytes = <<>>
  BY DEF BufferOf
<1>2. Misfit(p, rxBuf.pool) => Misfit(r, rxBuf.pool)'
  BY MisfitKept
<1>3. rx.haveHdr => sent'[r] = sent[p]
  BY DEF SentKept
<1>4. rx.haveHdr /\ rxBuf.pool = PoolOf(sent[p]) => rxBuf.pool = PoolOf(sent'[r])
  BY <1>3
<1>5. rxBuf' # NoBuf => \/ rx'.haveHdr /\ rxBuf'.pool = PoolOf(sent'[r])
                        \/ Misfit(r, rxBuf.pool)'
  BY <1>1, <1>2, <1>4
<1>6. QED
  BY <1>1, <1>5 DEF BufferOf, PoolOf, Misfit, IsAcl

LEMMA QueueKept ==
    ASSUME SentKept, QueueFits, rxQueue' = rxQueue
    PROVE  QueueFits'
<1>1. /\ rxQueue \in Seq([pool : RxPools, pkt : 1 .. Len(sent)])
      /\ \A i \in 1 .. Len(rxQueue) :
            LET kind == sent[rxQueue[i].pkt] IN
            /\ PayloadLen(kind) <= Room[rxQueue[i].pool]
            /\ rxQueue[i].pool = PoolOf(kind) \/ Misfit(Len(sent), rxQueue[i].pool)
  BY DEF QueueFits
<1>2. [pool : RxPools, pkt : 1 .. Len(sent)] \subseteq [pool : RxPools, pkt : 1 .. Len(sent')]
  BY DEF SentKept
<1>3. rxQueue \in Seq([pool : RxPools, pkt : 1 .. Len(sent')])
  BY <1>1, <1>2, SeqMonotonic
<1>4. \A pool : Misfit(Len(sent), pool) => Misfit(Len(sent), pool)'
  <2>1. SUFFICES ASSUME NEW pool, Misfit(Len(sent), pool), NEW r, r = Len(sent')
                 PROVE  Misfit(r, pool)'
    BY DEF Misfit, Oversize, PoolOf, FrameLen, PayloadLen, HdrLen, IsAcl, IsMeta
  <2>2. Len(sent) \in 0 .. Len(sent) /\ r \in Len(sent) .. Len(sent')
    BY <2>1 DEF SentKept
  <2>3. QED
    BY <2>1, <2>2, MisfitKept
<1>5. ASSUME NEW i \in 1 .. Len(rxQueue)
      PROVE  LET kind == sent'[rxQueue[i].pkt] IN
             /\ PayloadLen(kind) <= Room[rxQueue[i].pool]
             /\ rxQueue[i].pool = PoolOf(kind) \/ Misfit(Len(sent), rxQueue[i].pool)'
  <2>1. rxQueue[i].pkt \in 1 .. Len(sent)
    <3> DEFINE S == [pool : RxPools, pkt : 1 .. Len(sent)]
    <3>1. rxQueue \in Seq(S)
      BY <1>1
    <3>2. \A b \in S : b.pkt \in 1 .. Len(sent)
      OBVIOUS
    <3> HIDE DEF S
    <3>3. rxQueue[i] \in S
      BY <3>1
    <3>4. QED
      BY <3>2, <3>3
  <2>2. sent'[rxQueue[i].pkt] = sent[rxQueue[i].pkt]
    BY <2>1 DEF SentKept
  <2>3. QED
    BY <1>1, <1>4, <2>2
<1>6. QED
  BY <1>3, <1>5 DEF QueueFits, Misfit, Oversize, PoolOf, FrameLen, PayloadLen, HdrLen, IsAcl, IsMeta

LEMMA QueueGrows ==
    ASSUME sent \in Seq(Kinds), UNCHANGED sent, QueueFits, NEW p \in 1 .. Len(sent),
           NEW pool \in RxPools, PayloadLen(sent[p]) <= Room[pool],
           pool = PoolOf(sent[p]) \/ Misfit(p, pool),
           rxQueue' = Append(rxQueue, [pool |-> pool, pkt |-> p])
    PROVE  QueueFits'
<1> DEFINE S == [pool : RxPools, pkt : 1 .. Len(sent)]
           e == [pool |-> pool, pkt |-> p]
<1>1. /\ rxQueue \in Seq(S)
      /\ \A i \in 1 .. Len(rxQueue) :
            LET kind == sent[rxQueue[i].pkt] IN
            /\ PayloadLen(kind) <= Room[rxQueue[i].pool]
            /\ rxQueue[i].pool = PoolOf(kind) \/ Misfit(Len(sent), rxQueue[i].pool)
  BY DEF QueueFits
<1>2. e \in S /\ e.pool = pool /\ e.pkt = p
  OBVIOUS
<1>3. Misfit(p, pool) => Misfit(Len(sent), pool)
  BY DEF Misfit
<1> HIDE DEF S, e
<1>4. rxQueue' = Append(rxQueue, e)
  BY DEF e
<1>5. /\ rxQueue' \in Seq(S) /\ Len(rxQueue') = Len(rxQueue) + 1
      /\ \A i \in 1 .. Len(rxQueue) : rxQueue'[i] = rxQueue[i]
      /\ rxQueue'[Len(rxQueue) + 1] = e
  BY <1>1, <1>2, <1>4, AppendProperties
<1>6. ASSUME NEW i \in 1 .. Len(rxQueue')
      PROVE  LET kind == sent[rxQueue'[i].pkt] IN
             /\ PayloadLen(kind) <= Room[rxQueue'[i].pool]
             /\ rxQueue'[i].pool = PoolOf(kind) \/ Misfit(Len(sent), rxQueue'[i].pool)
  <2>1. CASE i \in 1 .. Len(rxQueue)
    BY <1>1, <1>5, <2>1
  <2>2. CASE i = Len(rxQueue) + 1
    BY <1>2, <1>3, <1>5, <2>2
  <2>3. Len(rxQueue) \in Nat
    BY <1>1
  <2>4. i \in 1 .. Len(rxQueue) \/ i = Len(rxQueue) + 1
    BY <1>5, <2>3
  <2>5. QED
    BY <2>1, <2>2, <2>4
<1>7. \A any : Misfit(Len(sent), any)' = Misfit(Len(sent), any)
  BY DEF Misfit, Oversize, PoolOf, FrameLen, PayloadLen, HdrLen, IsAcl, IsMeta
<1>8. rxQueue' \in Seq([pool : RxPools, pkt : 1 .. Len(sent')])
  BY <1>5 DEF S
<1>9. QED
  BY <1>6, <1>7, <1>8 DEF QueueFits

LEMMA QueueShrinks ==
    ASSUME sent \in Seq(Kinds), UNCHANGED sent, QueueFits, rxQueue # <<>>,
           rxQueue' = Tail(rxQueue)
    PROVE  QueueFits'
<1> DEFINE S == [pool : RxPools, pkt : 1 .. Len(sent)]
<1>1. /\ rxQueue \in Seq(S)
      /\ \A i \in 1 .. Len(rxQueue) :
            LET kind == sent[rxQueue[i].pkt] IN
            /\ PayloadLen(kind) <= Room[rxQueue[i].pool]
            /\ rxQueue[i].pool = PoolOf(kind) \/ Misfit(Len(sent), rxQueue[i].pool)
  BY DEF QueueFits
<1> HIDE DEF S
<1>2. /\ rxQueue' \in Seq(S) /\ Len(rxQueue') = Len(rxQueue) - 1
      /\ \A i \in 1 .. Len(rxQueue') : rxQueue'[i] = rxQueue[i + 1]
  BY <1>1, HeadTailProperties
<1>3. \A i \in 1 .. Len(rxQueue') : i + 1 \in 1 .. Len(rxQueue)
  BY <1>1, <1>2
<1>4. \A i \in 1 .. Len(rxQueue') :
         LET kind == sent[rxQueue'[i].pkt] IN
         /\ PayloadLen(kind) <= Room[rxQueue'[i].pool]
         /\ rxQueue'[i].pool = PoolOf(kind) \/ Misfit(Len(sent), rxQueue'[i].pool)
  BY <1>1, <1>2, <1>3
<1>5. QED
  BY <1>2, <1>4
     DEF QueueFits, S, Misfit, Oversize, PoolOf, FrameLen, PayloadLen, HdrLen, IsAcl, IsMeta

-----------------------------------------------------------------------------
(* The steps of the receiver *)

LEMMA EmitKeepsRx ==
    ASSUME RxInv, NEW kind \in Kinds, Emit(kind)
    PROVE  RxInv'
<1>1. /\ sent \in Seq(Kinds) /\ WireWhole /\ RxTypes /\ QueueFits
      /\ sent' = Append(sent, kind) /\ wire' = wire \o Frame(Len(sent) + 1, kind)
      /\ UNCHANGED <<rx, rxBuf, rxQueue, received, lost>>
  BY DEF RxInv, Emit
<1>2. PICK p \in 0 .. Len(sent) : RxAt(p)
  BY DEF RxInv
<1>3. sent' \in Seq(Kinds) /\ SentKept /\ p \in 0 .. Len(sent') /\ p \in p .. Len(sent')
  BY <1>1, SentGrows DEF SentKept
<1>4. WireWhole' /\ (Between(p) => Between(p)') /\ \A i : InFrame(p, i) => InFrame(p, i)'
  BY <1>1, EmitBytes
<1>5. p # 0 => sent'[p] = sent[p] /\ p \in 1 .. Len(sent) /\ p \in 1 .. Len(sent')
  BY <1>3 DEF SentKept
<1>6. (IdleAt(p) \/ HeaderAt(p) \/ PayloadAt(p) \/ DiscardAt(p))'
  <2>1. CASE IdleAt(p)
    BY <1>1, <1>4, <2>1 DEF IdleAt
  <2>2. CASE HeaderAt(p)
    <3>1. p # 0
      BY <2>2 DEF HeaderAt
    <3>2. HeaderAt(p)'
      BY <1>1, <1>4, <1>5, <2>2, <3>1
         DEF HeaderAt, Piece, TypeOf, HdrLen, IsAcl, IsMeta
    <3>3. QED
      BY <3>2
  <2>3. CASE PayloadAt(p)
    <3>1. p # 0
      BY <2>3 DEF PayloadAt
    <3>2. FrameLen(sent'[p]) = FrameLen(sent[p]) /\ PayloadLen(sent'[p]) = PayloadLen(sent[p])
          /\ HdrLen(sent'[p]) = HdrLen(sent[p]) /\ TypeOf(sent'[p]) = TypeOf(sent[p])
      BY <1>5, <3>1
    <3>3. PayloadAt(p)'
      BY <1>1, <1>4, <1>5, <2>3, <3>1, <3>2
         DEF PayloadAt, Piece, TypeOf, FrameLen, PayloadLen, HdrLen, IsAcl, IsMeta
    <3>4. QED
      BY <3>3
  <2>4. CASE DiscardAt(p)
    <3>1. p # 0
      BY <2>4 DEF DiscardAt
    <3>2. FrameLen(sent'[p]) = FrameLen(sent[p]) /\ PayloadLen(sent'[p]) = PayloadLen(sent[p])
      BY <1>5, <3>1
    <3>3. DiscardAt(p)'
      BY <1>1, <1>4, <1>5, <2>4, <3>1, <3>2
         DEF DiscardAt, FrameLen, PayloadLen, HdrLen, IsAcl, IsMeta
    <3>4. QED
      BY <3>3
  <2>5. QED
    BY <1>2, <2>1, <2>2, <2>3, <2>4 DEF RxAt
<1>7. BufferOf(p)'
  <2>1. rx.haveHdr => p \in 1 .. Len(sent)
    BY <1>2 DEF RxAt, IdleAt, RxIdle, HeaderAt, DiscardAt, PayloadAt
  <2>2. QED
    BY <1>1, <1>2, <1>3, <2>1, BufferKept DEF RxAt
<1>8. History(p)'
  <2>1. Over(p)' = Over(p)
    BY <1>1 DEF Over
  <2>2. QED
    BY <1>1, <1>2, <1>3, <2>1, HistoryKept DEF RxAt
<1>9. QueueFits'
  BY <1>1, <1>3, QueueKept
<1>10. RxTypes'
  BY <1>1 DEF RxTypes, RxRecord
<1>11. QED
  BY <1>3, <1>4, <1>6, <1>7, <1>8, <1>9, <1>10 DEF RxInv, RxAt

LEMMA PieceGrows ==
    ASSUME NEW p \in Nat, NEW n \in Nat, NEW k \in Nat
    PROVE  /\ Piece(p, n) \in Seq(Nat \X Nat) /\ Len(Piece(p, n)) = n
           /\ Piece(p, n) \o [j \in 1 .. k |-> <<p, n + 1 + j - 1>>] = Piece(p, n + k)
<1> DEFINE a == Piece(p, n)
           b == [j \in 1 .. k |-> <<p, n + 1 + j - 1>>]
           c == Piece(p, n + k)
<1>1. a \in Seq(Nat \X Nat) /\ Len(a) = n /\ \A i \in 1 .. n : a[i] = <<p, i>>
  BY DEF Piece
<1>2. c \in Seq(Nat \X Nat) /\ Len(c) = n + k /\ \A i \in 1 .. n + k : c[i] = <<p, i>>
  BY DEF Piece
<1>3. b \in Seq(Nat \X Nat) /\ Len(b) = k /\ \A j \in 1 .. k : b[j] = <<p, n + j>>
  <2>1. \A j \in 1 .. k : n + 1 + j - 1 = n + j /\ n + j \in Nat
    OBVIOUS
  <2>2. b = [j \in 1 .. k |-> <<p, n + j>>]
    BY <2>1
  <2> HIDE DEF b
  <2>3. b \in [1 .. k -> Nat \X Nat]
    BY <2>1, <2>2
  <2>4. QED
    BY <2>2, <2>3
<1> HIDE DEF a, b, c
<1>4. /\ a \o b \in Seq(Nat \X Nat) /\ Len(a \o b) = n + k
      /\ \A i \in 1 .. n + k : (a \o b)[i] = IF i <= n THEN a[i] ELSE b[i - n]
  BY <1>1, <1>3, ConcatProperties
<1>5. ASSUME NEW i \in 1 .. n + k PROVE (a \o b)[i] = c[i]
  <2>1. CASE i <= n
    <3>1. i \in 1 .. n
      BY <2>1
    <3>2. QED
      BY <1>1, <1>2, <1>4, <2>1, <3>1
  <2>2. CASE i > n
    <3>1. i - n \in 1 .. k /\ n + (i - n) = i /\ ~ (i <= n)
      BY <2>2
    <3>2. QED
      BY <1>2, <1>3, <1>4, <3>1
  <2>3. i <= n \/ i > n
    OBVIOUS
  <2>4. QED
    BY <2>1, <2>2, <2>3
<1>6. a \o b = c
  BY <1>2, <1>4, <1>5, SeqEqual
<1>7. QED
  BY <1>1, <1>6 DEF a, b, c

LEMMA GetTypeKeepsRx ==
    ASSUME RxInv, GetType
    PROVE  RxInv'
<1>1. /\ sent \in Seq(Kinds) /\ WireWhole /\ RxTypes /\ QueueFits
      /\ UNCHANGED <<sent, rxBuf, rxQueue, received, lost>>
      /\ rx.type = "none" /\ ~ rx.haveHdr /\ rx.discard = 0
  BY DEF RxInv, GetType
<1>2. PICK p \in 0 .. Len(sent) : RxAt(p)
  BY DEF RxInv
<1>3. p \in Nat /\ Len(sent) \in Nat
  BY <1>1
<1>4. IdleAt(p)
  <2>1. ~ HeaderAt(p)
    BY <1>1 DEF HeaderAt, TypeOf
  <2>2. ~ PayloadAt(p) /\ ~ DiscardAt(p)
    BY <1>1 DEF PayloadAt, DiscardAt
  <2>3. QED
    BY <1>2, <2>1, <2>2 DEF RxAt
<1>5. 1 <= Len(wire) /\ wire' = SubSeq(wire, 1 + 1, Len(wire)) /\ wire # <<>>
  <2>1. Recv(1, 1)
    BY DEF GetType
  <2>2. 1 <= Len(wire) /\ wire' = SubSeq(wire, 1 + 1, Len(wire))
    BY <2>1 DEF Recv
  <2>3. QED
    BY <2>2
<1> DEFINE q == p + 1
<1>6. q \in 1 .. Len(sent) /\ wire[1] = <<q, 0>>
  BY <1>3, <1>4, <1>5 DEF IdleAt, Between
<1>7. sent[q] \in Kinds /\ q \in Nat /\ p \in 0 .. Len(sent) /\ q \in p .. Len(sent')
  BY <1>1, <1>3, <1>6
<1> HIDE DEF q
<1>8. FrameLen(sent[q]) \in Nat /\ HdrLen(sent[q]) \in 2 .. 4 /\ TypeOf(sent[q]) \in {"evt", "acl"}
  BY <1>7, KindFacts
<1>9. AtByte(q, 0)
  BY <1>5, <1>6, <1>8 DEF AtByte
<1>10. WireWhole' /\ InFrame(q, 0 + 1)'
  <2>1. 1 <= FrameLen(sent[q]) - 0 + 1
    BY <1>8
  <2>2. QED
    BY <1>1, <1>5, <1>9, <2>1, ReadBytes
<1>11. /\ rx' = [RxIdle EXCEPT !.type = TypeOf(sent[q]),
                               !.remaining = IF IsAcl(sent[q]) THEN 4 ELSE 2,
                               !.hdrLen = IF IsAcl(sent[q]) THEN 4 ELSE 2]
  <2>1. Head(wire) = <<q, 0>>
    BY <1>6
  <2>2. Head(wire)[1] = q /\ Head(wire)[2] = 0
    BY <2>1
  <2>3. QED
    BY <2>2 DEF GetType
<1>12. /\ rx'.type = TypeOf(sent[q]) /\ rx'.hdrLen = (IF IsAcl(sent[q]) THEN 4 ELSE 2)
       /\ rx'.remaining = rx'.hdrLen /\ rx'.haveHdr = FALSE /\ rx'.discard = 0
       /\ rx'.hdr = <<>> /\ rx'.discardable = FALSE
  BY <1>11 DEF RxIdle
<1>13. RxTypes'
  <2> DEFINE n == IF IsAcl(sent[q]) THEN 4 ELSE 2
             t == TypeOf(sent[q])
  <2>1. n \in Nat /\ t \in {"none", "evt", "acl"}
    BY <1>8
  <2>2. rx' = [RxIdle EXCEPT !.type = t, !.remaining = n, !.hdrLen = n]
    BY <1>11
  <2> HIDE DEF n, t
  <2>3. <<>> \in Seq(Nat \X Nat)
    OBVIOUS
  <2>4. QED
    BY <2>1, <2>2, <2>3 DEF RxTypes, RxRecord, RxIdle
<1>14. HeaderAt(q)'
  <2>1. Len(rx'.hdr) = 0 /\ rx'.hdr = Piece(q, 0)
    BY <1>12 DEF Piece
  <2>2. InFrame(q, Len(rx.hdr) + 1)'
    BY <1>10, <2>1
  <2>3. q \in 1 .. Len(sent') /\ sent'[q] = sent[q]
    BY <1>1, <1>6
  <2>4. rx'.remaining = rx'.hdrLen - 0
    BY <1>12
  <2>5. QED
    BY <1>8, <1>12, <2>1, <2>2, <2>3, <2>4
       DEF HeaderAt, Piece, TypeOf, HdrLen, IsAcl, IsMeta
<1>15. SentKept
  BY <1>1, <1>3 DEF SentKept
<1>16. BufferOf(q)'
  <2>1. BufferOf(p) /\ rx'.haveHdr = rx.haveHdr
    BY <1>1, <1>2, <1>12 DEF RxAt, RxTypes, RxRecord
  <2>2. QED
    BY <1>1, <1>7, <1>15, <2>1, BufferKept
<1>17. History(q)'
  <2>1. Over(p) = 1 .. p /\ Over(q)' = 1 .. p
    BY <1>1, <1>3, <1>8, <1>12 DEF Over, q
  <2>2. QED
    BY <1>1, <1>2, <1>15, <2>1, HistoryKept DEF RxAt
<1>18. QueueFits'
  BY <1>1, <1>15, QueueKept
<1>19. QED
  <2>1. q \in 0 .. Len(sent')
    BY <1>1, <1>3, <1>6
  <2>2. RxAt(q)'
    BY <1>14, <1>16, <1>17, <2>1 DEF RxAt
  <2>3. QED
    BY <1>1, <1>10, <1>13, <1>18, <2>1, <2>2 DEF RxInv

\* What a part of the header, of k bytes, makes of rx.
RxAfter(k) ==
    AfterHeader(WithSubevent(
        [rx EXCEPT !.remaining = @ - k, !.hdr = @ \o SubSeq(wire, 1, k)]))

\* r is rx once n bytes of the header of packet p are there.
ReadUpTo(r, p, n) ==
    LET kind == sent[p] IN
    /\ r \in RxRecord
    /\ r.type = TypeOf(kind) /\ r.discard = 0 /\ r.hdrLen = HdrLen(kind)
    /\ r.hdr = Piece(p, n) /\ r.hdr[1][1] = p
    /\ ~ r.haveHdr => n < HdrLen(kind) /\ r.remaining = HdrLen(kind) - n
    /\ r.haveHdr => /\ n = HdrLen(kind) /\ r.remaining = PayloadLen(kind)
                    /\ r.discardable => kind = "adv"

LEMMA HeaderRead ==
    ASSUME RxInv, NEW p \in 1 .. Len(sent), HeaderAt(p), NEW k \in 1 .. rx.remaining,
           k <= Len(wire), wire' = SubSeq(wire, k + 1, Len(wire)), UNCHANGED sent,
           NEW m, m = Len(rx.hdr), NEW n, n = m + k
    PROVE  /\ n \in Nat /\ n > 0 /\ n <= HdrLen(sent[p]) /\ InFrame(p, n + 1)' /\ WireWhole'
           /\ ReadUpTo(RxAfter(k), p, n)
<1> DEFINE kind == sent[p]
           r0 == [rx EXCEPT !.remaining = @ - k, !.hdr = @ \o SubSeq(wire, 1, k)]
           r1 == WithSubevent(r0)
           r == AfterHeader(r1)
<1>1. sent \in Seq(Kinds) /\ WireWhole /\ RxTypes
  BY DEF RxInv
<1>2. kind \in Kinds /\ p \in Nat
  BY <1>1
<1>3. /\ rx.type = TypeOf(kind) /\ ~ rx.haveHdr /\ rx.discard = 0 /\ InFrame(p, m + 1)
      /\ m < HdrLen(kind) /\ rx.hdr = Piece(p, m)
      /\ rx.hdrLen = IF m = 0 THEN (IF IsAcl(kind) THEN 4 ELSE 2) ELSE HdrLen(kind)
      /\ rx.remaining = rx.hdrLen - m
  BY DEF HeaderAt
<1>4. m \in Nat /\ k \in Nat /\ k > 0 /\ rx.remaining \in Nat /\ rx.hdrLen \in Nat /\ k <= rx.remaining
  BY <1>1 DEF RxTypes, RxRecord
<1> HIDE DEF kind
<1>5. /\ PayloadLen(kind) \in Nat /\ HdrLen(kind) \in 2 .. 4 /\ FrameLen(kind) \in Nat
      /\ FrameLen(kind) = HdrLen(kind) + PayloadLen(kind) /\ TypeOf(kind) \in {"evt", "acl"}
      /\ IsAcl(kind) => HdrLen(kind) = 4
      /\ ~ IsAcl(kind) => HdrLen(kind) = IF IsMeta(kind) THEN 3 ELSE 2
      /\ PktLen[kind] - (IF IsAcl(kind) THEN 0 ELSE HdrLen(kind) - 2) = PayloadLen(kind)
  BY <1>2, KindFacts
<1>6. n \in Nat /\ n > 0 /\ n <= HdrLen(kind)
  <2>1. rx.hdrLen <= HdrLen(kind)
    BY <1>3, <1>5, SMTT(30)
  <2>2. HdrLen(kind) \in Nat
    BY <1>5
  <2>3. rx.remaining = rx.hdrLen - m
    BY <1>3
  <2>4. m + k <= rx.hdrLen
    BY <1>4, <2>3
  <2>5. m + k \in Nat /\ m + k > 0
    BY <1>4
  <2>6. QED
    BY <1>4, <2>1, <2>2, <2>4, <2>5
<1>7. AtByte(p, m + 1)
  <2>1. m + 1 \in 0 .. FrameLen(kind) /\ m + 1 <= FrameLen(kind)
    <3>1. m < HdrLen(kind)
      BY <1>3
    <3>2. HdrLen(kind) \in Nat /\ FrameLen(kind) \in Nat /\ HdrLen(kind) <= FrameLen(kind)
      BY <1>5
    <3>3. QED
      BY <1>4, <3>1, <3>2
  <2>2. QED
    BY <1>3, <2>1 DEF AtByte, InFrame, kind
<1>8. /\ WireWhole' /\ InFrame(p, (m + 1) + k)'
      /\ SubSeq(wire, 1, k) = [j \in 1 .. k |-> <<p, m + 1 + j - 1>>]
  <2>1. k <= FrameLen(sent[p]) - (m + 1) + 1
    <3>1. m + k <= HdrLen(kind) /\ HdrLen(kind) \in Nat
      BY <1>5, <1>6
    <3>2. k <= FrameLen(kind) - (m + 1) + 1
      BY <1>4, <1>5, <3>1, SMTT(30)
    <3>3. QED
      BY <3>2 DEF kind
  <2>2. PICK i : i = m + 1
    OBVIOUS
  <2>3. AtByte(p, i) /\ k <= FrameLen(sent[p]) - i + 1
    BY <1>7, <2>1, <2>2
  <2>4. WireWhole' /\ InFrame(p, i + k)'
        /\ SubSeq(wire, 1, k) = [j \in 1 .. k |-> <<p, i + j - 1>>]
    BY <1>1, <1>4, <2>3, ReadBytes
  <2>5. QED
    BY <2>2, <2>4
<1>9. InFrame(p, n + 1)'
  <2>1. (m + 1) + k = n + 1
    BY <1>4
  <2>2. InFrame(p, (m + 1) + k)'
    BY <1>8
  <2>3. QED
    BY <2>1, <2>2
<1>10. rx.hdr \o SubSeq(wire, 1, k) = Piece(p, n)
  <2>1. Piece(p, m) \o [j \in 1 .. k |-> <<p, m + 1 + j - 1>>] = Piece(p, m + k)
    BY <1>2, <1>4, PieceGrows, ZenonT(40)
  <2>2. QED
    BY <1>3, <1>8, <2>1
<1>11. Piece(p, n) \in Seq(Nat \X Nat) /\ Piece(p, n)[1][1] = p
  <2>1. 1 \in 1 .. n
    BY <1>6
  <2>2. Piece(p, n)[1] = <<p, 1>>
    BY <2>1 DEF Piece
  <2>3. Piece(p, n) \in Seq(Nat \X Nat)
    BY <1>2, <1>6, PieceGrows, Zenon
  <2>4. QED
    BY <2>2, <2>3
<1>12. rx \in RxRecord
  BY <1>1 DEF RxTypes, RxRecord
<1>13. /\ r0 \in RxRecord /\ r0.type = TypeOf(kind) /\ r0.discard = 0 /\ r0.hdrLen = rx.hdrLen
       /\ r0.remaining = rx.remaining - k /\ r0.hdr = Piece(p, n) /\ r0.haveHdr = FALSE
  <2>1. rx.remaining - k \in Nat
    BY <1>4
  <2>2. r0 = [rx EXCEPT !.remaining = rx.remaining - k, !.hdr = Piece(p, n)]
    BY <1>10
  <2> HIDE DEF r0
  <2>3. QED
    BY <1>3, <1>11, <1>12, <2>1, <2>2 DEF RxRecord
<1> HIDE DEF r0
<1>14. KindOf(r0.hdr) = kind
  BY <1>11, <1>13 DEF KindOf, kind
<1>15. r0.type = "acl" <=> IsAcl(kind)
  BY <1>13 DEF TypeOf
<1>16. /\ r1 \in RxRecord /\ r1.type = TypeOf(kind) /\ r1.discard = 0 /\ r1.hdrLen = HdrLen(kind)
       /\ r1.remaining = HdrLen(kind) - n /\ r1.hdr = Piece(p, n) /\ r1.haveHdr = FALSE
  <2>1. CASE IsAcl(kind)
    <3>1. r1 = r0
      BY <1>15, <2>1 DEF WithSubevent
    <3>2. rx.hdrLen = 4
      BY <1>3, <1>5, <2>1
    <3>3. r0.remaining = 4 - m - k
      BY <1>3, <1>13, <3>2
    <3>4. r0.remaining = 4 - n
      BY <1>4, <3>3
    <3>5. QED
      BY <1>5, <1>13, <2>1, <3>1, <3>2, <3>4
  <2>2. CASE ~ IsAcl(kind) /\ m = 0 /\ IsMeta(kind)
    <3>1. r0.type = "evt" /\ r0.hdrLen = 2 /\ r0.remaining = 2 - n /\ r0.remaining < 2
      BY <1>3, <1>4, <1>5, <1>13, <1>15, <2>2
    <3>2. r1 = [r0 EXCEPT !.remaining = @ + 1, !.hdrLen = @ + 1]
      BY <1>14, <2>2, <3>1 DEF WithSubevent
    <3> HIDE DEF r1
    <3>3. r0.remaining + 1 = 3 - n /\ r0.hdrLen + 1 = 3 /\ HdrLen(kind) = 3 /\ 3 - n \in Nat
      <4>1. HdrLen(kind) = 3
        BY <1>5, <2>2
      <4>2. n \in Nat /\ n <= 3
        BY <1>6, <4>1
      <4>3. QED
        BY <3>1, <4>1, <4>2
    <3>4. r1 = [r0 EXCEPT !.remaining = 3 - n, !.hdrLen = 3]
      BY <3>2, <3>3
    <3>5. QED
      BY <1>13, <3>3, <3>4 DEF RxRecord
  <2>3. CASE ~ IsAcl(kind) /\ (m # 0 \/ ~ IsMeta(kind))
    <3>1. rx.hdrLen = HdrLen(kind) /\ r0.remaining = HdrLen(kind) - n
      <4>1. rx.hdrLen = HdrLen(kind) /\ HdrLen(kind) \in Nat
        <5>1. HdrLen(kind) \in Nat
          BY <1>5
        <5>2. CASE m # 0
          BY <1>3, <5>1, <5>2
        <5>3. CASE m = 0
          <6>1. HdrLen(kind) = 2
            BY <1>5, <2>3, <5>3
          <6>2. QED
            BY <1>3, <2>3, <5>1, <5>3, <6>1
        <5>4. QED
          BY <5>2, <5>3
      <4>2. r0.remaining = HdrLen(kind) - m - k
        BY <1>3, <1>13, <4>1
      <4>3. r0.remaining = HdrLen(kind) - n
        BY <1>4, <4>1, <4>2
      <4>4. QED
        BY <4>1, <4>3
    <3>2. r0.hdrLen = 2 => ~ IsMeta(kind)
      BY <1>5, <1>13, <2>3, <3>1
    <3>3. r1 = r0
      BY <1>14, <3>2 DEF WithSubevent
    <3> HIDE DEF r1
    <3>4. QED
      BY <1>13, <3>1, <3>3
  <2>4. QED
    BY <2>1, <2>2, <2>3
<1>17. r1.type = "evt" <=> ~ IsAcl(kind)
  BY <1>16 DEF TypeOf
<1> HIDE DEF r1
<1>18. CASE r1.remaining > 0
  <2>1. r = r1
    BY <1>18 DEF AfterHeader
  <2>2. n < HdrLen(kind)
    BY <1>5, <1>6, <1>16, <1>18
  <2> HIDE DEF r
  <2>3. QED
    BY <1>6, <1>8, <1>9, <1>11, <1>16, <2>1, <2>2 DEF r, r1, r0, kind, RxAfter, ReadUpTo
<1>19. CASE ~ (r1.remaining > 0)
  <2>1. n = HdrLen(kind)
    BY <1>5, <1>6, <1>16, <1>19, SMTT(30) DEF RxRecord
  <2>2. KindOf(r1.hdr) = kind
    BY <1>11, <1>16 DEF KindOf, kind
  <2>3. r = [r1 EXCEPT !.haveHdr = TRUE, !.discardable = kind = "adv",
                       !.remaining = PayloadLen(kind)]
    BY <1>5, <1>16, <1>17, <1>19, <2>2 DEF AfterHeader
  <2> HIDE DEF r
  <2>4. /\ r \in RxRecord /\ r.type = TypeOf(kind) /\ r.discard = 0 /\ r.hdrLen = HdrLen(kind)
        /\ r.remaining = PayloadLen(kind) /\ r.hdr = Piece(p, n) /\ r.haveHdr = TRUE
        /\ r.discardable = (kind = "adv")
    BY <1>5, <1>16, <2>3 DEF RxRecord
  <2>5. QED
    BY <1>6, <1>8, <1>9, <1>11, <2>1, <2>4 DEF r, r1, r0, kind, RxAfter, ReadUpTo
<1>20. QED
  BY <1>18, <1>19

LEMMA ReadHeaderKeepsRx ==
    ASSUME RxInv, ReadHeader
    PROVE  RxInv'
<1>1. /\ sent \in Seq(Kinds) /\ WireWhole /\ RxTypes /\ QueueFits
      /\ UNCHANGED <<sent, rxQueue, received>>
      /\ rx.type # "none" /\ ~ rx.haveHdr /\ rx.discard = 0
  BY DEF RxInv, ReadHeader
<1>2. PICK p \in 0 .. Len(sent) : RxAt(p)
  BY DEF RxInv
<1>3. HeaderAt(p) /\ p \in 1 .. Len(sent) /\ BufferOf(p) /\ History(p)
  <2>1. ~ IdleAt(p)
    BY <1>1 DEF IdleAt, RxIdle
  <2>2. ~ PayloadAt(p) /\ ~ DiscardAt(p)
    BY <1>1 DEF PayloadAt, DiscardAt
  <2>3. QED
    BY <1>2, <2>1, <2>2 DEF RxAt, HeaderAt
<1>4. PICK k \in 1 .. rx.remaining :
         /\ k <= Len(wire) /\ wire' = SubSeq(wire, k + 1, Len(wire))
         /\ IntoLeftBuffer(RxAfter(k))
  BY DEF ReadHeader, Recv, RxAfter
<1>5. PICK m, n : m = Len(rx.hdr) /\ n = m + k
  OBVIOUS
<1>6. PICK r : r = RxAfter(k)
  OBVIOUS
<1> DEFINE kind == sent[p]
<1>7. /\ n \in Nat /\ n > 0 /\ n <= HdrLen(kind) /\ InFrame(p, n + 1)' /\ WireWhole'
      /\ r \in RxRecord
      /\ r.type = TypeOf(kind) /\ r.discard = 0 /\ r.hdrLen = HdrLen(kind)
      /\ r.hdr = Piece(p, n) /\ r.hdr[1][1] = p
      /\ ~ r.haveHdr => n < HdrLen(kind) /\ r.remaining = HdrLen(kind) - n
      /\ r.haveHdr => /\ n = HdrLen(kind) /\ r.remaining = PayloadLen(kind)
                      /\ r.discardable => kind = "adv"
  <2>1. UNCHANGED sent /\ m = Len(rx.hdr) /\ n = m + k
    BY <1>1, <1>5
  <2>2. n \in Nat /\ n > 0 /\ n <= HdrLen(kind) /\ InFrame(p, n + 1)' /\ WireWhole'
    BY <1>3, <1>4, <2>1, HeaderRead
  <2>3. ReadUpTo(RxAfter(k), p, n)
    BY <1>3, <1>4, <2>1, HeaderRead
  <2>4. ReadUpTo(r, p, n)
    BY <1>6, <2>3
  <2>5. QED
    BY <2>2, <2>4 DEF ReadUpTo
<1>8. IntoLeftBuffer(r)
  BY <1>4, <1>6
<1>9. /\ PayloadLen(kind) \in Nat /\ HdrLen(kind) \in 2 .. 4 /\ FrameLen(kind) \in Nat
      /\ FrameLen(kind) = HdrLen(kind) + PayloadLen(kind) /\ TypeOf(kind) \in {"evt", "acl"}
  BY <1>1, <1>3, KindFacts
<1>10. p \in Nat /\ Len(sent) \in Nat /\ p \in 0 .. Len(sent') /\ p \in 1 .. Len(sent')
       /\ p \in p .. Len(sent')
  BY <1>1, <1>3
<1>11. SentKept
  BY <1>1, <1>10 DEF SentKept
<1>12. QueueFits'
  BY <1>1, <1>11, QueueKept
<1>13. rx.haveHdr = FALSE
  BY <1>1 DEF RxTypes, RxRecord
<1>14. CASE ~ r.haveHdr
  <2>1. rx' = r /\ UNCHANGED <<rxBuf, lost>>
    BY <1>8, <1>14 DEF IntoLeftBuffer
  <2>2. HeaderAt(p)'
    <3>1. Len(r.hdr) = n
      <4>1. Len(Piece(p, n)) = n
        BY <1>7, <1>10, PieceGrows, Zenon
      <4>2. QED
        BY <1>7, <4>1
    <3>2. InFrame(p, Len(rx.hdr) + 1)'
      BY <1>7, <2>1, <3>1
    <3>3. n # 0 /\ sent' = sent
      BY <1>1, <1>7
    <3>4. QED
      BY <1>7, <1>10, <1>14, <2>1, <3>1, <3>2, <3>3 DEF HeaderAt, Piece
  <2>3. rx'.haveHdr = rx.haveHdr /\ rx' \in RxRecord
    BY <1>7, <1>13, <1>14, <2>1 DEF RxRecord
  <2>4. BufferOf(p)'
    BY <1>1, <1>3, <1>10, <1>11, <2>1, <2>3, BufferKept
  <2>5. Over(p)' = Over(p)
    BY <1>1, <1>7, <1>9, <2>1 DEF Over
  <2>6. History(p)'
    BY <1>1, <1>3, <1>11, <2>1, <2>5, HistoryKept
  <2>7. QED
    BY <1>1, <1>7, <1>10, <1>12, <2>2, <2>3, <2>4, <2>6 DEF RxInv, RxAt, RxTypes
<1>15. CASE r.haveHdr
  <2>1. n = HdrLen(kind) /\ r.remaining = PayloadLen(kind) /\ (r.discardable => kind = "adv")
    BY <1>7, <1>15
  <2>2. InFrame(p, n + 1)' /\ n + 1 = FrameLen(kind) - r.remaining + 1
    BY <1>7, <1>9, <2>1
  <2>3. rxBuf.bytes = <<>> /\ rxBuf \in [pool : RxPools \cup {"none"}, bytes : Seq(Nat \X Nat)]
    BY <1>3, <1>13 DEF BufferOf
  <2>4. rxBuf # NoBuf => rxBuf.pool \in RxPools /\ Misfit(p, rxBuf.pool)
    <3>1. rxBuf.pool = "none" => rxBuf = NoBuf
      BY <1>3 DEF BufferOf
    <3>2. rxBuf # NoBuf => Misfit(p, rxBuf.pool)
      BY <1>3, <1>13 DEF BufferOf
    <3>3. QED
      BY <2>3, <3>1, <3>2
  <2>5. CASE rxBuf = NoBuf
    <3>1. rx' = r /\ UNCHANGED <<rxBuf, lost>>
      BY <1>8, <2>5 DEF IntoLeftBuffer
    <3>2. PayloadAt(p)'
      <4>1. InFrame(p, FrameLen(sent[p]) - rx.remaining + 1)'
        BY <1>1, <2>2, <3>1 DEF FrameLen, PayloadLen, HdrLen
      <4>2. r.remaining <= PayloadLen(kind)
        BY <1>9, <2>1
      <4>3. QED
        BY <1>1, <1>7, <1>10, <1>15, <2>1, <2>5, <3>1, <4>1, <4>2 DEF PayloadAt, Piece
    <3>3. BufferOf(p)'
      BY <1>15, <2>3, <2>5, <3>1 DEF BufferOf, NoBuf
    <3>4. Over(p)' = Over(p)
      BY <1>1, <1>7, <1>9, <3>1 DEF Over
    <3>5. History(p)'
      BY <1>1, <1>3, <1>11, <3>1, <3>4, HistoryKept
    <3>6. QED
      BY <1>1, <1>7, <1>10, <1>12, <3>1, <3>2, <3>3, <3>5 DEF RxInv, RxAt, RxTypes
  <2>6. CASE rxBuf # NoBuf /\ r.remaining > Tailroom(rxBuf)
    <3>1. rx' = [RxIdle EXCEPT !.discard = r.remaining] /\ lost' = lost \cup {p} /\ UNCHANGED rxBuf
      BY <1>7, <1>8, <1>15, <2>6 DEF IntoLeftBuffer
    <3>2. Tailroom(rxBuf) \in Nat
      <4>1. Room[rxBuf.pool] \in Nat /\ Len(rxBuf.bytes) = 0
        BY <2>3, <2>4, <2>6, TransportAssumption
      <4>2. QED
        BY <4>1 DEF Tailroom
    <3>3. r.remaining > 0 /\ r.remaining \in Nat
      BY <1>9, <2>1, <2>6, <3>2
    <3>4. /\ rx'.discard = r.remaining /\ rx' = [RxIdle EXCEPT !.discard = rx'.discard]
          /\ rx'.type = "none" /\ rx'.haveHdr = FALSE
      BY <3>1 DEF RxIdle
    <3>5. DiscardAt(p)'
      <4>1. InFrame(p, FrameLen(sent[p]) - rx.discard + 1)'
        BY <1>1, <2>2, <3>4 DEF FrameLen, PayloadLen, HdrLen
      <4>2. r.remaining <= PayloadLen(kind)
        BY <1>9, <2>1
      <4>3. QED
        BY <1>1, <1>10, <3>3, <3>4, <4>1, <4>2 DEF DiscardAt, RxIdle
    <3>6. BufferOf(p)'
      BY <1>1, <1>3, <1>10, <1>11, <1>13, <3>1, <3>4, BufferKept
    <3>7. History(p)'
      BY <1>1, <1>3, <2>4, <2>6, <3>1, <3>4, HistoryLoses
    <3>8. RxTypes'
      <4>1. <<>> \in Seq(Nat \X Nat)
        OBVIOUS
      <4> HIDE DEF kind
      <4>2. QED
        BY <3>1, <3>3, <4>1 DEF RxTypes, RxRecord, RxIdle
    <3>9. QED
      BY <1>1, <1>7, <1>10, <1>12, <3>5, <3>6, <3>7, <3>8 DEF RxInv, RxAt
  <2>7. CASE rxBuf # NoBuf /\ ~ (r.remaining > Tailroom(rxBuf))
    <3>1. rx' = r /\ rxBuf' = [rxBuf EXCEPT !.bytes = @ \o r.hdr] /\ UNCHANGED lost
      BY <1>8, <1>15, <2>7 DEF IntoLeftBuffer
    <3>2. Piece(p, n) \in Seq(Nat \X Nat) /\ rxBuf.bytes \o r.hdr = Piece(p, n)
      <4>1. Piece(p, n) \in Seq(Nat \X Nat)
        BY <1>7, <1>10, PieceGrows, Zenon
      <4>2. <<>> \o Piece(p, n) = Piece(p, n)
        BY <4>1, ConcatEmptySeq
      <4>3. QED
        BY <1>7, <2>3, <4>1, <4>2
    <3>3. rxBuf'.pool = rxBuf.pool /\ rxBuf'.bytes = Piece(p, n) /\ rxBuf' # NoBuf
          /\ rxBuf' \in [pool : RxPools \cup {"none"}, bytes : Seq(Nat \X Nat)]
      <4>1. rxBuf' = [rxBuf EXCEPT !.bytes = Piece(p, n)]
        BY <3>1, <3>2
      <4>2. rxBuf'.pool = rxBuf.pool /\ rxBuf'.bytes = Piece(p, n)
            /\ rxBuf' \in [pool : RxPools \cup {"none"}, bytes : Seq(Nat \X Nat)]
        BY <2>3, <3>2, <4>1
      <4>3. rxBuf'.pool # "none"
        BY <2>4, <2>7, <4>2 DEF RxPools
      <4>4. QED
        BY <4>2, <4>3 DEF NoBuf
    <3>4. r.remaining <= Room[rxBuf.pool]
      <4>1. Room[rxBuf.pool] \in Nat /\ Len(rxBuf.bytes) = 0
        BY <2>3, <2>4, <2>7, TransportAssumption
      <4>2. Tailroom(rxBuf) = Room[rxBuf.pool]
        BY <4>1 DEF Tailroom
      <4>3. QED
        BY <1>9, <2>1, <2>7, <4>1, <4>2
    <3>5. PayloadAt(p)'
      <4>1. InFrame(p, FrameLen(sent[p]) - rx.remaining + 1)'
        BY <1>1, <2>2, <3>1 DEF FrameLen, PayloadLen, HdrLen
      <4>2. r.remaining <= PayloadLen(kind) /\ n = FrameLen(kind) - r.remaining
        BY <1>7, <1>9, <2>1
      <4>3. QED
        BY <1>1, <1>7, <1>10, <1>15, <2>1, <3>1, <3>3, <3>4, <4>1, <4>2, ZenonT(40) DEF PayloadAt, Piece
    <3>6. BufferOf(p)'
      <4>1. Misfit(p, rxBuf.pool)'
        BY <1>1, <2>4, <2>7, <3>3
           DEF Misfit, Oversize, PoolOf, FrameLen, PayloadLen, HdrLen, IsAcl, IsMeta
      <4>2. rxBuf'.pool # "none"
        BY <2>4, <2>7, <3>3 DEF RxPools
      <4>3. QED
        BY <1>15, <3>1, <3>3, <4>1, <4>2 DEF BufferOf
    <3>7. Over(p)' = Over(p)
      BY <1>1, <1>7, <1>9, <3>1 DEF Over
    <3>8. History(p)'
      BY <1>1, <1>3, <1>11, <3>1, <3>7, HistoryKept
    <3>9. QED
      BY <1>1, <1>7, <1>10, <1>12, <3>1, <3>5, <3>6, <3>8 DEF RxInv, RxAt, RxTypes
  <2>8. QED
    BY <2>5, <2>6, <2>7
<1>16. QED
  BY <1>14, <1>15

LEMMA DiscardKeepsRx ==
    ASSUME RxInv, Discard
    PROVE  RxInv'
<1>1. /\ sent \in Seq(Kinds) /\ WireWhole /\ rx \in RxRecord /\ QueueFits
      /\ UNCHANGED <<sent, rxBuf, rxQueue, received, lost>>
      /\ rx.discard > 0
  BY DEF RxInv, RxTypes, Discard
<1>2. PICK p \in 0 .. Len(sent) : RxAt(p)
  BY DEF RxInv
<1>3. DiscardAt(p) /\ p \in 1 .. Len(sent) /\ BufferOf(p) /\ History(p)
  <2>1. ~ IdleAt(p)
    BY <1>1 DEF IdleAt, RxIdle
  <2>2. ~ PayloadAt(p) /\ ~ HeaderAt(p)
    BY <1>1 DEF PayloadAt, HeaderAt
  <2>3. QED
    BY <1>2, <2>1, <2>2 DEF RxAt, DiscardAt
<1>4. PICK k \in 1 .. rx.discard :
         /\ k <= Len(wire) /\ wire' = SubSeq(wire, k + 1, Len(wire))
         /\ rx' = [rx EXCEPT !.discard = @ - k]
  BY DEF Discard, Recv
<1>5. PICK d : d = rx.discard
  OBVIOUS
<1>6. d \in Nat /\ k \in Nat /\ k > 0 /\ k <= d /\ d - k \in Nat
  BY <1>1, <1>4, <1>5 DEF RxRecord
<1>7. PICK F : F = FrameLen(sent[p])
  OBVIOUS
<1>8. F \in Nat /\ d <= F /\ d <= PayloadLen(sent[p]) /\ PayloadLen(sent[p]) \in Nat
      /\ F = HdrLen(sent[p]) + PayloadLen(sent[p]) /\ HdrLen(sent[p]) \in Nat
  <2>1. /\ PayloadLen(sent[p]) \in Nat /\ HdrLen(sent[p]) \in 2 .. 4 /\ FrameLen(sent[p]) \in Nat
        /\ FrameLen(sent[p]) = HdrLen(sent[p]) + PayloadLen(sent[p])
    BY <1>1, <1>3, KindFacts
  <2>2. d <= PayloadLen(sent[p])
    BY <1>3, <1>5 DEF DiscardAt
  <2>3. QED
    BY <1>6, <1>7, <2>1, <2>2
<1>9. PICK i : i = F - d + 1
  OBVIOUS
<1>10. AtByte(p, i) /\ k <= FrameLen(sent[p]) - i + 1 /\ i + k = F - (d - k) + 1
  <2>1. i \in 0 .. F /\ i <= F /\ k <= F - i + 1 /\ i + k = F - (d - k) + 1
    <3>1. d >= 1
      BY <1>6
    <3>2. i \in 0 .. F /\ i <= F
      BY <1>6, <1>8, <1>9, <3>1
    <3>3. k <= F - i + 1 /\ i + k = F - (d - k) + 1
      <4>1. F \in Nat /\ d \in Nat /\ k \in Nat /\ k <= d
        BY <1>6, <1>8
      <4>2. F - i + 1 = d
        BY <1>9, <4>1
      <4>3. i + k = F - (d - k) + 1
        BY <1>9, <4>1
      <4>4. QED
        BY <4>1, <4>2, <4>3
    <3>4. QED
      BY <3>2, <3>3
  <2>2. InFrame(p, i)
    BY <1>3, <1>5, <1>7, <1>9 DEF DiscardAt
  <2>3. QED
    BY <1>3, <1>7, <2>1, <2>2 DEF AtByte, InFrame
<1>11. WireWhole' /\ InFrame(p, F - (d - k) + 1)'
  <2>1. WireWhole' /\ InFrame(p, i + k)'
    BY <1>1, <1>4, <1>6, <1>10, ReadBytes
  <2>2. QED
    BY <1>10, <2>1
<1>12. /\ rx' = [RxIdle EXCEPT !.discard = d - k] /\ rx' \in RxRecord
       /\ rx'.discard = d - k /\ rx'.type = rx.type /\ rx'.haveHdr = rx.haveHdr
  <2>1. rx = [RxIdle EXCEPT !.discard = d]
    BY <1>3, <1>5 DEF DiscardAt
  <2>2. <<>> \in Seq(Nat \X Nat)
    OBVIOUS
  <2>3. rx' = [RxIdle EXCEPT !.discard = d - k]
    BY <1>4, <2>1 DEF RxIdle
  <2>4. QED
    BY <1>6, <2>1, <2>2, <2>3 DEF RxIdle, RxRecord
<1>13. p \in Nat /\ Len(sent) \in Nat /\ p \in 0 .. Len(sent') /\ p \in 1 .. Len(sent')
       /\ p \in p .. Len(sent')
  BY <1>1, <1>3
<1>14. SentKept
  BY <1>1, <1>13 DEF SentKept
<1>15. IdleAt(p)' \/ DiscardAt(p)'
  <2>1. FrameLen(sent[p])' = F /\ PayloadLen(sent[p])' = PayloadLen(sent[p])
    BY <1>1, <1>7 DEF FrameLen, PayloadLen, HdrLen
  <2>2. CASE d - k > 0
    <3>1. InFrame(p, FrameLen(sent[p]) - rx.discard + 1)'
      BY <1>11, <1>12, <2>1
    <3>2. d - k <= PayloadLen(sent[p])
      BY <1>6, <1>8
    <3>3. DiscardAt(p)'
      BY <1>12, <1>13, <2>1, <2>2, <3>1, <3>2 DEF DiscardAt, RxIdle
    <3>4. QED
      BY <3>3
  <2>3. CASE d - k = 0
    <3>1. rx' = RxIdle
      BY <1>12, <2>3 DEF RxIdle
    <3>2. F - (d - k) + 1 = F + 1 /\ ~ (F + 1 <= F)
      BY <1>8, <2>3
    <3>3. Between(p)'
      BY <1>11, <2>1, <3>2 DEF InFrame
    <3>4. QED
      BY <3>1, <3>3 DEF IdleAt, RxIdle
  <2>4. QED
    BY <1>6, <2>2, <2>3
<1>16. BufferOf(p)'
  <2>1. ~ rx.haveHdr
    BY <1>3 DEF DiscardAt, RxIdle
  <2>2. QED
    BY <1>1, <1>3, <1>12, <1>13, <1>14, <2>1, BufferKept
<1>17. History(p)'
  <2>1. Over(p)' = Over(p)
    BY <1>1, <1>12 DEF Over
  <2>2. QED
    BY <1>1, <1>3, <1>14, <2>1, HistoryKept
<1>18. QueueFits'
  BY <1>1, <1>14, QueueKept
<1>19. QED
  BY <1>1, <1>11, <1>12, <1>13, <1>15, <1>16, <1>17, <1>18 DEF RxInv, RxAt, RxTypes

LEMMA RxThreadKeepsRx ==
    ASSUME RxInv, RxThread
    PROVE  RxInv'
<1>1. /\ sent \in Seq(Kinds) /\ WireWhole /\ RxTypes /\ QueueFits
      /\ UNCHANGED <<sent, wire, rx, rxBuf, received, lost>>
      /\ rxQueue # <<>> /\ rxQueue' = Tail(rxQueue)
  BY DEF RxInv, RxThread
<1>2. QueueFits'
  BY <1>1, QueueShrinks
<1>3. PICK p \in 0 .. Len(sent) : RxAt(p)
  BY DEF RxInv
<1>4. RxAt(p)'
  BY <1>1, <1>3, SMTT(30)
     DEF RxAt, IdleAt, HeaderAt, PayloadAt, DiscardAt, InFrame, Between, BufferOf, History, Over,
         Ended, ReceivedPkts, Misfit
<1>5. WireWhole' /\ RxTypes'
  BY <1>1 DEF WireWhole, RxTypes
<1>6. QED
  BY <1>1, <1>2, <1>3, <1>4, <1>5 DEF RxInv

\* Steps that leave the receiver alone.
LEMMA OthersKeepRx ==
    ASSUME RxInv, UNCHANGED rxVars
    PROVE  RxInv'
<1>1. UNCHANGED <<sent, wire, rx, rxBuf, rxQueue, received, lost>>
  BY DEF rxVars
<1>2. PICK p \in 0 .. Len(sent) : RxAt(p)
  BY DEF RxInv
<1>3. RxAt(p)'
  BY <1>1, <1>2
     DEF RxAt, IdleAt, HeaderAt, PayloadAt, DiscardAt, InFrame, Between, BufferOf, History, Over,
         Ended, ReceivedPkts, Misfit
<1>4. WireWhole' /\ RxTypes' /\ QueueFits'
  BY <1>1 DEF RxInv, WireWhole, RxTypes, QueueFits, Misfit
<1>5. QED
  BY <1>1, <1>2, <1>3, <1>4 DEF RxInv

\* What is known of the receiver while it reads the payload of packet p.
LEMMA PayloadFacts ==
    ASSUME RxInv, NEW p \in 1 .. Len(sent), PayloadAt(p)
    PROVE  /\ sent[p] \in Kinds /\ p \in Nat /\ Len(sent) \in Nat
           /\ FrameLen(sent[p]) \in Nat /\ PayloadLen(sent[p]) \in Nat
           /\ HdrLen(sent[p]) \in 2 .. 4
           /\ FrameLen(sent[p]) = HdrLen(sent[p]) + PayloadLen(sent[p])
           /\ PoolOf(sent[p]) \in RxPools
           /\ rx.type # "none" /\ rx.remaining \in Nat /\ rx.remaining <= PayloadLen(sent[p])
           /\ rx.hdr[1][1] = p /\ KindOf(rx.hdr) = sent[p]
           /\ rx.hdr = Piece(p, HdrLen(sent[p]))
<1>1. sent \in Seq(Kinds) /\ rx \in RxRecord
  BY DEF RxInv, RxTypes
<1>2. sent[p] \in Kinds /\ p \in Nat /\ Len(sent) \in Nat
  BY <1>1
<1>3. /\ FrameLen(sent[p]) \in Nat /\ PayloadLen(sent[p]) \in Nat
      /\ HdrLen(sent[p]) \in 2 .. 4
      /\ FrameLen(sent[p]) = HdrLen(sent[p]) + PayloadLen(sent[p])
      /\ PoolOf(sent[p]) \in RxPools /\ TypeOf(sent[p]) \in {"evt", "acl"}
  BY <1>2, KindFacts
<1>4. rx.type # "none" /\ rx.remaining \in Nat /\ rx.remaining <= PayloadLen(sent[p])
  BY <1>1, <1>3 DEF PayloadAt, RxRecord
<1>5. rx.hdr = Piece(p, HdrLen(sent[p]))
  BY DEF PayloadAt
<1>6. rx.hdr[1] = <<p, 1>>
  <2>1. 1 \in 1 .. HdrLen(sent[p])
    BY <1>3
  <2>2. QED
    BY <1>5, <2>1 DEF Piece
<1>7. rx.hdr[1][1] = p /\ KindOf(rx.hdr) = sent[p]
  BY <1>6 DEF KindOf
<1>8. QED
  BY <1>2, <1>3, <1>4, <1>5, <1>7

\* The packet is discarded before a byte of its payload was read.
LEMMA GiveUpKeepsRx ==
    ASSUME RxInv, NEW p \in 1 .. Len(sent), RxAt(p), PayloadAt(p), rxBuf = NoBuf,
           sent[p] = "adv" \/ \E pool \in RxPools : Misfit(p, pool),
           UNCHANGED <<sent, wire, rxQueue, received>>, lost' = lost \cup {p},
           rx' = [RxIdle EXCEPT !.discard = rx.remaining], BufferOf(p)'
    PROVE  RxInv'
<1>1. /\ sent \in Seq(Kinds) /\ WireWhole /\ QueueFits
      /\ FrameLen(sent[p]) \in Nat /\ rx.remaining \in Nat /\ rx.type # "none"
      /\ p \in Nat /\ Len(sent) \in Nat
  BY PayloadFacts DEF RxInv
<1>2. rx.remaining = PayloadLen(sent[p])
  BY DEF PayloadAt
<1>3. InFrame(p, FrameLen(sent[p]) - rx.remaining + 1)
  BY DEF PayloadAt
<1>4. rx'.discard = rx.remaining /\ rx'.type = "none" /\ rx' = [RxIdle EXCEPT !.discard = rx'.discard]
  BY DEF RxIdle
<1>5. IdleAt(p)' \/ DiscardAt(p)'
  <2>1. FrameLen(sent[p])' = FrameLen(sent[p]) /\ PayloadLen(sent[p])' = PayloadLen(sent[p])
    BY DEF FrameLen, PayloadLen, HdrLen
  <2>2. CASE rx.remaining = 0
    <3>1. rx' = RxIdle
      BY <2>2 DEF RxIdle
    <3>2. Between(p)
      <4>1. FrameLen(sent[p]) - rx.remaining + 1 = FrameLen(sent[p]) + 1
            /\ ~ (FrameLen(sent[p]) + 1 <= FrameLen(sent[p]))
        BY <1>1, <2>2
      <4>2. QED
        BY <1>3, <4>1 DEF InFrame
    <3>3. QED
      BY <3>1, <3>2 DEF IdleAt, Between, RxIdle
  <2>3. CASE rx.remaining # 0
    <3>1. InFrame(p, FrameLen(sent[p]) - rx.discard + 1)'
      BY <1>3, <1>4, <2>1 DEF InFrame, Between
    <3>2. rx'.discard > 0 /\ rx'.discard <= PayloadLen(sent[p])
      BY <1>1, <1>2, <1>4, <2>3
    <3>3. QED
      BY <1>4, <2>1, <3>1, <3>2 DEF DiscardAt, RxIdle
  <2>4. QED
    BY <2>2, <2>3
<1>6. History(p)'
  BY <1>1, <1>4, HistoryLoses DEF RxAt
<1>7. SentKept /\ QueueFits'
  <2>1. SentKept
    BY <1>1 DEF SentKept
  <2>2. QED
    BY <1>1, <2>1, QueueKept
<1>8. RxTypes'
  <2>1. <<>> \in Seq(Nat \X Nat)
    OBVIOUS
  <2>2. QED
    BY <1>1, <2>1 DEF RxTypes, RxRecord, RxIdle
<1>9. WireWhole'
  BY <1>1 DEF WireWhole
<1>10. p \in 0 .. Len(sent')
  BY <1>1
<1>11. QED
  BY <1>1, <1>5, <1>6, <1>7, <1>8, <1>9, <1>10 DEF RxInv, RxAt

\* Bytes of the payload go into a buffer it fits in.
LEMMA ReadIntoKeepsRx ==
    ASSUME RxInv, NEW p \in 1 .. Len(sent), RxAt(p), PayloadAt(p), UNCHANGED sent,
           NEW buf \in [pool : RxPools, bytes : Seq(Nat \X Nat)], NEW taken, ReadInto(buf, taken),
           buf.bytes = Piece(p, FrameLen(sent[p]) - rx.remaining),
           PayloadLen(sent[p]) <= Room[buf.pool],
           buf.pool = PoolOf(sent[p]) \/ Misfit(p, buf.pool)
    PROVE  RxInv'
<1>1. sent \in Seq(Kinds) /\ WireWhole /\ QueueFits /\ rx \in RxRecord
  BY DEF RxInv, RxTypes
<1>2. PICK F, rem : F = FrameLen(sent[p]) /\ rem = rx.remaining
  OBVIOUS
<1>3. /\ F \in Nat /\ rem \in Nat /\ p \in Nat /\ Len(sent) \in Nat /\ rx.type # "none"
      /\ rem <= PayloadLen(sent[p]) /\ PayloadLen(sent[p]) \in Nat /\ rem <= F
      /\ rx.hdr[1][1] = p /\ KindOf(rx.hdr) = sent[p] /\ sent[p] \in Kinds
  <2>1. /\ F \in Nat /\ rem \in Nat /\ p \in Nat /\ Len(sent) \in Nat /\ rx.type # "none"
        /\ rem <= PayloadLen(sent[p]) /\ PayloadLen(sent[p]) \in Nat
        /\ HdrLen(sent[p]) \in 2 .. 4 /\ F = HdrLen(sent[p]) + PayloadLen(sent[p])
    BY <1>2, PayloadFacts
  <2>2. rx.hdr[1][1] = p /\ KindOf(rx.hdr) = sent[p] /\ sent[p] \in Kinds
    BY PayloadFacts
  <2>3. rem <= F
    BY <2>1
  <2>4. QED
    BY <2>1, <2>2, <2>3
<1>4. InFrame(p, F - rem + 1)
  BY <1>2 DEF PayloadAt
<1>5. PICK k \in 0 .. rem :
         /\ IF k = 0 THEN UNCHANGED wire ELSE Recv(rem, k)
         /\ LET full == [buf EXCEPT !.bytes = @ \o SubSeq(wire, 1, k)] IN
            IF k < rem
            THEN /\ rx' = [rx EXCEPT !.remaining = @ - k] /\ rxBuf' = full
                 /\ UNCHANGED <<received, rxQueue>>
            ELSE rx' = RxIdle /\ rxBuf' = NoBuf /\ Deliver(full, rx.hdr)
         /\ UNCHANGED lost
  BY <1>2 DEF ReadInto
<1>6. k \in Nat /\ k <= rem /\ F - rem \in Nat /\ F - rem + k \in Nat
  BY <1>3
<1>7. WireWhole' /\ InFrame(p, F - rem + k + 1)'
      /\ buf.bytes \o SubSeq(wire, 1, k) = Piece(p, F - rem + k)
  <2>1. CASE k = 0
    <3>1. WireWhole' /\ InFrame(p, F - rem + 1)'
      BY <1>1, <1>4, <1>5, <2>1 DEF WireWhole, InFrame, Between
    <3>2. F - rem + k + 1 = F - rem + 1 /\ F - rem + k = F - rem
      BY <1>3, <2>1
    <3>3. SubSeq(wire, 1, k) = <<>>
      BY <2>1
    <3>4. buf.bytes \o <<>> = buf.bytes
      BY ConcatEmptySeq
    <3>5. QED
      BY <1>2, <3>1, <3>2, <3>3, <3>4
  <2>2. CASE k # 0
    <3>1. k <= Len(wire) /\ wire' = SubSeq(wire, k + 1, Len(wire)) /\ k > 0
      BY <1>5, <1>6, <2>2, SMTT(30) DEF Recv
    <3>2. PICK i : i = F - rem + 1
      OBVIOUS
    <3>3. i \in 0 .. F /\ i <= F /\ k <= F - i + 1 /\ i + k = F - rem + k + 1 /\ i - 1 = F - rem
      <4>1. rem >= 1
        BY <1>3, <1>6, <2>2
      <4>2. F - i + 1 = rem /\ i \in Nat /\ i <= F
        BY <1>3, <3>2, <4>1
      <4>3. QED
        BY <1>3, <1>6, <3>2, <4>2
    <3>4. AtByte(p, i) /\ k <= FrameLen(sent[p]) - i + 1
      BY <1>2, <1>4, <3>2, <3>3 DEF AtByte, InFrame
    <3>5. /\ WireWhole' /\ InFrame(p, i + k)'
          /\ SubSeq(wire, 1, k) = [j \in 1 .. k |-> <<p, i + j - 1>>]
      BY <1>1, <1>6, <3>1, <3>4, ReadBytes
    <3>6. PICK m : m = F - rem
      OBVIOUS
    <3>7. SubSeq(wire, 1, k) = [j \in 1 .. k |-> <<p, m + 1 + j - 1>>]
      BY <3>2, <3>5, <3>6
    <3>8. Piece(p, m) \o [j \in 1 .. k |-> <<p, m + 1 + j - 1>>] = Piece(p, m + k)
      <4>1. p \in Nat /\ m \in Nat /\ k \in Nat
        BY <1>3, <1>6, <3>6
      <4>2. QED
        BY <4>1, PieceGrows
    <3>9. buf.bytes \o SubSeq(wire, 1, k) = Piece(p, F - rem + k)
      BY <1>2, <3>6, <3>7, <3>8
    <3>10. QED
      BY <3>3, <3>5, <3>9
  <2>3. QED
    BY <2>1, <2>2
<1>8. PICK full : full = [buf EXCEPT !.bytes = Piece(p, F - rem + k)]
  OBVIOUS
<1>9. /\ full = [buf EXCEPT !.bytes = @ \o SubSeq(wire, 1, k)]
      /\ full \in [pool : RxPools, bytes : Seq(Nat \X Nat)]
      /\ full.pool = buf.pool /\ full.bytes = Piece(p, F - rem + k)
  <2>1. Piece(p, F - rem + k) \in Seq(Nat \X Nat)
    BY <1>3, <1>6, PieceGrows, Zenon
  <2>2. QED
    BY <1>7, <1>8, <2>1
<1>10. SentKept /\ p \in 0 .. Len(sent') /\ p \in 1 .. Len(sent')
  BY <1>1, <1>3 DEF SentKept
<1>11. FrameLen(sent[p])' = F /\ PayloadLen(sent[p])' = PayloadLen(sent[p])
  BY <1>2 DEF FrameLen, PayloadLen, HdrLen
<1>12. CASE k < rem
  <2>1. rx' = [rx EXCEPT !.remaining = rem - k] /\ rxBuf' = full /\ UNCHANGED <<received, rxQueue, lost>>
    BY <1>2, <1>5, <1>9, <1>12
  <2>2. rem - k \in Nat /\ rem - k <= rem
    BY <1>3, <1>6, <1>12
  <2>3. /\ rx'.remaining = rem - k /\ rx'.type = rx.type /\ rx'.haveHdr = rx.haveHdr
        /\ rx'.discard = rx.discard /\ rx'.hdrLen = rx.hdrLen /\ rx'.hdr = rx.hdr
        /\ rx'.discardable = rx.discardable /\ rx' \in RxRecord
    BY <1>1, <2>1, <2>2 DEF RxRecord
  <2>4. rxBuf' # NoBuf /\ rxBuf'.pool # "none"
    BY <1>9, <2>1 DEF NoBuf, RxPools
  <2>5. PayloadAt(p)'
    <3>1. F - (rem - k) = F - rem + k /\ F - (rem - k) + 1 = F - rem + k + 1
      BY <1>3, <1>6
    <3>2. InFrame(p, FrameLen(sent[p]) - rx.remaining + 1)'
      BY <1>7, <1>11, <2>3, <3>1
    <3>3. rxBuf'.bytes = Piece(p, F - (rem - k)) /\ PayloadLen(sent[p]) <= Room[rxBuf'.pool]
      BY <1>9, <2>1, <3>1
    <3>4. rem - k <= PayloadLen(sent[p])
      BY <1>3, <2>2
    <3>5. QED
      BY <1>10, <1>11, <2>3, <2>4, <3>2, <3>3, <3>4 DEF PayloadAt, Piece, TypeOf, HdrLen
  <2>6. BufferOf(p)'
    <3>1. Misfit(p, buf.pool) => Misfit(p, rxBuf.pool)'
      BY <1>9, <2>1
         DEF Misfit, Oversize, PoolOf, FrameLen, PayloadLen, HdrLen, IsAcl, IsMeta
    <3>2. rx.haveHdr
      BY DEF PayloadAt
    <3>3. rxBuf' \in [pool : RxPools \cup {"none"}, bytes : Seq(Nat \X Nat)]
      BY <1>9, <2>1
    <3>4. rxBuf'.pool = PoolOf(sent'[p]) \/ Misfit(p, rxBuf.pool)'
      BY <1>9, <2>1, <3>1
    <3>5. QED
      BY <2>3, <2>4, <3>2, <3>3, <3>4 DEF BufferOf, PoolOf, IsAcl
  <2>7. History(p)'
    <3>1. Over(p)' = Over(p)
      BY <2>3 DEF Over
    <3>2. p \in 0 .. Len(sent)
      BY <1>10
    <3>3. QED
      BY <1>1, <1>10, <2>1, <3>1, <3>2, HistoryKept DEF RxAt
  <2>8. QueueFits'
    BY <1>1, <1>10, <2>1, QueueKept
  <2>9. QED
    BY <1>1, <1>7, <1>10, <2>3, <2>5, <2>6, <2>7, <2>8 DEF RxInv, RxAt, RxTypes
<1>13. CASE ~ (k < rem)
  <2>1. k = rem /\ F - rem + k = F /\ F - rem + k + 1 = F + 1 /\ ~ (F + 1 <= F)
    BY <1>3, <1>6, <1>13
  <2>2. rx' = RxIdle /\ rxBuf' = NoBuf /\ Deliver(full, rx.hdr) /\ UNCHANGED lost
    BY <1>5, <1>9, <1>13
  <2>3. IdleAt(p)'
    <3>1. Between(p)'
      BY <1>7, <1>11, <2>1 DEF InFrame
    <3>2. QED
      BY <2>2, <3>1 DEF IdleAt, RxIdle
  <2>4. BufferOf(p)'
    <3>1. <<>> \in Seq(Nat \X Nat)
      OBVIOUS
    <3>2. QED
      BY <2>2, <3>1 DEF BufferOf, NoBuf, RxIdle
  <2>5. History(p)'
    <3>1. received' = Append(received, Body(p, sent[p]))
      BY <1>2, <1>9, <2>1, <2>2 DEF Deliver, Body, Piece
    <3>2. QED
      BY <1>1, <1>3, <2>2, <3>1, HistoryDelivers DEF RxAt, RxIdle
  <2>6. QueueFits'
    <3>1. CASE rxQueue' = rxQueue
      BY <1>1, <1>10, <3>1, QueueKept
    <3>2. CASE rxQueue' # rxQueue
      <4>1. rxQueue' = Append(rxQueue, [pool |-> buf.pool, pkt |-> p])
        BY <1>3, <1>9, <2>2, <3>2 DEF Deliver
      <4>2. buf.pool \in RxPools
        OBVIOUS
      <4>3. QED
        BY <1>1, <4>1, <4>2, QueueGrows
    <3>3. QED
      BY <3>1, <3>2
  <2>7. RxTypes'
    <3>1. <<>> \in Seq(Nat \X Nat)
      OBVIOUS
    <3>2. QED
      BY <2>2, <3>1 DEF RxTypes, RxRecord, RxIdle
  <2>8. QED
    BY <1>1, <1>7, <1>10, <2>3, <2>4, <2>5, <2>6, <2>7 DEF RxInv, RxAt
<1>14. QED
  BY <1>12, <1>13

LEMMA ReadPayloadKeepsRx ==
    ASSUME RxInv, ReadPayload
    PROVE  RxInv'
<1>1. /\ sent \in Seq(Kinds) /\ WireWhole /\ rx \in RxRecord /\ QueueFits
      /\ UNCHANGED sent /\ rx.discard = 0 /\ rx.haveHdr
  BY DEF RxInv, RxTypes, ReadPayload
<1>2. PICK p \in 0 .. Len(sent) : RxAt(p)
  BY DEF RxInv
<1>3. PayloadAt(p) /\ p \in 1 .. Len(sent) /\ BufferOf(p)
  <2>1. ~ IdleAt(p)
    BY <1>1 DEF IdleAt, RxIdle
  <2>2. ~ HeaderAt(p) /\ ~ DiscardAt(p)
    BY <1>1 DEF HeaderAt, DiscardAt
  <2>3. QED
    BY <1>2, <2>1, <2>2 DEF RxAt, PayloadAt
<1>4. /\ FrameLen(sent[p]) \in Nat /\ PayloadLen(sent[p]) \in Nat /\ HdrLen(sent[p]) \in 2 .. 4
      /\ FrameLen(sent[p]) = HdrLen(sent[p]) + PayloadLen(sent[p])
      /\ PoolOf(sent[p]) \in RxPools /\ rx.remaining \in Nat /\ p \in Nat
      /\ rx.hdr[1][1] = p /\ KindOf(rx.hdr) = sent[p] /\ rx.hdr = Piece(p, HdrLen(sent[p]))
  BY <1>3, PayloadFacts
<1>5. CASE rxBuf # NoBuf
  <2>1. /\ rxBuf \in [pool : RxPools \cup {"none"}, bytes : Seq(Nat \X Nat)]
        /\ rxBuf.pool # "none"
        /\ rxBuf.pool = PoolOf(sent[p]) \/ Misfit(p, rxBuf.pool)
    BY <1>3, <1>5 DEF BufferOf
  <2>2. PICK buf : buf = rxBuf
    OBVIOUS
  <2>3. buf \in [pool : RxPools, bytes : Seq(Nat \X Nat)]
    BY <2>1, <2>2
  <2>4. ReadInto(buf, 0)
    BY <1>5, <2>2 DEF ReadPayload
  <2>5. /\ buf.bytes = Piece(p, FrameLen(sent[p]) - rx.remaining)
        /\ PayloadLen(sent[p]) <= Room[buf.pool]
    BY <1>3, <1>5, <2>2 DEF PayloadAt
  <2>6. buf.pool = PoolOf(sent[p]) \/ Misfit(p, buf.pool)
    BY <2>1, <2>2
  <2>7. QED
    BY <1>1, <1>2, <1>3, <2>3, <2>4, <2>5, <2>6, ReadIntoKeepsRx
<1>6. CASE rxBuf = NoBuf
  <2>1. PICK pool : pool = PoolOf(sent[p])
    OBVIOUS
  <2>2. pool \in RxPools /\ Room[pool] \in Nat
    BY <1>4, <2>1, TransportAssumption
  <2>3. rx.remaining = PayloadLen(sent[p])
    BY <1>3, <1>6 DEF PayloadAt
  <2>4. CASE NoBuffer
    <3>1. /\ rx.discardable /\ lost' = lost \cup {p}
          /\ rx' = [RxIdle EXCEPT !.discard = rx.remaining]
          /\ UNCHANGED <<wire, rxBuf, rxQueue, received>>
      BY <1>4, <2>4 DEF NoBuffer
    <3>2. sent[p] = "adv"
      BY <1>3, <3>1 DEF PayloadAt
    <3>3. BufferOf(p)'
      <4>1. <<>> \in Seq(Nat \X Nat)
        OBVIOUS
      <4>2. QED
        BY <1>6, <3>1, <4>1 DEF BufferOf, NoBuf, RxIdle
    <3>4. QED
      BY <1>1, <1>2, <1>3, <1>6, <3>1, <3>2, <3>3, GiveUpKeepsRx
  <2>5. CASE Room[pool] < rx.remaining /\ DoesNotFit(pool)
    <3>1. /\ lost' = lost \cup {p} /\ rxBuf' = [pool |-> pool, bytes |-> <<>>]
          /\ rx' = [RxIdle EXCEPT !.discard = rx.remaining]
          /\ UNCHANGED <<wire, rxQueue, received>>
      BY <1>4, <2>5 DEF DoesNotFit
    <3>2. Misfit(p, pool)
      <4>1. FrameLen(sent[p]) > Room[pool]
        BY <1>4, <2>2, <2>3, <2>5
      <4>2. p \in 1 .. p
        BY <1>3
      <4>3. QED
        BY <2>1, <4>1, <4>2 DEF Misfit, Oversize
    <3>3. BufferOf(p)'
      <4>1. <<>> \in Seq(Nat \X Nat) /\ pool # "none"
        BY <2>2 DEF RxPools
      <4>2. Misfit(p, pool)'
        BY <1>1, <3>2
           DEF Misfit, Oversize, PoolOf, FrameLen, PayloadLen, HdrLen, IsAcl, IsMeta
      <4>3. rxBuf' \in [pool : RxPools \cup {"none"}, bytes : Seq(Nat \X Nat)]
        BY <2>2, <3>1, <4>1
      <4>4. rxBuf'.pool = pool /\ rxBuf'.bytes = <<>>
        BY <3>1
      <4>5. Misfit(p, rxBuf.pool)'
        BY <4>2, <4>4 DEF Misfit
      <4>6. QED
        BY <4>1, <4>3, <4>4, <4>5 DEF BufferOf
    <3>4. QED
      BY <1>1, <1>2, <1>3, <1>6, <2>2, <3>1, <3>2, <3>3, GiveUpKeepsRx
  <2>6. CASE ~ (Room[pool] < rx.remaining) /\ ReadInto([pool |-> pool, bytes |-> rx.hdr], 1)
    <3>1. PICK buf : buf = [pool |-> pool, bytes |-> rx.hdr]
      OBVIOUS
    <3>2. rx.hdr \in Seq(Nat \X Nat)
      BY <1>1 DEF RxRecord
    <3>3. buf \in [pool : RxPools, bytes : Seq(Nat \X Nat)] /\ buf.pool = pool /\ buf.bytes = rx.hdr
      BY <2>2, <3>1, <3>2
    <3>4. ReadInto(buf, 1)
      BY <2>6, <3>1
    <3>5. FrameLen(sent[p]) - rx.remaining = HdrLen(sent[p])
      BY <1>4, <2>3
    <3>6. buf.bytes = Piece(p, FrameLen(sent[p]) - rx.remaining)
      BY <1>4, <3>3, <3>5
    <3>7. PayloadLen(sent[p]) <= Room[buf.pool]
      BY <1>4, <2>2, <2>3, <2>6, <3>3
    <3>8. QED
      BY <1>1, <1>2, <1>3, <2>1, <3>3, <3>4, <3>6, <3>7, ReadIntoKeepsRx
  <2>7. QED
    BY <1>4, <1>6, <2>1, <2>4, <2>5, <2>6 DEF ReadPayload
<1>7. QED
  BY <1>5, <1>6

LEMMA InitRx == Init => RxInv
<1>1. SUFFICES ASSUME Init PROVE RxInv
  OBVIOUS
<1>2. /\ sent = <<>> /\ wire = <<>> /\ rx = RxIdle /\ rxBuf = NoBuf /\ rxQueue = <<>>
      /\ received = <<>> /\ lost = {}
  BY <1>1 DEF Init
<1>3. <<>> \in Seq(Nat \X Nat) /\ <<>> \in Seq(Seq(Nat \X Nat)) /\ <<>> \in Seq(Kinds)
  OBVIOUS
<1>4. Len(sent) = 0 /\ Len(wire) = 0 /\ Len(received) = 0 /\ Len(rxQueue) = 0 /\ 0 \in 0 .. Len(sent)
  BY <1>2
<1>5. IdleAt(0)
  BY <1>2, <1>4 DEF IdleAt, Between
<1>6. BufferOf(0)
  BY <1>2, <1>3 DEF BufferOf, NoBuf
<1>7. History(0)
  BY <1>2, <1>3, <1>4 DEF History, Over, RxIdle
<1>8. WireWhole /\ RxTypes /\ QueueFits
  BY <1>2, <1>3, <1>4 DEF WireWhole, RxTypes, RxRecord, RxIdle, QueueFits
<1>9. QED
  BY <1>2, <1>3, <1>4, <1>5, <1>6, <1>7, <1>8 DEF RxInv, RxAt

LEMMA StepRx == RxInv /\ [Next]_vars => RxInv'
<1>1. SUFFICES ASSUME RxInv, [Next]_vars PROVE RxInv'
  OBVIOUS
<1>2. CASE \E kind \in Kinds : Emit(kind)
  BY <1>1, <1>2, EmitKeepsRx
<1>3. CASE \E kind \in TxKinds : Send(kind)
  BY <1>1, <1>3, OthersKeepRx DEF Send
<1>4. CASE GetType
  BY <1>1, <1>4, GetTypeKeepsRx
<1>5. CASE ReadHeader
  BY <1>1, <1>5, ReadHeaderKeepsRx
<1>6. CASE ReadPayload
  BY <1>1, <1>6, ReadPayloadKeepsRx
<1>7. CASE Discard
  BY <1>1, <1>7, DiscardKeepsRx
<1>8. CASE ProcessTx
  BY <1>1, <1>8, OthersKeepRx DEF ProcessTx
<1>9. CASE RxThread
  BY <1>1, <1>9, RxThreadKeepsRx
<1>10. CASE Sleep \/ TimerWake
  BY <1>1, <1>10, OthersKeepRx DEF Sleep, TimerWake
<1>11. CASE UNCHANGED vars
  BY <1>1, <1>11, OthersKeepRx DEF vars
<1>12. QED
  BY <1>1, <1>2, <1>3, <1>4, <1>5, <1>6, <1>7, <1>8, <1>9, <1>10, <1>11 DEF Next, ProcessRx

\* The receiver and the wire stay at the same byte.
THEOREM ReceiverInStep == Spec => []RxInv
<1>1. Init => RxInv
  BY InitRx
<1>2. RxInv /\ [Next]_vars => RxInv'
  BY StepRx
<1>3. QED
  BY <1>1, <1>2, PTL DEF Spec

-----------------------------------------------------------------------------
(* The transmitter *)

\* The bytes given to the controller are whole packets, one after the other.
Follows(o) ==
    /\ o \in Seq(Nat \X Nat)
    /\ \A i \in 1 .. Len(o) :
          /\ o[i][1] \in 1 .. Len(given)
          /\ o[i] = IF i = 1 THEN <<1, 0>> ELSE AfterByte(o[i - 1])

\* The last of them ended packet n.
OutTo(o, n) ==
    IF n = 0 THEN o = <<>> ELSE o # <<>> /\ o[Len(o)] = <<n, TxLen[given[n]]>>

\* The packets of the list are the last that were given to h4_send.
LastGiven(list) ==
    /\ list \in Seq(Nat) /\ Len(list) <= Len(given)
    /\ \A i \in 1 .. Len(list) : list[i] = Len(given) - Len(list) + i

\* cur is the packet before them, and the bytes of it that are out.
TxAt(cur, rest, o) ==
    /\ cur \in [pkt : Nat, typed : BOOLEAN, done : Nat]
    /\ LastGiven(rest)
    /\ cur.pkt # 0 /\ cur.pkt = Len(given) - Len(rest) /\ cur.done < TxLen[given[cur.pkt]]
    /\ ~ cur.typed => cur.done = 0
    /\ IF cur.typed THEN o # <<>> /\ o[Len(o)] = <<cur.pkt, cur.done>>
                    ELSE OutTo(o, cur.pkt - 1)

TxInv ==
    /\ given \in Seq(TxKinds) /\ Follows(out)
    /\ IF tx.pkt # 0 THEN TxAt(tx, txFifo, out)
       ELSE tx = NoTx /\ LastGiven(txFifo) /\ OutTo(out, Len(given) - Len(txFifo))

\* The packets of the list, when its first goes out.
LEMMA NextPacket ==
    ASSUME given \in Seq(TxKinds), NEW list, LastGiven(list), list # <<>>,
           NEW o, OutTo(o, Len(given) - Len(list))
    PROVE  TxAt([NoTx EXCEPT !.pkt = Head(list)], Tail(list), o)
<1> DEFINE cur == [NoTx EXCEPT !.pkt = Head(list)]
           rest == Tail(list)
           n == Len(given) - Len(list)
<1>1. list \in Seq(Nat) /\ Len(list) \in Nat /\ Len(given) \in Nat /\ Len(list) > 0
      /\ Len(list) <= Len(given)
  BY DEF LastGiven
<1>2. \A i \in 1 .. Len(list) : list[i] = n + i
  BY DEF LastGiven
<1>3. rest \in Seq(Nat) /\ Len(rest) = Len(list) - 1 /\ \A i \in 1 .. Len(rest) : rest[i] = list[i + 1]
  BY <1>1, HeadTailProperties
<1> HIDE DEF rest
<1>4. Head(list) = n + 1 /\ n \in Nat
  <2>1. 1 \in 1 .. Len(list) /\ Head(list) = list[1]
    BY <1>1
  <2>2. n \in Nat
    BY <1>1
  <2>3. list[1] = n + 1
    BY <1>2, <2>1
  <2>4. QED
    BY <2>1, <2>2, <2>3
<1> HIDE DEF n
<1>5. /\ cur \in [pkt : Nat, typed : BOOLEAN, done : Nat]
      /\ cur.pkt = n + 1 /\ cur.typed = FALSE /\ cur.done = 0
  <2>1. Head(list) \in Nat
    BY <1>4
  <2>2. /\ NoTx \in [pkt : Nat, typed : BOOLEAN, done : Nat]
        /\ NoTx.typed = FALSE /\ NoTx.done = 0
    BY DEF NoTx
  <2>3. QED
    BY <1>4, <2>1, <2>2
<1> HIDE DEF cur
<1>6. LastGiven(rest)
  <2>1. Len(given) - Len(rest) = n + 1 /\ Len(rest) <= Len(given)
    BY <1>1, <1>3 DEF n
  <2>2. ASSUME NEW i \in 1 .. Len(rest) PROVE rest[i] = (n + 1) + i
    <3>1. i + 1 \in 1 .. Len(list) /\ n + (i + 1) = (n + 1) + i
      BY <1>1, <1>3, <1>4
    <3>2. QED
      BY <1>2, <1>3, <3>1
  <2>3. QED
    BY <1>3, <2>1, <2>2 DEF LastGiven
<1>7. n + 1 = Len(given) - Len(rest) /\ n + 1 # 0 /\ n + 1 \in 1 .. Len(given) /\ (n + 1) - 1 = n
  BY <1>1, <1>3, <1>4 DEF n
<1>8. TxLen[given[n + 1]] > 0
  <2>1. given[n + 1] \in TxKinds
    BY <1>7
  <2>2. TxLen[given[n + 1]] \in Nat \ {0}
    BY <2>1, TransportAssumption
  <2>3. QED
    BY <2>2
<1>9. OutTo(o, cur.pkt - 1)
  BY <1>5, <1>7 DEF n
<1>10. QED
  BY <1>5, <1>6, <1>7, <1>8, <1>9 DEF TxAt, cur, rest

\* One byte more.
LEMMA OneByteMore ==
    ASSUME NEW o, Follows(o), NEW b \in (1 .. Len(given)) \X Nat,
           b = IF o = <<>> THEN <<1, 0>> ELSE AfterByte(o[Len(o)])
    PROVE  Follows(Append(o, b)) /\ Append(o, b) # <<>> /\ Append(o, b)[Len(Append(o, b))] = b
<1> DEFINE m == Append(o, b)
<1>1. o \in Seq(Nat \X Nat) /\ b \in Nat \X Nat /\ b[1] \in 1 .. Len(given) /\ Len(o) \in Nat
  BY DEF Follows
<1>2. /\ m \in Seq(Nat \X Nat) /\ Len(m) = Len(o) + 1 /\ m[Len(o) + 1] = b
      /\ \A i \in 1 .. Len(o) : m[i] = o[i]
  BY <1>1, AppendProperties
<1> HIDE DEF m
<1>3. ASSUME NEW i \in 1 .. Len(m)
      PROVE  /\ m[i][1] \in 1 .. Len(given)
             /\ m[i] = IF i = 1 THEN <<1, 0>> ELSE AfterByte(m[i - 1])
  <2>1. CASE i \in 1 .. Len(o)
    <3>1. i # 1 => i - 1 \in 1 .. Len(o)
      BY <1>1, <2>1
    <3>2. m[i] = o[i] /\ (i # 1 => m[i - 1] = o[i - 1])
      BY <1>2, <2>1, <3>1
    <3>3. QED
      BY <2>1, <3>2 DEF Follows
  <2>2. CASE i = Len(o) + 1
    <3>1. CASE o = <<>>
      BY <1>1, <1>2, <2>2, <3>1
    <3>2. CASE o # <<>>
      <4>1. i # 1 /\ i - 1 = Len(o) /\ Len(o) \in 1 .. Len(o)
        BY <1>1, <2>2, <3>2
      <4>2. m[i - 1] = o[Len(o)]
        BY <1>2, <4>1
      <4>3. QED
        BY <1>1, <1>2, <2>2, <3>2, <4>1, <4>2
    <3>3. QED
      BY <3>1, <3>2
  <2>3. i \in 1 .. Len(o) \/ i = Len(o) + 1
    BY <1>1, <1>2
  <2>4. QED
    BY <2>1, <2>2, <2>3
<1>4. m # <<>> /\ m[Len(m)] = b
  BY <1>1, <1>2
<1>5. QED
  BY <1>2, <1>3, <1>4 DEF Follows, m

\* The k bytes of packet p after its first d.
Bytes(p, d, k) == [i \in 1 .. k |-> <<p, d + i>>]

\* Byte d of packet p is the last given to the controller.
EndsAt(o, p, d) == Follows(o) /\ o # <<>> /\ o[Len(o)] = <<p, d>>

\* Bytes of packet p that follow the last one.
LEMMA BytesMore ==
    ASSUME given \in Seq(TxKinds), NEW p \in 1 .. Len(given), NEW d \in Nat, NEW k \in Nat,
           d + k <= TxLen[given[p]], NEW o, EndsAt(o, p, d)
    PROVE  EndsAt(o \o Bytes(p, d, k), p, d + k)
<1> DEFINE b == Bytes(p, d, k)
           m == o \o b
<1>0. Follows(o) /\ o # <<>> /\ o[Len(o)] = <<p, d>>
  BY DEF EndsAt
<1>1. o \in Seq(Nat \X Nat) /\ Len(o) \in Nat /\ Len(o) > 0 /\ p \in Nat
      /\ TxLen[given[p]] \in Nat
  <2>1. given[p] \in TxKinds
    OBVIOUS
  <2>2. TxLen[given[p]] \in Nat
    BY <2>1, TransportAssumption
  <2>3. QED
    BY <1>0, <2>2 DEF Follows
<1>2. b \in Seq(Nat \X Nat) /\ Len(b) = k /\ \A i \in 1 .. k : b[i] = <<p, d + i>>
  <2>1. \A i \in 1 .. k : <<p, d + i>> \in Nat \X Nat
    BY <1>1
  <2>2. QED
    BY <2>1 DEF Bytes
<1> HIDE DEF b
<1>3. /\ m \in Seq(Nat \X Nat) /\ Len(m) = Len(o) + k
      /\ \A i \in 1 .. Len(o) + k : m[i] = IF i <= Len(o) THEN o[i] ELSE b[i - Len(o)]
  BY <1>1, <1>2, ConcatProperties
<1> HIDE DEF m
<1>4. \A i \in 1 .. Len(o) : m[i] = o[i]
  <2>1. \A i \in 1 .. Len(o) : i \in 1 .. Len(o) + k /\ i <= Len(o)
    BY <1>1
  <2>2. QED
    BY <1>3, <2>1
<1>5. ASSUME NEW i \in Len(o) .. Len(o) + k PROVE m[i] = <<p, d + i - Len(o)>>
  <2>1. CASE i = Len(o)
    <3>1. i \in 1 .. Len(o) /\ d + i - Len(o) = d
      BY <1>1, <2>1
    <3>2. QED
      BY <1>0, <1>4, <2>1, <3>1
  <2>2. CASE i # Len(o)
    <3>1. i \in 1 .. Len(o) + k /\ ~ (i <= Len(o)) /\ i - Len(o) \in 1 .. k
          /\ d + (i - Len(o)) = d + i - Len(o)
      BY <1>1, <2>2
    <3>2. QED
      BY <1>2, <1>3, <3>1
  <2>3. QED
    BY <2>1, <2>2
<1>6. ASSUME NEW i \in 1 .. Len(m)
      PROVE  /\ m[i][1] \in 1 .. Len(given)
             /\ m[i] = IF i = 1 THEN <<1, 0>> ELSE AfterByte(m[i - 1])
  <2>1. CASE i <= Len(o)
    <3>1. i \in 1 .. Len(o) /\ (i # 1 => i - 1 \in 1 .. Len(o))
      BY <1>1, <2>1
    <3>2. m[i] = o[i] /\ (i # 1 => m[i - 1] = o[i - 1])
      BY <1>4, <3>1
    <3>3. QED
      BY <1>0, <3>1, <3>2 DEF Follows
  <2>2. CASE i > Len(o)
    <3>0. i \in Nat /\ i > Len(o) /\ i <= Len(o) + k
      BY <1>3, <2>2
    <3>1. i \in Len(o) .. Len(o) + k /\ i - 1 \in Len(o) .. Len(o) + k /\ i # 1
      BY <1>1, <3>0
    <3>2. m[i] = <<p, d + i - Len(o)>> /\ m[i - 1] = <<p, d + (i - 1) - Len(o)>>
      BY <1>5, <3>1
    <3>3. d + (i - 1) - Len(o) < TxLen[given[p]] /\ d + (i - 1) - Len(o) + 1 = d + i - Len(o)
      <4>1. i - Len(o) <= k
        BY <1>1, <3>0
      <4>2. QED
        BY <1>1, <3>0, <4>1
    <3>4. AfterByte(m[i - 1]) = <<p, d + i - Len(o)>>
      BY <3>2, <3>3 DEF AfterByte
    <3>5. QED
      BY <3>1, <3>2, <3>4
  <2>3. i <= Len(o) \/ i > Len(o)
    BY <1>1
  <2>4. QED
    BY <2>1, <2>2, <2>3
<1>7. m # <<>> /\ m[Len(m)] = <<p, d + k>>
  <2>1. Len(o) + k \in Len(o) .. Len(o) + k /\ d + (Len(o) + k) - Len(o) = d + k /\ Len(m) # 0
    <3>1. Len(m) = Len(o) + k
      BY <1>3
    <3>2. QED
      BY <1>1, <3>1
  <2>2. m[Len(o) + k] = <<p, d + (Len(o) + k) - Len(o)>>
    BY <1>5, <2>1
  <2>3. Len(m) = Len(o) + k
    BY <1>3
  <2>4. QED
    BY <2>1, <2>2, <2>3
<1>8. Follows(m)
  BY <1>3, <1>6 DEF Follows
<1>9. EndsAt(m, p, d + k)
  BY <1>7, <1>8 DEF EndsAt
<1>10. QED
  BY <1>9 DEF m, b

\* TxInv of the next state, when no packet was given.
LEMMA TxStays ==
    ASSUME given \in Seq(TxKinds), given' = given, Follows(out'),
           IF tx'.pkt # 0 THEN TxAt(tx', txFifo', out')
           ELSE tx' = NoTx /\ LastGiven(txFifo') /\ OutTo(out', Len(given) - Len(txFifo'))
    PROVE  TxInv'
<1>1. Follows(out)'
  BY DEF Follows, AfterByte
<1>2. \A list : LastGiven(list)' <=> LastGiven(list')
  BY DEF LastGiven
<1>3. LastGiven(txFifo)' <=> LastGiven(txFifo')
  BY DEF LastGiven
<1>4. OutTo(out, Len(given) - Len(txFifo))' <=> OutTo(out', Len(given) - Len(txFifo'))
  BY DEF OutTo
<1>5. TxAt(tx, txFifo, out)' <=> TxAt(tx', txFifo', out')
  BY DEF TxAt, LastGiven, OutTo
<1>6. QED
  BY <1>1, <1>3, <1>4, <1>5 DEF TxInv, NoTx

LEMMA SendKeepsTx ==
    ASSUME TxInv, NEW kind \in TxKinds, Send(kind)
    PROVE  TxInv'
<1>1. given \in Seq(TxKinds) /\ Follows(out) /\ Len(given) \in Nat
  BY DEF TxInv
<1>2. /\ given' = Append(given, kind) /\ txFifo' = Append(txFifo, Len(given) + 1)
      /\ tx' = tx /\ out' = out
  BY DEF Send
<1>3. /\ given' \in Seq(TxKinds) /\ Len(given') = Len(given) + 1
      /\ \A i \in 1 .. Len(given) : given'[i] = given[i]
  BY <1>1, <1>2, AppendProperties
<1>4. Follows(out)'
  <2>1. out \in Seq(Nat \X Nat) /\ Len(out) \in Nat
    BY <1>1 DEF Follows
  <2>2. ASSUME NEW i \in 1 .. Len(out)
        PROVE  /\ out[i][1] \in 1 .. Len(given')
               /\ out[i] = IF i = 1 THEN <<1, 0>> ELSE AfterByte(out[i - 1])'
    <3>1. out[i][1] \in 1 .. Len(given) /\ out[i] = IF i = 1 THEN <<1, 0>> ELSE AfterByte(out[i - 1])
      BY <1>1 DEF Follows
    <3>2. out[i][1] \in 1 .. Len(given')
      BY <1>1, <1>3, <3>1
    <3>3. CASE i # 1
      <4>1. i - 1 \in 1 .. Len(out)
        BY <2>1, <3>3
      <4>2. out[i - 1][1] \in 1 .. Len(given)
        BY <1>1, <4>1 DEF Follows
      <4>3. given'[out[i - 1][1]] = given[out[i - 1][1]]
        BY <1>3, <4>2
      <4>4. AfterByte(out[i - 1])' = AfterByte(out[i - 1])
        BY <1>2, <4>3 DEF AfterByte
      <4>5. QED
        BY <3>1, <3>2, <4>4
    <3>4. QED
      BY <3>1, <3>2, <3>3
  <2>3. QED
    BY <1>2, <2>1, <2>2 DEF Follows
<1>5. ASSUME LastGiven(txFifo)
      PROVE  LastGiven(txFifo)' /\ Len(given') - Len(txFifo') = Len(given) - Len(txFifo)
  <2>1. txFifo \in Seq(Nat) /\ Len(txFifo) \in Nat /\ Len(txFifo) <= Len(given)
    BY <1>5 DEF LastGiven
  <2>2. /\ txFifo' \in Seq(Nat) /\ Len(txFifo') = Len(txFifo) + 1
        /\ txFifo'[Len(txFifo) + 1] = Len(given) + 1
        /\ \A i \in 1 .. Len(txFifo) : txFifo'[i] = txFifo[i]
    BY <1>1, <1>2, <2>1, AppendProperties
  <2>3. Len(given') - Len(txFifo') = Len(given) - Len(txFifo) /\ Len(txFifo') <= Len(given')
    BY <1>1, <1>3, <2>1, <2>2
  <2>4. ASSUME NEW i \in 1 .. Len(txFifo') PROVE txFifo'[i] = Len(given') - Len(txFifo') + i
    <3>1. CASE i \in 1 .. Len(txFifo)
      <4>1. txFifo[i] = Len(given) - Len(txFifo) + i
        BY <1>5, <3>1 DEF LastGiven
      <4>2. QED
        BY <2>2, <2>3, <3>1, <4>1
    <3>2. CASE i = Len(txFifo) + 1
      <4>1. Len(given) + 1 = Len(given) - Len(txFifo) + i
        BY <1>1, <2>1, <3>2
      <4>2. QED
        BY <2>2, <2>3, <3>2, <4>1
    <3>3. i \in 1 .. Len(txFifo) \/ i = Len(txFifo) + 1
      BY <2>1, <2>2
    <3>4. QED
      BY <3>1, <3>2, <3>3
  <2>5. QED
    BY <2>2, <2>3, <2>4 DEF LastGiven
<1>6. ASSUME NEW n \in Nat, n <= Len(given), OutTo(out, n) PROVE OutTo(out, n)'
  <2>1. n # 0 => n \in 1 .. Len(given)
    BY <1>1, <1>6
  <2>2. n # 0 => given'[n] = given[n]
    BY <1>3, <2>1
  <2>3. QED
    BY <1>2, <1>6, <2>2 DEF OutTo
<1>7. CASE tx.pkt # 0
  <2>1. TxAt(tx, txFifo, out)
    BY <1>7 DEF TxInv
  <2>2. LastGiven(txFifo) /\ tx.pkt \in Nat /\ tx.pkt = Len(given) - Len(txFifo)
        /\ Len(txFifo) \in Nat
    BY <2>1 DEF TxAt, LastGiven
  <2>3. tx.pkt \in 1 .. Len(given) /\ tx.pkt - 1 \in Nat /\ tx.pkt - 1 <= Len(given)
    BY <1>1, <1>7, <2>2
  <2>4. given'[tx.pkt] = given[tx.pkt]
    BY <1>3, <2>3
  <2>5. ~ tx.typed => OutTo(out, tx.pkt - 1)'
    <3>1. PICK n : n = tx.pkt - 1
      OBVIOUS
    <3>2. ~ tx.typed => OutTo(out, n)
      BY <2>1, <3>1 DEF TxAt
    <3>3. ~ tx.typed => OutTo(out, n)'
      BY <1>6, <2>3, <3>1, <3>2
    <3>4. QED
      BY <1>2, <3>1, <3>3
  <2>6. LastGiven(txFifo)' /\ tx'.pkt = Len(given') - Len(txFifo')
    BY <1>2, <1>5, <2>2
  <2>7. TxAt(tx, txFifo, out)'
    BY <1>2, <2>1, <2>4, <2>5, <2>6 DEF TxAt
  <2>8. QED
    BY <1>2, <1>3, <1>4, <1>7, <2>7 DEF TxInv
<1>8. CASE tx.pkt = 0
  <2>1. tx = NoTx /\ LastGiven(txFifo) /\ OutTo(out, Len(given) - Len(txFifo))
    BY <1>8 DEF TxInv
  <2>2. Len(given) - Len(txFifo) \in Nat /\ Len(given) - Len(txFifo) <= Len(given)
    BY <1>1, <2>1 DEF LastGiven
  <2>3. PICK n : n = Len(given) - Len(txFifo)
    OBVIOUS
  <2>4. OutTo(out, n)'
    BY <1>6, <2>1, <2>2, <2>3
  <2>5. LastGiven(txFifo)' /\ n = Len(given') - Len(txFifo')
    BY <1>5, <2>1, <2>3
  <2>6. OutTo(out, Len(given) - Len(txFifo))'
    BY <2>4, <2>5
  <2>7. QED
    BY <1>2, <1>3, <1>4, <1>8, <2>1, <2>5, <2>6 DEF TxInv, NoTx
<1>9. QED
  BY <1>7, <1>8

\* process_tx, once it has the packet to go on with: cur, and the packets after it.
LEMMA BytesOutKeepTx ==
    ASSUME given \in Seq(TxKinds), given' = given, Follows(out),
           NEW cur, NEW rest, TxAt(cur, rest, out),
           NEW k \in 0 .. TxLen[given[cur.pkt]] - cur.done,
           out' = out \o (IF cur.typed THEN <<>> ELSE <<<<cur.pkt, 0>>>>)
                      \o [i \in 1 .. k |-> <<cur.pkt, cur.done + i>>],
           IF k < TxLen[given[cur.pkt]] - cur.done
           THEN tx' = [cur EXCEPT !.typed = TRUE, !.done = @ + k] /\ txFifo' = rest
           ELSE tx' = TxNext(rest) /\ txFifo' = TxAfter(rest)
    PROVE  TxInv'
<1>1. PICK p, d : p = cur.pkt /\ d = cur.done
  OBVIOUS
<1>2. PICK len : len = TxLen[given[p]]
  OBVIOUS
<1>3. /\ p \in 1 .. Len(given) /\ d \in Nat /\ LastGiven(rest) /\ Len(rest) \in Nat
      /\ p = Len(given) - Len(rest) /\ d < len
      /\ cur \in [pkt : Nat, typed : BOOLEAN, done : Nat]
  <2>1. /\ cur \in [pkt : Nat, typed : BOOLEAN, done : Nat] /\ LastGiven(rest)
        /\ p # 0 /\ p = Len(given) - Len(rest) /\ d < len
    BY <1>1, <1>2 DEF TxAt
  <2>2. p \in Nat /\ d \in Nat /\ Len(rest) \in Nat /\ Len(given) \in Nat
    BY <1>1, <2>1 DEF LastGiven
  <2>3. p \in 1 .. Len(given)
    BY <2>1, <2>2
  <2>4. QED
    BY <2>1, <2>2, <2>3
<1>4. len \in Nat
  <2>1. given[p] \in TxKinds
    BY <1>3
  <2>2. QED
    BY <1>2, <2>1, TransportAssumption
<1>5. out \in Seq(Nat \X Nat) /\ <<p, 0>> \in Nat \X Nat
  BY <1>3 DEF Follows
<1> DEFINE typed == out \o (IF cur.typed THEN <<>> ELSE <<<<cur.pkt, 0>>>>)
<1>6. Follows(typed) /\ typed # <<>> /\ typed[Len(typed)] = <<p, d>>
  <2>1. CASE cur.typed
    <3>1. typed = out
      BY <1>5, <2>1, ConcatEmptySeq
    <3>2. out # <<>> /\ out[Len(out)] = <<p, d>>
      BY <1>1, <2>1 DEF TxAt
    <3> HIDE DEF typed
    <3>3. QED
      BY <3>1, <3>2
  <2>2. CASE ~ cur.typed
    <3>1. typed = out \o <<<<p, 0>>>>
      BY <1>1, <2>2
    <3>2. Append(out, <<p, 0>>) = out \o <<<<p, 0>>>>
      BY <1>5, AppendIsConcat, Zenon
    <3>3. d = 0 /\ OutTo(out, p - 1)
      BY <1>1, <2>2 DEF TxAt
    <3>4. <<p, 0>> = IF out = <<>> THEN <<1, 0>> ELSE AfterByte(out[Len(out)])
      <4>1. CASE p = 1
        BY <3>3, <4>1 DEF OutTo
      <4>2. CASE p # 1
        <5>1. p - 1 # 0 /\ p - 1 + 1 = p
          BY <1>3, <4>2
        <5>2. out # <<>> /\ out[Len(out)] = <<p - 1, TxLen[given[p - 1]]>>
          BY <3>3, <5>1 DEF OutTo
        <5>3. TxLen[given[p - 1]] \in Nat
          <6>1. p - 1 \in 1 .. Len(given)
            BY <1>3, <4>2
          <6>2. given[p - 1] \in TxKinds
            BY <6>1
          <6>3. QED
            BY <6>2, TransportAssumption
        <5>4. ~ (TxLen[given[p - 1]] < TxLen[given[p - 1]])
          BY <5>3
        <5>5. AfterByte(out[Len(out)]) = <<p - 1 + 1, 0>>
          BY <5>2, <5>4 DEF AfterByte
        <5>6. QED
          BY <5>1, <5>2, <5>5
      <4>3. QED
        BY <4>1, <4>2
    <3>5. <<p, 0>> \in (1 .. Len(given)) \X Nat
      BY <1>3
    <3>6. PICK b : b = <<p, 0>>
      OBVIOUS
    <3>7. Follows(Append(out, b)) /\ Append(out, b) # <<>>
          /\ Append(out, b)[Len(Append(out, b))] = b
      BY <3>4, <3>5, <3>6, OneByteMore
    <3>8. typed = Append(out, b)
      BY <3>1, <3>2, <3>6
    <3>9. QED
      BY <3>3, <3>6, <3>7, <3>8
  <2>3. QED
    BY <2>1, <2>2
<1> HIDE DEF typed
<1>7. k \in Nat /\ d + k <= len /\ (k < len - d <=> d + k < len)
  BY <1>1, <1>2, <1>3, <1>4
<1>8. Follows(out') /\ out' # <<>> /\ out'[Len(out')] = <<p, d + k>>
  <2>1. out' = typed \o Bytes(p, d, k)
    BY <1>1 DEF typed, Bytes
  <2>2. p \in 1 .. Len(given) /\ d \in Nat /\ k \in Nat /\ d + k <= TxLen[given[p]]
    BY <1>2, <1>3, <1>7
  <2>3. EndsAt(typed, p, d)
    BY <1>6 DEF EndsAt
  <2>4. EndsAt(typed \o Bytes(p, d, k), p, d + k)
    BY <2>2, <2>3, BytesMore
  <2>5. QED
    BY <2>1, <2>4 DEF EndsAt
<1>9. CASE d + k < len
  <2>1. tx' = [cur EXCEPT !.typed = TRUE, !.done = @ + k] /\ txFifo' = rest
    BY <1>1, <1>2, <1>7, <1>9
  <2>2. /\ tx' \in [pkt : Nat, typed : BOOLEAN, done : Nat]
        /\ tx'.pkt = p /\ tx'.typed = TRUE /\ tx'.done = d + k
    <3>1. cur \in [pkt : Nat, typed : BOOLEAN, done : Nat] /\ d + k \in Nat
      BY <1>3, <1>7
    <3>2. tx' = [cur EXCEPT !.typed = TRUE, !.done = d + k]
      BY <1>1, <2>1
    <3>3. QED
      BY <1>1, <3>1, <3>2
  <2>3. p # 0
    BY <1>3
  <2>4. TxAt(tx', txFifo', out')
    BY <1>2, <1>3, <1>8, <1>9, <2>1, <2>2, <2>3 DEF TxAt
  <2>5. QED
    BY <1>8, <2>2, <2>3, <2>4, TxStays
<1>10. CASE ~ (d + k < len)
  <2>1. tx' = TxNext(rest) /\ txFifo' = TxAfter(rest)
    BY <1>1, <1>2, <1>7, <1>10
  <2>2. d + k = len
    <3>1. d \in Nat /\ k \in Nat /\ len \in Nat /\ d + k <= len
      BY <1>3, <1>4, <1>7
    <3>2. QED
      BY <1>10, <3>1
  <2>3. OutTo(out', p)
    <3>1. p # 0
      BY <1>3
    <3>2. QED
      BY <1>2, <1>8, <2>2, <3>1 DEF OutTo
  <2>4. OutTo(out', Len(given) - Len(rest))
    BY <1>3, <2>3
  <2>5. CASE rest = <<>>
    <3>1. tx' = NoTx /\ txFifo' = rest
      BY <2>1, <2>5 DEF TxNext, TxAfter
    <3>2. tx'.pkt = 0
      BY <3>1 DEF NoTx
    <3>3. QED
      BY <1>3, <1>8, <2>4, <3>1, <3>2, TxStays
  <2>6. CASE rest # <<>>
    <3>1. tx' = [NoTx EXCEPT !.pkt = Head(rest)] /\ txFifo' = Tail(rest)
      BY <2>1, <2>6 DEF TxNext, TxAfter
    <3>2. TxAt([NoTx EXCEPT !.pkt = Head(rest)], Tail(rest), out')
      BY <1>3, <2>4, <2>6, NextPacket
    <3>3. TxAt(tx', txFifo', out')
      BY <3>1, <3>2
    <3>4. tx'.pkt # 0
      BY <3>3 DEF TxAt
    <3>5. QED
      BY <1>8, <3>3, <3>4, TxStays
  <2>7. QED
    BY <2>5, <2>6
<1>11. QED
  BY <1>9, <1>10

\* The packet it goes on with.
LEMMA PacketInTransmission ==
    ASSUME TxInv,
           NEW cur, cur = IF tx.pkt # 0 THEN tx ELSE TxNext(txFifo), cur # NoTx,
           NEW rest, rest = IF tx.pkt # 0 THEN txFifo ELSE TxAfter(txFifo)
    PROVE  TxAt(cur, rest, out)
<1>1. CASE tx.pkt # 0
  BY <1>1 DEF TxInv
<1>2. CASE tx.pkt = 0
  <2>1. txFifo # <<>>
    BY <1>2 DEF TxNext
  <2>2. cur = [NoTx EXCEPT !.pkt = Head(txFifo)] /\ rest = Tail(txFifo)
    BY <1>2, <2>1 DEF TxNext, TxAfter
  <2>3. given \in Seq(TxKinds) /\ LastGiven(txFifo) /\ OutTo(out, Len(given) - Len(txFifo))
    BY <1>2 DEF TxInv
  <2>4. QED
    BY <2>1, <2>2, <2>3, NextPacket
<1>3. QED
  BY <1>1, <1>2

LEMMA ProcessTxKeepsTx == TxInv /\ ProcessTx => TxInv'
<1>1. SUFFICES ASSUME TxInv, ProcessTx PROVE TxInv'
  OBVIOUS
<1>2. PICK cur : cur = IF tx.pkt # 0 THEN tx ELSE TxNext(txFifo)
  OBVIOUS
<1>3. PICK rest : rest = IF tx.pkt # 0 THEN txFifo ELSE TxAfter(txFifo)
  OBVIOUS
<1>4. PICK left : left = TxLen[given[cur.pkt]] - cur.done
  OBVIOUS
<1>5. /\ cur # NoTx /\ given' = given
      /\ \/ ~ cur.typed /\ tx' = cur /\ txFifo' = rest /\ out' = out
         \/ \E k \in 0 .. left :
              /\ out' = out \o (IF cur.typed THEN <<>> ELSE <<<<cur.pkt, 0>>>>)
                            \o [i \in 1 .. k |-> <<cur.pkt, cur.done + i>>]
              /\ IF k < left
                 THEN tx' = [cur EXCEPT !.typed = TRUE, !.done = @ + k] /\ txFifo' = rest
                 ELSE tx' = TxNext(rest) /\ txFifo' = TxAfter(rest)
  BY <1>1, <1>2, <1>3, <1>4 DEF ProcessTx
<1>6. TxAt(cur, rest, out)
  BY <1>1, <1>2, <1>3, <1>5, PacketInTransmission
<1>7. given \in Seq(TxKinds) /\ Follows(out) /\ cur.pkt # 0
  BY <1>1, <1>6 DEF TxInv, TxAt
<1>8. CASE tx' = cur /\ txFifo' = rest /\ out' = out
  BY <1>5, <1>6, <1>7, <1>8, TxStays
<1>9. CASE \E k \in 0 .. left :
              /\ out' = out \o (IF cur.typed THEN <<>> ELSE <<<<cur.pkt, 0>>>>)
                            \o [i \in 1 .. k |-> <<cur.pkt, cur.done + i>>]
              /\ IF k < left
                 THEN tx' = [cur EXCEPT !.typed = TRUE, !.done = @ + k] /\ txFifo' = rest
                 ELSE tx' = TxNext(rest) /\ txFifo' = TxAfter(rest)
  <2>1. PICK k \in 0 .. left :
              /\ out' = out \o (IF cur.typed THEN <<>> ELSE <<<<cur.pkt, 0>>>>)
                            \o [i \in 1 .. k |-> <<cur.pkt, cur.done + i>>]
              /\ IF k < left
                 THEN tx' = [cur EXCEPT !.typed = TRUE, !.done = @ + k] /\ txFifo' = rest
                 ELSE tx' = TxNext(rest) /\ txFifo' = TxAfter(rest)
    BY <1>9
  <2>2. QED
    BY <1>4, <1>5, <1>6, <1>7, <2>1, BytesOutKeepTx
<1>10. QED
  BY <1>5, <1>8, <1>9

LEMMA InitTx == Init => TxInv
<1>1. SUFFICES ASSUME Init PROVE TxInv
  OBVIOUS
<1>2. given = <<>> /\ txFifo = <<>> /\ tx = NoTx /\ out = <<>>
  BY <1>1 DEF Init
<1>3. Follows(out) /\ LastGiven(txFifo) /\ OutTo(out, Len(given) - Len(txFifo))
  BY <1>2 DEF Follows, LastGiven, OutTo
<1>4. QED
  BY <1>2, <1>3 DEF TxInv, NoTx

LEMMA StepTx == TxInv /\ [Next]_vars => TxInv'
<1>1. SUFFICES ASSUME TxInv, [Next]_vars PROVE TxInv'
  OBVIOUS
<1>2. CASE \E kind \in TxKinds : Send(kind)
  BY <1>1, <1>2, SendKeepsTx
<1>3. CASE ProcessTx
  BY <1>1, <1>3, ProcessTxKeepsTx
<1>4. CASE UNCHANGED txVars
  <2>1. given' = given /\ txFifo' = txFifo /\ tx' = tx /\ out' = out
    BY <1>4 DEF txVars
  <2>2. given \in Seq(TxKinds) /\ Follows(out)
    BY <1>1 DEF TxInv
  <2>3. IF tx'.pkt # 0 THEN TxAt(tx', txFifo', out')
        ELSE tx' = NoTx /\ LastGiven(txFifo') /\ OutTo(out', Len(given) - Len(txFifo'))
    BY <1>1, <2>1 DEF TxInv
  <2>4. QED
    BY <2>1, <2>2, <2>3, TxStays
<1>5. (\E kind \in TxKinds : Send(kind)) \/ ProcessTx \/ UNCHANGED txVars
  BY <1>1 DEF Next, Emit, GetType, ReadHeader, ReadPayload, Discard, ProcessRx, RxThread, Sleep,
              TimerWake, vars, txVars
<1>6. QED
  BY <1>2, <1>3, <1>4, <1>5

\* The transmitter has given the controller whole packets, up to the one in transmission.
THEOREM TransmitterInStep == Spec => []TxInv
<1>1. Init => TxInv
  BY InitTx
<1>2. TxInv /\ [Next]_vars => TxInv'
  BY StepTx
<1>3. QED
  BY <1>1, <1>2, PTL DEF Spec

-----------------------------------------------------------------------------
(* What the packets and the bytes are found to be *)

LEMMA RxInvFrames ==
    ASSUME RxInv, TxInv
    PROVE  FramesWhole
<1>1. PICK p \in 0 .. Len(sent) : RxAt(p)
  BY DEF RxInv
<1>2. History(p) /\ Len(received) \in Nat /\ Len(sent) \in Nat
  BY <1>1 DEF RxAt, History, RxInv
<1>3. ASSUME NEW i \in DOMAIN received
      PROVE  LET q == received[i][1][1] IN
             /\ received[i] = Body(q, sent[q])
             /\ i > 1 => received[i - 1][1][1] < q
             /\ q \notin lost
  <2>1. i \in 1 .. Len(received)
    BY <1>2, <1>3 DEF History
  <2>2. QED
    BY <1>2, <2>1 DEF History
<1>4. ASSUME NEW a \in DOMAIN sent, NEW b \in DOMAIN sent, a < b, Ended(b)
      PROVE  Ended(a)
  <2>1. b \in Over(p)
    <3>1. CASE b \in lost
      BY <1>2, <3>1 DEF History
    <3>2. CASE b \in ReceivedPkts
      <4>1. PICK i \in DOMAIN received : b = received[i][1][1]
        BY <3>2 DEF ReceivedPkts
      <4>2. QED
        BY <1>2, <4>1 DEF History
    <3>3. QED
      BY <1>4, <3>1, <3>2 DEF Ended
  <2>2. a \in Over(p)
    <3>1. PICK n : n = IF rx.type = "none" THEN p ELSE p - 1
      OBVIOUS
    <3>2. n \in Int /\ Over(p) = 1 .. n
      BY <1>1, <3>1 DEF Over
    <3>3. a \in 1 .. Len(sent)
      BY <1>4 DEF RxInv
    <3>4. QED
      BY <1>2, <1>4, <2>1, <3>2, <3>3
  <2>3. QED
    BY <1>2, <2>2 DEF History
<1>5. \A i \in DOMAIN out :
        /\ out[i][1] \in DOMAIN given
        /\ out[i] = IF i = 1 THEN <<1, 0>> ELSE AfterByte(out[i - 1])
  <2>1. Follows(out) /\ DOMAIN out = 1 .. Len(out) /\ DOMAIN given = 1 .. Len(given)
    BY DEF TxInv, Follows
  <2>2. QED
    BY <2>1 DEF Follows
<1>6. QED
  BY <1>3, <1>4, <1>5 DEF FramesWhole

\* However the driver cuts the streams, bt_recv and the controller are given whole packets,
\* in order, none twice and none passed over (process_rx, process_tx).
THEOREM PacketsWhole == Spec => []FramesWhole
<1>1. RxInv /\ TxInv => FramesWhole
  BY RxInvFrames
<1>2. QED
  BY <1>1, ReceiverInStep, TransmitterInStep, PTL

\* What is lost is an advertising report that found no buffer, is too long for its buffer,
\* or came after a packet that was (read_payload, read_header).
THEOREM LossesAccounted == Spec => []OnlyReportsLost
<1>1. RxInv => OnlyReportsLost
  <2>1. SUFFICES ASSUME RxInv, NEW q \in lost
                 PROVE  sent[q] = "adv" \/ \E o \in 1 .. q : Oversize(sent[o])
    BY DEF OnlyReportsLost
  <2>2. PICK p \in 0 .. Len(sent) : RxAt(p)
    BY <2>1 DEF RxInv
  <2>3. sent[q] = "adv" \/ \E pool \in RxPools : Misfit(q, pool)
    BY <2>2 DEF RxAt, History
  <2>4. QED
    BY <2>3 DEF Misfit
<1>2. QED
  BY <1>1, ReceiverInStep, PTL

-----------------------------------------------------------------------------
(* The buffers *)

\* The buffers of rx_queue, of the receiver, of tx.fifo and of the transmitter.
QueueEntry    == [pool : RxPools, pkt : Nat]
OfPool(pool)  == {b \in QueueEntry : b.pool = pool}
InQueue(pool) == NumberOf(rxQueue, OfPool(pool))
InRx(pool)    == IF rxBuf.pool = pool THEN 1 ELSE 0
GivenOf(pool) == {n \in 1 .. Len(given) : given[n] = pool}
InFifo(pool)  == NumberOf(txFifo, GivenOf(pool))
InTx(pool)    == IF tx.pkt # 0 /\ given[tx.pkt] = pool THEN 1 ELSE 0

BufInv ==
    /\ free \in [Pools -> Nat] /\ asleep \in BOOLEAN /\ monitor \in BOOLEAN
    /\ asleep => monitor
    /\ BuffersAccounted

QueueType == rxQueue \in Seq(QueueEntry)

LEMMA QueueTyped == RxInv => QueueType
<1>1. SUFFICES ASSUME RxInv PROVE QueueType
  OBVIOUS
<1>2. PICK S : S = [pool : RxPools, pkt : 1 .. Len(sent)]
  OBVIOUS
<1>3. rxQueue \in Seq(S)
  BY <1>1, <1>2 DEF RxInv, QueueFits
<1>4. \A e \in S : e \in QueueEntry
  <2>1. Len(sent) \in Nat
    BY <1>1 DEF RxInv
  <2>2. QED
    BY <1>2, <2>1 DEF QueueEntry
<1>5. \A i \in 1 .. Len(rxQueue) : rxQueue[i] \in S
  BY <1>3, ElementType
<1>6. rxQueue \in Seq(QueueEntry)
  BY <1>3, <1>4, <1>5, ElementsType
<1>7. QED
  BY <1>6 DEF QueueType

LEMMA FifoTyped ==
    TxInv => /\ txFifo \in Seq(Nat) /\ given \in Seq(TxKinds)
             /\ \A i \in 1 .. Len(txFifo) : txFifo[i] \in 1 .. Len(given)
             /\ tx.pkt # 0 => tx.pkt \in 1 .. Len(given)
<1>1. SUFFICES ASSUME TxInv
               PROVE /\ txFifo \in Seq(Nat) /\ given \in Seq(TxKinds)
                     /\ \A i \in 1 .. Len(txFifo) : txFifo[i] \in 1 .. Len(given)
                     /\ tx.pkt # 0 => tx.pkt \in 1 .. Len(given)
  OBVIOUS
<1>2. LastGiven(txFifo) /\ given \in Seq(TxKinds)
  BY <1>1 DEF TxInv, TxAt
<1>3. txFifo \in Seq(Nat) /\ Len(txFifo) \in Nat /\ Len(given) \in Nat /\ Len(txFifo) <= Len(given)
  BY <1>2 DEF LastGiven
<1>4. ASSUME NEW i \in 1 .. Len(txFifo) PROVE txFifo[i] \in 1 .. Len(given)
  <2>1. txFifo[i] = Len(given) - Len(txFifo) + i
    BY <1>2 DEF LastGiven
  <2>2. QED
    BY <1>3, <2>1
<1>5. ASSUME tx.pkt # 0 PROVE tx.pkt \in 1 .. Len(given)
  <2>1. tx.pkt = Len(given) - Len(txFifo) /\ tx.pkt \in Nat
    BY <1>1, <1>5 DEF TxInv, TxAt
  <2>2. QED
    BY <1>3, <1>5, <2>1
<1>6. QED
  BY <1>2, <1>3, <1>4, <1>5

\* The parts of HeldBy.
LEMMA HeldParts ==
    ASSUME RxInv, TxInv, NEW pool \in Pools
    PROVE  /\ HeldBy(pool) = InQueue(pool) + InRx(pool) + InFifo(pool) + InTx(pool)
           /\ InQueue(pool) \in Nat /\ InFifo(pool) \in Nat
<1>1. QueueType /\ Len(rxQueue) \in Nat /\ DOMAIN rxQueue = 1 .. Len(rxQueue)
  BY QueueTyped DEF QueueType
<1>2. {i \in DOMAIN rxQueue : rxQueue[i].pool = pool} = {i \in 1 .. Len(rxQueue) : rxQueue[i] \in OfPool(pool)}
  <2>1. \A i \in 1 .. Len(rxQueue) : rxQueue[i] \in QueueEntry
    BY <1>1, ElementType DEF QueueType
  <2>2. \A i \in 1 .. Len(rxQueue) : rxQueue[i] \in OfPool(pool) <=> rxQueue[i].pool = pool
    BY <2>1 DEF OfPool
  <2>3. QED
    BY <1>1, <2>2
<1>3. /\ txFifo \in Seq(Nat) /\ \A i \in 1 .. Len(txFifo) : txFifo[i] \in 1 .. Len(given)
      /\ DOMAIN txFifo = 1 .. Len(txFifo)
  BY FifoTyped
<1>4. {i \in DOMAIN txFifo : given[txFifo[i]] = pool} = {i \in 1 .. Len(txFifo) : txFifo[i] \in GivenOf(pool)}
  BY <1>3 DEF GivenOf
<1>5. InQueue(pool) \in Nat /\ InFifo(pool) \in Nat
  BY <1>1, <1>3, NumberOfType DEF InQueue, InFifo, QueueType
<1>6. HeldBy(pool) = InQueue(pool) + InRx(pool) + InFifo(pool) + InTx(pool)
  BY <1>2, <1>4 DEF HeldBy, InQueue, InRx, InFifo, InTx, NumberOf
<1>7. QED
  BY <1>5, <1>6

Parts(pool) == InQueue(pool) + InRx(pool) + InFifo(pool) + InTx(pool)

\* A step moves buffers, and neither takes nor makes one.
Conserves ==
    /\ free' \in [Pools -> Nat]
    /\ \A pool \in Pools : free'[pool] + Parts(pool)' = free[pool] + Parts(pool)

PartsHeld == \A pool \in Pools : HeldBy(pool) = Parts(pool) /\ Parts(pool) \in Nat

LEMMA HeldByParts == RxInv /\ TxInv => PartsHeld
<1>1. SUFFICES ASSUME RxInv, TxInv, NEW pool \in Pools
               PROVE  HeldBy(pool) = Parts(pool) /\ Parts(pool) \in Nat
  BY DEF PartsHeld
<1>2. /\ HeldBy(pool) = InQueue(pool) + InRx(pool) + InFifo(pool) + InTx(pool)
      /\ InQueue(pool) \in Nat /\ InFifo(pool) \in Nat
  BY <1>1, HeldParts
<1>3. InRx(pool) \in Nat /\ InTx(pool) \in Nat
  BY DEF InRx, InTx
<1>4. QED
  BY <1>2, <1>3 DEF Parts

LEMMA HeldByPartsNext == RxInv' /\ TxInv' => PartsHeld'
  BY HeldByParts, PTL

LEMMA PartsAre ==
    ASSUME RxInv, TxInv, NEW pool \in Pools
    PROVE  InQueue(pool) \in Nat /\ InRx(pool) \in Nat /\ InFifo(pool) \in Nat /\ InTx(pool) \in Nat
  BY HeldParts DEF InRx, InTx

LEMMA Balanced ==
    ASSUME RxInv, TxInv, RxInv', TxInv', BufInv, Conserves, UNCHANGED <<asleep, monitor>>
    PROVE  BufInv'
<1>1. PartsHeld /\ PartsHeld'
  BY HeldByParts, HeldByPartsNext
<1>2. \A pool \in Pools : free'[pool] + HeldBy(pool)' = free[pool] + HeldBy(pool)
  BY <1>1 DEF PartsHeld, Conserves
<1>3. BuffersAccounted'
  BY <1>2 DEF BuffersAccounted, BufInv
<1>4. QED
  BY <1>3 DEF BufInv, Conserves

LEMMA EmitConserves ==
    ASSUME BufInv, UNCHANGED <<rxQueue, rxBuf, txVars, free>>
    PROVE  Conserves
<1>1. \A pool \in Pools : Parts(pool)' = Parts(pool)
  BY DEF Parts, InQueue, InRx, InFifo, InTx, GivenOf, NumberOf, OfPool, txVars
<1>2. QED
  BY <1>1 DEF Conserves, BufInv

\* The packets of tx.fifo and the one in transmission are of the same kinds when one more is given.
LEMMA FifoGrows ==
    ASSUME TxInv, NEW kind \in TxKinds, given' = Append(given, kind),
           txFifo' = Append(txFifo, Len(given) + 1), tx' = tx, NEW pool
    PROVE  /\ InFifo(pool)' = InFifo(pool) + (IF kind = pool THEN 1 ELSE 0)
           /\ InTx(pool)' = InTx(pool)
<1>1. /\ txFifo \in Seq(Nat) /\ given \in Seq(TxKinds) /\ Len(given) \in Nat
      /\ \A i \in 1 .. Len(txFifo) : txFifo[i] \in 1 .. Len(given)
      /\ tx.pkt # 0 => tx.pkt \in 1 .. Len(given)
  BY FifoTyped
<1>2. /\ Len(given') = Len(given) + 1 /\ given'[Len(given) + 1] = kind
      /\ \A i \in 1 .. Len(given) : given'[i] = given[i]
  BY <1>1, AppendProperties
<1>3. PICK T : T = {n \in 1 .. Len(given') : given'[n] = pool}
  OBVIOUS
<1>4. InTx(pool)' = InTx(pool)
  BY <1>1, <1>2 DEF InTx
<1>5. \A n \in 1 .. Len(given) : n \in T <=> n \in GivenOf(pool)
  BY <1>1, <1>2, <1>3 DEF GivenOf
<1>6. Len(given) + 1 \in T <=> kind = pool
  BY <1>1, <1>2, <1>3
<1>7. NumberOf(txFifo, T) = NumberOf(txFifo, GivenOf(pool))
  <2>1. {i \in 1 .. Len(txFifo) : txFifo[i] \in T} = {i \in 1 .. Len(txFifo) : txFifo[i] \in GivenOf(pool)}
    BY <1>1, <1>5
  <2>2. QED
    BY <2>1 DEF NumberOf
<1>8. NumberOf(txFifo', T) = NumberOf(txFifo, T) + (IF Len(given) + 1 \in T THEN 1 ELSE 0)
  <2>1. Len(given) + 1 \in Nat
    BY <1>1
  <2>2. QED
    BY <1>1, <2>1, NumberOfAppend
<1>9. InFifo(pool)' = NumberOf(txFifo', T)
  BY <1>3 DEF InFifo, GivenOf, NumberOf
<1>10. QED
  BY <1>4, <1>6, <1>7, <1>8, <1>9 DEF InFifo

LEMMA SendConserves ==
    ASSUME RxInv, TxInv, BufInv, NEW kind \in TxKinds, Send(kind)
    PROVE  Conserves
<1>1. /\ kind \in Pools /\ free \in [Pools -> Nat] /\ free[kind] > 0
      /\ free' = [free EXCEPT ![kind] = @ - 1]
      /\ given' = Append(given, kind) /\ txFifo' = Append(txFifo, Len(given) + 1) /\ tx' = tx
      /\ rxQueue' = rxQueue /\ rxBuf' = rxBuf
  BY TransportAssumption DEF Send, BufInv, Pools, rxVars
<1>2. ASSUME NEW pool \in Pools
      PROVE  /\ free'[pool] \in Nat
             /\ free'[pool] + Parts(pool)' = free[pool] + Parts(pool)
  <2>1. /\ InFifo(pool)' = InFifo(pool) + (IF kind = pool THEN 1 ELSE 0)
        /\ InTx(pool)' = InTx(pool)
    BY <1>1, FifoGrows
  <2>2. InQueue(pool)' = InQueue(pool) /\ InRx(pool)' = InRx(pool)
    BY <1>1 DEF InQueue, InRx, OfPool, NumberOf
  <2>3. /\ InQueue(pool) \in Nat /\ InRx(pool) \in Nat /\ InFifo(pool) \in Nat /\ InTx(pool) \in Nat
    BY PartsAre
  <2>4. free[pool] \in Nat /\ free[kind] \in Nat /\ free[kind] > 0
        /\ free'[pool] = free[pool] - (IF kind = pool THEN 1 ELSE 0)
    BY <1>1
  <2>5. free'[pool] \in Nat
    BY <2>4
  <2>6. QED
    BY <2>1, <2>2, <2>3, <2>4, <2>5 DEF Parts
<1>3. free' \in [Pools -> Nat]
  BY <1>1, <1>2
<1>4. QED
  BY <1>2, <1>3 DEF Conserves

LEMMA RxThreadConserves ==
    ASSUME RxInv, TxInv, BufInv, RxThread
    PROVE  Conserves
<1>1. QueueType
  BY QueueTyped
<1>2. PICK e : e = Head(rxQueue)
  OBVIOUS
<1>3. /\ rxQueue \in Seq(QueueEntry) /\ rxQueue # <<>> /\ rxQueue' = Tail(rxQueue)
      /\ free' = [free EXCEPT ![e.pool] = @ + 1] /\ free \in [Pools -> Nat]
      /\ rxBuf' = rxBuf /\ UNCHANGED txVars
  BY <1>1, <1>2 DEF RxThread, Release, QueueType, BufInv
<1>4. e \in QueueEntry
  BY <1>2, <1>3
<1>5. e.pool \in Pools /\ \A pool \in Pools : e \in OfPool(pool) <=> e.pool = pool
  BY <1>4 DEF QueueEntry, OfPool, RxPools, Pools
<1>6. ASSUME NEW pool \in Pools
      PROVE  /\ free'[pool] \in Nat
             /\ free'[pool] + Parts(pool)' = free[pool] + Parts(pool)
  <2>1. NumberOf(rxQueue, OfPool(pool)) = NumberOf(Tail(rxQueue), OfPool(pool))
                                            + (IF e.pool = pool THEN 1 ELSE 0)
    BY <1>2, <1>3, <1>5, NumberOfTail
  <2>2. InQueue(pool)' = NumberOf(Tail(rxQueue), OfPool(pool))
    BY <1>3 DEF InQueue, OfPool, NumberOf
  <2>3. NumberOf(Tail(rxQueue), OfPool(pool)) \in Nat
    <3>1. Tail(rxQueue) \in Seq(QueueEntry)
      BY <1>3
    <3>2. QED
      BY <3>1, NumberOfType
  <2>4. /\ InFifo(pool)' = InFifo(pool) /\ InTx(pool)' = InTx(pool) /\ InRx(pool)' = InRx(pool)
    BY <1>3 DEF InFifo, InTx, InRx, GivenOf, NumberOf, txVars
  <2>5. InQueue(pool) \in Nat /\ InRx(pool) \in Nat /\ InFifo(pool) \in Nat /\ InTx(pool) \in Nat
    BY PartsAre
  <2>6. free[pool] \in Nat /\ free'[pool] = free[pool] + (IF e.pool = pool THEN 1 ELSE 0)
    BY <1>3, <1>5
  <2>7. InQueue(pool) = InQueue(pool)' + (IF e.pool = pool THEN 1 ELSE 0) /\ InQueue(pool)' \in Nat
    BY <2>1, <2>2, <2>3 DEF InQueue
  <2>8. QED
    BY <2>4, <2>5, <2>6, <2>7 DEF Parts
<1>7. free' \in [Pools -> Nat]
  BY <1>3, <1>6
<1>8. QED
  BY <1>6, <1>7 DEF Conserves

\* What read_payload is about: a packet that was sent, and the buffer for it.
LEMMA InPayload ==
    ASSUME RxInv, rx.haveHdr, rx.discard = 0
    PROVE  /\ rx.hdr[1][1] \in Nat /\ PoolOf(KindOf(rx.hdr)) \in RxPools
           /\ rxBuf # NoBuf => rxBuf.pool \in RxPools
<1>1. PICK p \in 0 .. Len(sent) : RxAt(p)
  BY DEF RxInv
<1>2. PayloadAt(p) /\ p \in 1 .. Len(sent) /\ BufferOf(p)
  <2>1. ~ IdleAt(p)
    BY DEF IdleAt, RxIdle
  <2>2. ~ HeaderAt(p) /\ ~ DiscardAt(p)
    BY DEF HeaderAt, DiscardAt
  <2>3. QED
    BY <1>1, <2>1, <2>2 DEF RxAt, PayloadAt
<1>3. rx.hdr[1][1] = p /\ KindOf(rx.hdr) = sent[p] /\ PoolOf(sent[p]) \in RxPools /\ p \in Nat
  BY <1>2, PayloadFacts
<1>4. rxBuf # NoBuf => rxBuf.pool \in RxPools
  BY <1>2 DEF BufferOf
<1>5. QED
  BY <1>3, <1>4

\* A buffer of the receiver, just taken or not, goes on holding the packet, or is delivered,
\* or ends with the event.
LEMMA ReadIntoConserves ==
    ASSUME RxInv, TxInv, BufInv, rx.haveHdr, rx.discard = 0, UNCHANGED txVars,
           NEW buf, buf.pool \in RxPools, NEW taken \in {0, 1}, ReadInto(buf, taken),
           IF taken = 0 THEN rxBuf.pool = buf.pool ELSE rxBuf.pool = "none" /\ free[buf.pool] > 0
    PROVE  Conserves
<1>1. PICK pl : pl = buf.pool
  OBVIOUS
<1>2. PICK e : e = [pool |-> pl, pkt |-> rx.hdr[1][1]]
  OBVIOUS
<1>3. PICK prio : prio = (KindOf(rx.hdr) \in {"cc", "ncp"})
  OBVIOUS
<1>4. /\ pl \in RxPools /\ pl \in Pools /\ pl # "none" /\ free \in [Pools -> Nat]
  BY <1>1 DEF RxPools, Pools, BufInv
<1>5. e \in QueueEntry /\ \A pool : e \in OfPool(pool) <=> pl = pool
  BY <1>1, <1>2, InPayload DEF QueueEntry, OfPool
<1>6. rxQueue \in Seq(QueueEntry)
  BY QueueTyped DEF QueueType
<1>7. \/ /\ rxBuf'.pool = pl /\ rxQueue' = rxQueue
         /\ free' = [free EXCEPT ![pl] = @ - taken]
      \/ /\ rxBuf' = NoBuf
         /\ rxQueue' = IF prio THEN rxQueue ELSE Append(rxQueue, e)
         /\ free' = [free EXCEPT ![pl] = @ - taken + (IF prio THEN 1 ELSE 0)]
  <2>0. PICK k \in 0 .. rx.remaining : \E full :
          /\ full = [buf EXCEPT !.bytes = @ \o SubSeq(wire, 1, k)]
          /\ IF k < rx.remaining
             THEN /\ rxBuf' = full
                  /\ free' = [free EXCEPT ![buf.pool] = @ - taken]
                  /\ UNCHANGED rxQueue
             ELSE /\ rxBuf' = NoBuf
                  /\ Deliver(full, rx.hdr)
                  /\ free' = [free EXCEPT ![buf.pool] =
                                 @ - taken + (IF KindOf(rx.hdr) \in {"cc", "ncp"} THEN 1 ELSE 0)]
    BY DEF ReadInto
  <2>1. PICK full :
          /\ full = [buf EXCEPT !.bytes = @ \o SubSeq(wire, 1, k)]
          /\ IF k < rx.remaining
             THEN /\ rxBuf' = full
                  /\ free' = [free EXCEPT ![buf.pool] = @ - taken]
                  /\ UNCHANGED rxQueue
             ELSE /\ rxBuf' = NoBuf
                  /\ Deliver(full, rx.hdr)
                  /\ free' = [free EXCEPT ![buf.pool] =
                                 @ - taken + (IF KindOf(rx.hdr) \in {"cc", "ncp"} THEN 1 ELSE 0)]
    BY <2>0
  <2>2. full.pool = pl
    BY <1>1, <2>1
  <2>3. CASE k < rx.remaining
    BY <1>1, <2>1, <2>2, <2>3
  <2>4. CASE ~ (k < rx.remaining)
    BY <1>1, <1>2, <1>3, <2>1, <2>2, <2>4 DEF Deliver
  <2>5. QED
    BY <2>3, <2>4
<1>8. ASSUME NEW pool \in Pools
      PROVE  /\ free'[pool] \in Nat
             /\ free'[pool] + Parts(pool)' = free[pool] + Parts(pool)
  <2>1. InQueue(pool) \in Nat /\ InRx(pool) \in Nat /\ InFifo(pool) \in Nat /\ InTx(pool) \in Nat
    BY PartsAre
  <2>2. /\ InFifo(pool)' = InFifo(pool) /\ InTx(pool)' = InTx(pool)
    BY DEF InFifo, InTx, GivenOf, NumberOf, txVars
  <2>3. free[pool] \in Nat /\ free[pl] \in Nat /\ (taken = 1 => free[pl] > 0)
    BY <1>1, <1>4
  <2>4. InRx(pool) = IF pl = pool /\ taken = 0 THEN 1 ELSE 0
    BY <1>1, <1>4 DEF InRx, Pools
  <2>5. CASE /\ rxBuf'.pool = pl /\ rxQueue' = rxQueue
             /\ free' = [free EXCEPT ![pl] = @ - taken]
    <3>1. InQueue(pool)' = InQueue(pool)
      BY <2>5 DEF InQueue, OfPool, NumberOf
    <3>2. InRx(pool)' = IF pl = pool THEN 1 ELSE 0
      BY <2>5 DEF InRx
    <3>3. free'[pool] = free[pool] - (IF pl = pool THEN taken ELSE 0)
      BY <1>4, <2>3, <2>5
    <3>4. free'[pool] \in Nat
      BY <2>3, <3>3
    <3>5. QED
      BY <2>1, <2>2, <2>3, <2>4, <3>1, <3>2, <3>3, <3>4 DEF Parts
  <2>6. CASE /\ rxBuf' = NoBuf
             /\ rxQueue' = IF prio THEN rxQueue ELSE Append(rxQueue, e)
             /\ free' = [free EXCEPT ![pl] = @ - taken + (IF prio THEN 1 ELSE 0)]
    <3>1. InQueue(pool)' = InQueue(pool) + (IF ~ prio /\ pl = pool THEN 1 ELSE 0)
      <4>1. InQueue(pool)' = NumberOf(rxQueue', OfPool(pool))
        BY DEF InQueue, OfPool, NumberOf
      <4>2. NumberOf(Append(rxQueue, e), OfPool(pool)) = NumberOf(rxQueue, OfPool(pool))
                                                           + (IF e \in OfPool(pool) THEN 1 ELSE 0)
        BY <1>5, <1>6, NumberOfAppend
      <4>3. CASE prio
        BY <2>1, <2>6, <4>1, <4>3 DEF InQueue
      <4>4. CASE ~ prio
        BY <1>5, <2>6, <4>1, <4>2, <4>4 DEF InQueue
      <4>5. QED
        BY <4>3, <4>4
    <3>2. InRx(pool)' = 0
      BY <2>6 DEF InRx, NoBuf, Pools
    <3>3. free'[pool] = IF pl = pool THEN free[pool] - taken + (IF prio THEN 1 ELSE 0) ELSE free[pool]
      BY <1>4, <2>6
    <3>4. free'[pool] \in Nat
      BY <2>3, <3>3
    <3>5. QED
      BY <2>1, <2>2, <2>3, <2>4, <3>1, <3>2, <3>3, <3>4 DEF Parts
  <2>7. QED
    BY <1>7, <2>5, <2>6
<1>9. free' \in [Pools -> Nat]
  BY <1>4, <1>7, <1>8
<1>10. QED
  BY <1>8, <1>9 DEF Conserves

LEMMA ReadPayloadConserves ==
    ASSUME RxInv, TxInv, BufInv, ReadPayload
    PROVE  Conserves
<1>1. /\ rx.haveHdr /\ rx.discard = 0 /\ UNCHANGED txVars
      /\ rxBuf # NoBuf => rxBuf.pool \in RxPools
      /\ free \in [Pools -> Nat]
  BY InPayload DEF ReadPayload, BufInv
<1>2. PICK pool : pool = PoolOf(KindOf(rx.hdr))
  OBVIOUS
<1>3. pool \in RxPools /\ pool \in Pools
  BY <1>1, <1>2, InPayload DEF RxPools, Pools
<1>4. CASE rxBuf # NoBuf
  <2>1. ReadInto(rxBuf, 0)
    BY <1>4 DEF ReadPayload
  <2>2. PICK buf : buf = rxBuf
    OBVIOUS
  <2>3. QED
    BY <1>1, <1>4, <2>1, <2>2, ReadIntoConserves
<1>5. CASE rxBuf = NoBuf
  <2>1. rxBuf.pool = "none"
    BY <1>5 DEF NoBuf
  <2>2. CASE NoBuffer
    BY <1>1, <2>2, EmitConserves DEF NoBuffer
  <2>3. CASE free[pool] # 0 /\ DoesNotFit(pool)
    <3>1. rxBuf'.pool = pool /\ free' = [free EXCEPT ![pool] = @ - 1] /\ rxQueue' = rxQueue
      BY <2>3 DEF DoesNotFit
    <3>2. ASSUME NEW q \in Pools
          PROVE  /\ free'[q] \in Nat
                 /\ free'[q] + Parts(q)' = free[q] + Parts(q)
      <4>1. InQueue(q) \in Nat /\ InRx(q) \in Nat /\ InFifo(q) \in Nat /\ InTx(q) \in Nat
        BY PartsAre
      <4>2. /\ InFifo(q)' = InFifo(q) /\ InTx(q)' = InTx(q) /\ InQueue(q)' = InQueue(q)
        BY <1>1, <3>1 DEF InFifo, InTx, GivenOf, NumberOf, txVars, InQueue, OfPool
      <4>3. InRx(q) = 0 /\ InRx(q)' = IF pool = q THEN 1 ELSE 0
        BY <2>1, <3>1 DEF InRx, Pools
      <4>4. free[q] \in Nat /\ free[pool] \in Nat /\ free[pool] # 0
            /\ free'[q] = free[q] - (IF pool = q THEN 1 ELSE 0)
        BY <1>1, <1>3, <2>3, <3>1
      <4>5. free'[q] \in Nat
        BY <4>4
      <4>6. QED
        BY <4>1, <4>2, <4>3, <4>4, <4>5 DEF Parts
    <3>3. free' \in [Pools -> Nat]
      BY <1>1, <3>1, <3>2
    <3>4. QED
      BY <3>2, <3>3 DEF Conserves
  <2>4. CASE free[pool] # 0 /\ ReadInto([pool |-> pool, bytes |-> rx.hdr], 1)
    <3>1. PICK buf : buf = [pool |-> pool, bytes |-> rx.hdr]
      OBVIOUS
    <3>2. ReadInto(buf, 1) /\ buf.pool = pool
      BY <2>4, <3>1
    <3>3. free[buf.pool] > 0 /\ 1 \in {0, 1} /\ buf.pool \in RxPools
      BY <1>1, <1>3, <2>4, <3>2
    <3>4. QED
      BY <1>1, <2>1, <3>2, <3>3, ReadIntoConserves
  <2>5. QED
    BY <1>2, <1>5, <2>2, <2>3, <2>4 DEF ReadPayload
<1>6. QED
  BY <1>4, <1>5

LEMMA ReadHeaderConserves ==
    ASSUME RxInv, BufInv, ReadHeader
    PROVE  Conserves
<1>1. UNCHANGED <<rxQueue, txVars, free>> /\ rxBuf'.pool = rxBuf.pool
  <2>1. PICK r : IntoLeftBuffer(r)
    BY DEF ReadHeader
  <2>2. rxBuf \in [pool : RxPools \cup {"none"}, bytes : Seq(Nat \X Nat)]
    BY DEF RxInv, RxAt, BufferOf
  <2>3. rxBuf' = rxBuf \/ \E b : rxBuf' = [rxBuf EXCEPT !.bytes = b]
    BY <2>1 DEF IntoLeftBuffer
  <2>4. rxBuf'.pool = rxBuf.pool
    BY <2>2, <2>3
  <2>5. QED
    BY <2>4 DEF ReadHeader
<1>2. \A pool \in Pools : Parts(pool)' = Parts(pool)
  BY <1>1 DEF Parts, InQueue, InRx, InFifo, InTx, GivenOf, NumberOf, OfPool, txVars
<1>3. QED
  BY <1>1, <1>2 DEF Conserves, BufInv

\* tx.buf: its packet goes on, or ends and the next one is taken from tx.fifo.
LEMMA NextConserves ==
    ASSUME TxInv, NEW fifo, fifo \in Seq(Nat), NEW pool \in Pools,
           \A i \in 1 .. Len(fifo) : fifo[i] \in 1 .. Len(given),
           NEW next, next = TxNext(fifo), NEW after, after = TxAfter(fifo)
    PROVE  NumberOf(after, GivenOf(pool))
             + (IF next.pkt # 0 /\ given[next.pkt] = pool THEN 1 ELSE 0)
           = NumberOf(fifo, GivenOf(pool))
<1>1. NoTx \in [pkt : Nat, typed : BOOLEAN, done : Nat] /\ NoTx.pkt = 0
  BY DEF NoTx
<1>2. CASE fifo = <<>>
  <2>1. next.pkt = 0 /\ after = fifo
    BY <1>1, <1>2 DEF TxNext, TxAfter
  <2>2. NumberOf(fifo, GivenOf(pool)) \in Nat
    BY NumberOfType
  <2>3. QED
    BY <2>1, <2>2
<1>3. CASE fifo # <<>>
  <2>1. PICK h : h = Head(fifo)
    OBVIOUS
  <2>2. next = [NoTx EXCEPT !.pkt = h] /\ after = Tail(fifo)
    BY <1>3, <2>1 DEF TxNext, TxAfter
  <2>3. next.pkt = h
    BY <1>1, <2>2
  <2>4. h = fifo[1] /\ 1 \in 1 .. Len(fifo)
    BY <1>3, <2>1
  <2>5. h \in 1 .. Len(given) /\ h # 0 /\ (h \in GivenOf(pool) <=> given[h] = pool)
    BY <2>4 DEF GivenOf
  <2>6. NumberOf(fifo, GivenOf(pool)) = NumberOf(Tail(fifo), GivenOf(pool))
                                          + (IF h \in GivenOf(pool) THEN 1 ELSE 0)
    BY <1>3, <2>1, NumberOfTail
  <2>7. QED
    BY <2>2, <2>3, <2>5, <2>6
<1>4. QED
  BY <1>2, <1>3

LEMMA ProcessTxConserves ==
    ASSUME RxInv, TxInv, BufInv, ProcessTx
    PROVE  Conserves
<1>1. PICK cur : cur = IF tx.pkt # 0 THEN tx ELSE TxNext(txFifo)
  OBVIOUS
<1>2. PICK rest : rest = IF tx.pkt # 0 THEN txFifo ELSE TxAfter(txFifo)
  OBVIOUS
<1>3. PICK left : left = TxLen[given[cur.pkt]] - cur.done
  OBVIOUS
<1>4. /\ cur # NoTx /\ given' = given /\ rxQueue' = rxQueue /\ rxBuf' = rxBuf
      /\ \/ tx' = cur /\ txFifo' = rest /\ free' = free
         \/ \E k \in 0 .. left :
               tx' = [cur EXCEPT !.typed = TRUE, !.done = @ + k] /\ txFifo' = rest /\ free' = free
         \/ tx' = TxNext(rest) /\ txFifo' = TxAfter(rest) /\ Release(given[cur.pkt])
  BY <1>1, <1>2, <1>3 DEF ProcessTx, rxVars
<1>5. TxAt(cur, rest, out)
  BY <1>1, <1>2, <1>4, PacketInTransmission
<1>6. /\ cur \in [pkt : Nat, typed : BOOLEAN, done : Nat] /\ cur.pkt # 0
      /\ LastGiven(rest) /\ rest \in Seq(Nat) /\ given \in Seq(TxKinds)
      /\ Len(rest) \in Nat /\ Len(given) \in Nat /\ Len(rest) <= Len(given)
  BY <1>5 DEF TxAt, LastGiven, TxInv
<1>7. ASSUME NEW i \in 1 .. Len(rest) PROVE rest[i] \in 1 .. Len(given)
  <2>1. rest[i] = Len(given) - Len(rest) + i
    BY <1>6 DEF LastGiven
  <2>2. QED
    BY <1>6, <2>1
<1>8. cur.pkt \in 1 .. Len(given) /\ given[cur.pkt] \in Pools
  <2>1. cur.pkt = Len(given) - Len(rest) /\ cur.pkt \in Nat
    BY <1>5, <1>6 DEF TxAt
  <2>2. cur.pkt \in 1 .. Len(given)
    BY <1>6, <2>1
  <2>3. given[cur.pkt] \in TxKinds
    BY <1>6, <2>2
  <2>4. QED
    BY <2>2, <2>3, TransportAssumption DEF Pools
<1>9. free \in [Pools -> Nat]
  BY DEF BufInv
<1>10. PICK kind : kind = given[cur.pkt]
  OBVIOUS
\* The packet itself, whether it was in tx.buf or first in tx.fifo.
<1>11. ASSUME NEW pool \in Pools
       PROVE  InFifo(pool) + InTx(pool)
                = NumberOf(rest, GivenOf(pool)) + (IF kind = pool THEN 1 ELSE 0)
  <2>1. CASE tx.pkt # 0
    BY <1>1, <1>2, <1>10, <2>1 DEF InFifo, InTx
  <2>2. CASE tx.pkt = 0
    <3>1. txFifo \in Seq(Nat) /\ \A i \in 1 .. Len(txFifo) : txFifo[i] \in 1 .. Len(given)
      BY FifoTyped
    <3>2. NumberOf(rest, GivenOf(pool)) + (IF cur.pkt # 0 /\ given[cur.pkt] = pool THEN 1 ELSE 0)
            = NumberOf(txFifo, GivenOf(pool))
      BY <1>1, <1>2, <2>2, <3>1, NextConserves
    <3>3. InFifo(pool) \in Nat /\ InTx(pool) = 0
      BY <2>2, PartsAre DEF InTx
    <3>4. QED
      BY <1>6, <1>10, <3>2, <3>3 DEF InFifo
  <2>3. QED
    BY <2>1, <2>2
<1>12. ASSUME NEW pool \in Pools
       PROVE  /\ free'[pool] \in Nat
              /\ free'[pool] + Parts(pool)' = free[pool] + Parts(pool)
  <2>1. InQueue(pool) \in Nat /\ InRx(pool) \in Nat /\ InFifo(pool) \in Nat /\ InTx(pool) \in Nat
    BY PartsAre
  <2>2. InQueue(pool)' = InQueue(pool) /\ InRx(pool)' = InRx(pool)
    BY <1>4 DEF InQueue, InRx, OfPool, NumberOf
  <2>3. GivenOf(pool)' = GivenOf(pool)
    BY <1>4 DEF GivenOf
  <2>4. InFifo(pool)' = NumberOf(txFifo', GivenOf(pool))
    BY <2>3 DEF InFifo, NumberOf
  <2>5. InTx(pool)' = IF tx'.pkt # 0 /\ given[tx'.pkt] = pool THEN 1 ELSE 0
    BY <1>4 DEF InTx
  <2>6. NumberOf(rest, GivenOf(pool)) \in Nat
    BY <1>6, NumberOfType
  <2>7. CASE txFifo' = rest /\ free' = free /\ tx'.pkt = cur.pkt
    <3>1. InFifo(pool)' + InTx(pool)' = InFifo(pool) + InTx(pool)
      BY <1>6, <1>10, <1>11, <2>4, <2>5, <2>7
    <3>2. InFifo(pool)' \in Nat /\ InTx(pool)' \in Nat
      BY <2>4, <2>5, <2>6, <2>7
    <3>3. QED
      BY <1>9, <2>1, <2>2, <2>7, <3>1, <3>2 DEF Parts
  <2>8. CASE tx' = TxNext(rest) /\ txFifo' = TxAfter(rest) /\ Release(given[cur.pkt])
    <3>1. PICK next, after : next = tx' /\ after = txFifo'
      OBVIOUS
    <3>2. NumberOf(after, GivenOf(pool)) + (IF next.pkt # 0 /\ given[next.pkt] = pool THEN 1 ELSE 0)
            = NumberOf(rest, GivenOf(pool))
      BY <1>6, <1>7, <2>8, <3>1, NextConserves
    <3>3. InFifo(pool)' + InTx(pool)' = NumberOf(rest, GivenOf(pool))
      BY <2>4, <2>5, <3>1, <3>2
    <3>4. free[pool] \in Nat /\ free'[pool] = free[pool] + (IF kind = pool THEN 1 ELSE 0)
      BY <1>8, <1>9, <1>10, <2>8 DEF Release
    <3>5. InTx(pool)' \in Nat
      BY <2>5
    <3>6. InFifo(pool)' \in Nat
      <4>1. after \in Seq(Nat)
        BY <1>6, <2>8, <3>1 DEF TxAfter
      <4>2. QED
        BY <2>4, <3>1, <4>1, NumberOfType
    <3>7. QED
      BY <1>11, <2>1, <2>2, <2>6, <3>3, <3>4, <3>5, <3>6 DEF Parts
  <2>9. ASSUME NEW k \in 0 .. left, tx' = [cur EXCEPT !.typed = TRUE, !.done = @ + k]
        PROVE  tx'.pkt = cur.pkt
    BY <1>6, <2>9
  <2>10. QED
    BY <1>4, <2>7, <2>8, <2>9
<1>13. free' \in [Pools -> Nat]
  <2>1. free' = free \/ Release(kind)
    BY <1>4, <1>10
  <2>2. QED
    BY <1>9, <1>12, <2>1 DEF Release
<1>14. QED
  BY <1>12, <1>13 DEF Conserves

\* Sleep and wake-up: none of the buffers is in use.
LEMMA SleepBalanced ==
    ASSUME RxInv, TxInv, RxInv', TxInv', BufInv, Sleep \/ TimerWake
    PROVE  BufInv'
<1>1. PartsHeld /\ PartsHeld'
  BY HeldByParts, HeldByPartsNext
<1>2. \A pool \in Pools : HeldBy(pool)' = HeldBy(pool)
  <2>1. \A pool \in Pools : Parts(pool)' = Parts(pool)
    BY DEF Sleep, TimerWake, Parts, InQueue, InRx, InFifo, InTx, GivenOf, NumberOf, OfPool,
           txVars, rxVars
  <2>2. QED
    BY <1>1, <2>1 DEF PartsHeld
<1>3. Count \in [Pools -> Nat]
  BY TransportAssumption
<1>4. free \in [Pools -> Nat] /\ \A pool \in Pools : HeldBy(pool) \in Nat
  BY <1>1 DEF BufInv, PartsHeld
<1>5. CASE Sleep
  <2>1. /\ monitor /\ ~ asleep /\ asleep' = TRUE /\ monitor' = monitor
        /\ \A pool \in Pools : free[pool] = Count[pool] /\ free'[pool] = 0
        /\ free' = [p \in Pools |-> 0]
    BY <1>5 DEF Sleep, AllowSleep
  <2>2. \A pool \in Pools : free'[pool] + HeldBy(pool)' = 0
    <3>1. \A pool \in Pools : free[pool] + HeldBy(pool) = Count[pool]
      BY <2>1 DEF BufInv, BuffersAccounted
    <3>2. QED
      BY <1>2, <1>3, <1>4, <2>1, <3>1
  <2>3. free' \in [Pools -> Nat]
    BY <2>1
  <2>4. QED
    BY <2>1, <2>2, <2>3 DEF BufInv, BuffersAccounted
<1>6. CASE TimerWake
  <2>1. asleep /\ asleep' = FALSE /\ free' = Count /\ monitor' = monitor
    BY <1>6 DEF TimerWake
  <2>2. \A pool \in Pools : free'[pool] + HeldBy(pool)' = Count[pool]
    <3>1. \A pool \in Pools : free[pool] + HeldBy(pool) = 0
      BY <2>1 DEF BufInv, BuffersAccounted
    <3>2. QED
      BY <1>2, <1>3, <1>4, <2>1, <3>1
  <2>3. QED
    BY <1>3, <2>1, <2>2 DEF BufInv, BuffersAccounted
<1>7. QED
  BY <1>5, <1>6

LEMMA InitBuf == Init => BufInv
<1>1. SUFFICES ASSUME Init PROVE BufInv
  OBVIOUS
<1>2. /\ rxQueue = <<>> /\ rxBuf = NoBuf /\ txFifo = <<>> /\ tx = NoTx
      /\ free = Count /\ asleep = FALSE /\ monitor \in BOOLEAN
  BY <1>1 DEF Init
<1>3. RxInv /\ TxInv
  BY <1>1, InitRx, InitTx
<1>4. Count \in [Pools -> Nat]
  BY TransportAssumption
<1>5. ASSUME NEW pool \in Pools PROVE HeldBy(pool) = 0
  <2>1. InQueue(pool) = 0
    <3>1. rxQueue \in Seq(QueueEntry)
      BY <1>3, QueueTyped DEF QueueType
    <3>2. NumberOf(rxQueue, OfPool(pool)) = 0
      BY <1>2, <3>1, NumberOfType
    <3>3. QED
      BY <3>2 DEF InQueue
  <2>2. InFifo(pool) = 0
    <3>1. txFifo \in Seq(Nat)
      BY <1>3, FifoTyped
    <3>2. NumberOf(txFifo, GivenOf(pool)) = 0
      BY <1>2, <3>1, NumberOfType
    <3>3. QED
      BY <3>2 DEF InFifo
  <2>3. InRx(pool) = 0 /\ InTx(pool) = 0
    BY <1>2 DEF InRx, InTx, NoBuf, NoTx, Pools
  <2>4. QED
    BY <1>3, <2>1, <2>2, <2>3, HeldParts
<1>6. BuffersAccounted
  BY <1>2, <1>4, <1>5 DEF BuffersAccounted
<1>7. QED
  BY <1>2, <1>4, <1>6 DEF BufInv

LEMMA StepBuf == RxInv /\ TxInv /\ BufInv /\ [Next]_vars => BufInv'
<1>1. SUFFICES ASSUME RxInv, TxInv, BufInv, [Next]_vars PROVE BufInv'
  OBVIOUS
<1>2. RxInv' /\ TxInv'
  BY <1>1, StepRx, StepTx
<1>3. CASE Sleep \/ TimerWake
  BY <1>1, <1>2, <1>3, SleepBalanced
<1>4. CASE \E kind \in TxKinds : Send(kind)
  <2>1. PICK kind \in TxKinds : Send(kind)
    BY <1>4
  <2>2. Conserves
    BY <1>1, <2>1, SendConserves
  <2>3. QED
    BY <1>1, <1>2, <2>1, <2>2, Balanced DEF Send
<1>5. CASE ProcessTx
  <2>1. Conserves
    BY <1>1, <1>5, ProcessTxConserves
  <2>2. QED
    BY <1>1, <1>2, <1>5, <2>1, Balanced DEF ProcessTx
<1>6. CASE RxThread
  <2>1. Conserves
    BY <1>1, <1>6, RxThreadConserves
  <2>2. QED
    BY <1>1, <1>2, <1>6, <2>1, Balanced DEF RxThread
<1>7. CASE ReadPayload
  <2>1. Conserves
    BY <1>1, <1>7, ReadPayloadConserves
  <2>2. QED
    BY <1>1, <1>2, <1>7, <2>1, Balanced DEF ReadPayload
<1>8. CASE ReadHeader
  <2>1. Conserves
    BY <1>1, <1>8, ReadHeaderConserves
  <2>2. QED
    BY <1>1, <1>2, <1>8, <2>1, Balanced DEF ReadHeader
<1>9. CASE UNCHANGED <<rxQueue, rxBuf, txVars, free, asleep, monitor>>
  <2>1. Conserves
    BY <1>1, <1>9, EmitConserves
  <2>2. QED
    BY <1>1, <1>2, <1>9, <2>1, Balanced
<1>10. CASE GetType \/ Discard \/ (\E kind \in Kinds : Emit(kind)) \/ UNCHANGED vars
  BY <1>9, <1>10 DEF GetType, Discard, Emit, vars, rxVars, txVars
<1>11. QED
  BY <1>1, <1>3, <1>4, <1>5, <1>6, <1>7, <1>8, <1>10 DEF Next, ProcessRx

LEMMA SpecBufInv == Spec => [](RxInv /\ TxInv /\ BufInv)
<1>1. Init => RxInv /\ TxInv /\ BufInv
  BY InitRx, InitTx, InitBuf
<1>2. RxInv /\ TxInv /\ BufInv /\ [Next]_vars => (RxInv /\ TxInv /\ BufInv)'
  BY StepRx, StepTx, StepBuf
<1>3. QED
  BY <1>1, <1>2, PTL DEF Spec

\* Awake, the buffers in use and the free ones are the pools; asleep none is in use, so that
\* clearing the pools takes nothing from anybody (bt_check_allow_sleep, bt_sleep_prepare_work).
THEOREM BuffersStay == Spec => []BuffersAccounted
<1>1. BufInv => BuffersAccounted
  BY DEF BufInv
<1>2. QED
  BY <1>1, SpecBufInv, PTL

-----------------------------------------------------------------------------
(* Types *)

LEMMA FitsWhole ==
    ASSUME LengthsTold, sent \in Seq(Kinds), NEW q \in 1 .. Len(sent), NEW pool \in RxPools,
           pool = PoolOf(sent[q]) \/ \E p \in 0 .. Len(sent) : Misfit(p, pool),
           PayloadLen(sent[q]) <= Room[pool]
    PROVE  FrameLen(sent[q]) <= Room[pool]
<1>1. sent[q] \in Kinds
  OBVIOUS
<1>2. ASSUME NEW p \in 0 .. Len(sent), Misfit(p, pool)
      PROVE  \E other \in Kinds : PoolOf(other) = pool /\ Oversize(other)
  <2>1. PICK o \in 1 .. p : Oversize(sent[o]) /\ PoolOf(sent[o]) = pool
    BY <1>2 DEF Misfit
  <2>2. sent[o] \in Kinds
    BY OverIsSent
  <2>3. QED
    BY <2>1, <2>2
<1>3. QED
  BY <1>1, <1>2 DEF LengthsTold

LEMMA InvTypes ==
    ASSUME LengthsTold, RxInv, TxInv, BufInv
    PROVE  TypeOK
<1>1. /\ sent \in Seq(Kinds) /\ given \in Seq(TxKinds) /\ rx \in RxRecord /\ Len(sent) \in Nat
      /\ DOMAIN sent = 1 .. Len(sent) /\ DOMAIN given = 1 .. Len(given)
  BY DEF RxInv, TxInv, RxTypes
<1>2. PICK p \in 0 .. Len(sent) : RxAt(p)
  BY DEF RxInv
<1>3. /\ IdleAt(p) \/ HeaderAt(p) \/ PayloadAt(p) \/ DiscardAt(p)
      /\ BufferOf(p) /\ History(p)
  BY <1>2 DEF RxAt
<1>4. \A i \in DOMAIN wire : wire[i][1] \in DOMAIN sent
  <2>1. WireWhole /\ wire \in Seq(Nat \X Nat)
    BY DEF RxInv, WireWhole
  <2>2. DOMAIN wire = 1 .. Len(wire)
    BY <2>1
  <2>3. ASSUME NEW i \in 1 .. Len(wire) PROVE wire[i][1] \in 1 .. Len(sent)
    BY <2>1 DEF WireWhole
  <2>4. QED
    BY <1>1, <2>2, <2>3
<1>5. rx.haveHdr => PayloadAt(p)
  BY <1>3 DEF IdleAt, HeaderAt, DiscardAt, RxIdle
<1>6. rx.haveHdr => Len(rx.hdr) = rx.hdrLen
  <2>1. SUFFICES ASSUME rx.haveHdr PROVE Len(rx.hdr) = rx.hdrLen
    OBVIOUS
  <2>2. rx.hdr = Piece(p, rx.hdrLen) /\ rx.hdrLen \in Nat
    BY <1>1, <1>5, <2>1 DEF PayloadAt, RxRecord
  <2>3. QED
    BY <2>2 DEF Piece
<1>7. rx.type \in {"none", "evt", "acl"} /\ rx.remaining \in Nat /\ rx.discard \in Nat
  BY <1>1 DEF RxRecord
<1>8. rxBuf.pool \in RxPools \cup {"none"}
  BY <1>3 DEF BufferOf
<1>9. ASSUME rxBuf # NoBuf PROVE Len(rxBuf.bytes) <= Room[rxBuf.pool]
  <2>1. rxBuf.pool \in RxPools /\ Room[rxBuf.pool] \in Nat
    BY <1>3, <1>9, TransportAssumption DEF BufferOf
  <2>2. CASE rx.haveHdr
    <3>1. PICK n : n = FrameLen(sent[p]) - rx.remaining
      OBVIOUS
    <3>2. PayloadAt(p) /\ p \in 1 .. Len(sent)
      BY <1>5, <2>2 DEF PayloadAt
    <3>3. FrameLen(sent[p]) \in Nat /\ rx.remaining \in Nat /\ rx.remaining <= PayloadLen(sent[p])
          /\ FrameLen(sent[p]) = HdrLen(sent[p]) + PayloadLen(sent[p])
          /\ HdrLen(sent[p]) \in 2 .. 4 /\ PayloadLen(sent[p]) \in Nat
      BY <3>2, PayloadFacts
    <3>4. rxBuf.bytes = Piece(p, n) /\ PayloadLen(sent[p]) <= Room[rxBuf.pool]
      BY <1>9, <3>1, <3>2 DEF PayloadAt
    <3>5. n \in Nat /\ n <= FrameLen(sent[p])
      BY <3>1, <3>3
    <3>6. Len(rxBuf.bytes) = n
      BY <3>4, <3>5 DEF Piece
    <3>7. rxBuf.pool = PoolOf(sent[p]) \/ Misfit(p, rxBuf.pool)
      BY <1>3, <1>9 DEF BufferOf
    <3>8. FrameLen(sent[p]) <= Room[rxBuf.pool]
      BY <1>1, <2>1, <3>2, <3>4, <3>7, FitsWhole
    <3>9. QED
      BY <2>1, <3>3, <3>5, <3>6, <3>8
  <2>3. CASE ~ rx.haveHdr
    <3>1. rxBuf.bytes = <<>>
      BY <1>3, <2>3 DEF BufferOf
    <3>2. QED
      BY <2>1, <3>1
  <2>4. QED
    BY <2>2, <2>3
<1>10. ASSUME NEW i \in DOMAIN rxQueue
       PROVE  /\ rxQueue[i].pool \in RxPools
              /\ FrameLen(sent[rxQueue[i].pkt]) <= Room[rxQueue[i].pool]
  <2>1. PICK S : S = [pool : RxPools, pkt : 1 .. Len(sent)]
    OBVIOUS
  <2>2. rxQueue \in Seq(S)
    BY <2>1 DEF RxInv, QueueFits
  <2>3. i \in 1 .. Len(rxQueue)
    BY <2>2
  <2>4. rxQueue[i] \in S
    BY <2>2, <2>3, ElementType
  <2>5. PICK q, pool : q = rxQueue[i].pkt /\ pool = rxQueue[i].pool
    OBVIOUS
  <2>6. q \in 1 .. Len(sent) /\ pool \in RxPools
    BY <2>1, <2>4, <2>5
  <2>7. /\ PayloadLen(sent[q]) <= Room[pool]
        /\ pool = PoolOf(sent[q]) \/ Misfit(Len(sent), pool)
    BY <2>3, <2>5 DEF RxInv, QueueFits
  <2>8. Len(sent) \in 0 .. Len(sent)
    BY <1>1
  <2>9. FrameLen(sent[q]) <= Room[pool]
    BY <1>1, <2>6, <2>7, <2>8, FitsWhole
  <2>10. QED
    BY <2>5, <2>6, <2>9
<1>11. lost \subseteq DOMAIN sent
  <2>1. lost \subseteq Over(p) /\ Over(p) \subseteq 1 .. Len(sent)
    BY <1>1, <1>3, OverIsSent DEF History
  <2>2. QED
    BY <1>1, <2>1
<1>12. \A i \in DOMAIN txFifo : txFifo[i] \in DOMAIN given
  BY <1>1, FifoTyped
<1>13. /\ free \in [Pools -> Nat] /\ \A pool \in Pools : free[pool] <= Count[pool]
       /\ asleep \in BOOLEAN /\ monitor \in BOOLEAN /\ (asleep => monitor)
  <2>1. free \in [Pools -> Nat] /\ Count \in [Pools -> Nat]
    BY TransportAssumption DEF BufInv
  <2>2. ASSUME NEW pool \in Pools PROVE free[pool] <= Count[pool]
    <3>1. HeldBy(pool) \in Nat
      BY HeldByParts DEF PartsHeld
    <3>2. free[pool] + HeldBy(pool) = IF asleep THEN 0 ELSE Count[pool]
      BY DEF BufInv, BuffersAccounted
    <3>3. free[pool] \in Nat /\ Count[pool] \in Nat
      BY <2>1
    <3>4. QED
      BY <3>1, <3>2, <3>3
  <2>3. QED
    BY <2>1, <2>2 DEF BufInv
<1>14. QED
  BY <1>1, <1>4, <1>6, <1>7, <1>8, <1>9, <1>10, <1>11, <1>12, <1>13 DEF TypeOK

\* When the lengths the receiver compares tell the packets that fit from those that do not,
\* every variable keeps its type and no packet grows beyond its buffer (read_header,
\* read_payload).
THEOREM TransportTypeOK ==
    ASSUME LengthsTold
    PROVE  Spec => []TypeOK
<1>1. RxInv /\ TxInv /\ BufInv => TypeOK
  BY InvTypes
<1>2. QED
  BY <1>1, SpecBufInv, PTL
=============================================================================
