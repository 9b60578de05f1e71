--------------------------- MODULE AtReceiveProofs ----------------------------
(***************************************************************************)
(* The parser of the bytes of the WiFi module, for any number of packets    *)
(* and lines, any sizes and any length of the buffers: what reaches recvCb, *)
(* what is lost and what gets into a response.                              *)
(***************************************************************************)
EXTENDS AtReceive, TLAPS

Kinds == {"header", "newline", "text"}

Elements == [kind : Kinds, packet : Nat, pos : Nat]

Packets == [size : Nat, separated : BOOLEAN]

\* A byte of a payload, as opposed to a header, a newline or a text.
IsPayload(e) == e.packet # 0 /\ e.kind # "header"

\* Late bytes of packet m, or of an earlier one with no newline since, may be
\* read as text of a line.
Tainted(m) ==
  \E j \in broken : j <= m /\ \A i \in j + 1 .. m : ~sent[i].separated

\* The bytes of its packet that urc_recv_func has read, if none was late.
Consumed ==
  IF pc = "drain" /\ temp_size + Len(recv_buf) > bfsz THEN bfsz
  ELSE temp_size + Len(recv_buf)

TypeInv ==
  /\ wire \in Seq(Elements) /\ line \in Seq(Elements) /\ recv_buf \in Seq(Elements)
  /\ sent \in Seq(Packets)
  /\ silent \in BOOLEAN /\ is_full \in BOOLEAN /\ resp \in BOOLEAN
  /\ pc \in {"line", "recv", "recvCb", "drain"}
  /\ packet \in Nat /\ bfsz \in Nat /\ temp_size \in Nat
  /\ broken \subseteq DOMAIN sent

\* The elements of the wire belong to packets that were sent.
WireInv ==
  \A i \in 1 .. Len(wire) :
    /\ wire[i].kind = "header" => wire[i].packet # 0
    /\ wire[i].packet # 0 => wire[i].packet \in DOMAIN sent
    /\ IsPayload(wire[i]) =>
         wire[i].pos \in 1 .. sent[wire[i].packet].size

\* A header is followed by the whole payload, unless the module was reset.
FollowInv ==
  \A i \in 1 .. Len(wire) :
    wire[i].kind = "header" =>
      \A j \in 1 .. sent[wire[i].packet].size :
        IF i + j <= Len(wire)
        THEN wire[i + j].packet = wire[i].packet /\ wire[i + j].pos = j
             /\ wire[i + j].kind # "header"
        ELSE silent

\* What is before a header; a text is followed by a newline; the end of the wire.
OrderInv ==
  /\ \A i \in 1 .. Len(wire) - 1 :
       wire[i + 1].kind = "header" =>
         IF wire[i].packet = 0 THEN wire[i].kind = "newline"
         ELSE wire[i].packet = wire[i + 1].packet - 1 /\ ~sent[wire[i + 1].packet].separated
  /\ \A i \in 1 .. Len(wire) :
       wire[i].kind = "text" /\ wire[i].packet = 0 =>
         i < Len(wire) /\ wire[i + 1].kind = "newline" /\ wire[i + 1].packet = 0
  /\ wire # <<>> /\ wire[Len(wire)].packet # 0 => wire[Len(wire)].packet = Len(sent)

\* urc_recv_func: the payload it still has to read is next in the wire.
UrcInv ==
  /\ pc = "line" => packet = 0 /\ bfsz = 0 /\ temp_size = 0 /\ recv_buf = <<>>
  /\ pc # "line" =>
       /\ line = <<>>
       /\ packet \in DOMAIN sent /\ bfsz = sent[packet].size
       /\ \A j \in 1 .. bfsz - (temp_size + Len(recv_buf)) :
            IF j <= Len(wire) THEN IsPayload(wire[j]) ELSE silent
  /\ pc \in {"recv", "recvCb"} =>
       /\ temp_size = 0 /\ Len(recv_buf) <= bfsz
       /\ \A i \in 1 .. Len(recv_buf) : recv_buf[i].packet = packet /\ recv_buf[i].pos = i
       /\ \A j \in 1 .. bfsz - Len(recv_buf) :
            j <= Len(wire) => wire[j].packet = packet /\ wire[j].pos = Len(recv_buf) + j
  /\ pc = "recvCb" => Len(recv_buf) = bfsz
  /\ pc = "drain" =>
       packet \in discarded /\ (Len(recv_buf) <= Piece \/ recv_buf = <<>>)

\* Packet m is the last one sent, if all was read, or its header is read next.
NextHeader(m) ==
  IF wire = <<>> THEN m = Len(sent) ELSE wire[1].kind = "header" /\ m = wire[1].packet

HeadInv == line # <<>> => \A m \in Nat : NextHeader(m) => Tainted(m)

\* The line that is being collected.
LineInv ==
  /\ ~get_urc_obj(line)
  /\ HeadInv
  /\ \A i \in 1 .. Len(line) : line[i].packet # 0 => broken # {}
  /\ ResponseClean

\* Element i of the wire is a byte of packet m.
PayloadOf(i, m) == IsPayload(wire[i]) /\ wire[i].packet = m

BehindHeader(i, m) ==
  /\ i > wire[i].pos /\ wire[i - wire[i].pos].kind = "header"
  /\ wire[i - wire[i].pos].packet = m

\* It is the byte urc_recv_func reads i-th from now, if none was late.
Awaited(i, m) == pc # "line" /\ packet = m /\ wire[i].pos = i + Consumed

\* A byte of a payload is behind its header, or awaited, or was late.
StrayInv ==
  \A i \in 1 .. Len(wire), m \in Nat :
    PayloadOf(i, m) => BehindHeader(i, m) \/ Awaited(i, m) \/ Tainted(m)

HeaderInWire(k) == \E i \in 1 .. Len(wire) : wire[i].kind = "header" /\ wire[i].packet = k

\* A packet whose header is gone is being received, was received, or has a cause.
GoneInv ==
  \A k \in DOMAIN sent :
    \/ sent[k].size = 0 \/ HeaderInWire(k) \/ (pc # "line" /\ packet = k)
    \/ k \in delivered \cup discarded \/ Tainted(k)

StreamInv == WireInv /\ FollowInv /\ OrderInv

IInv == TypeInv /\ StreamInv /\ UrcInv /\ LineInv /\ StrayInv /\ GoneInv

----------------------------------------------------------------------------
(* The wire                                                                 *)

LEMMA ElementFacts ==
  /\ Text \in Elements /\ Newline \in Elements
  /\ Newline.kind = "newline" /\ Newline.packet = 0
  /\ Text.kind = "text" /\ Text.packet = 0
  /\ \A k \in Nat : Header(k) \in Elements /\ Header(k).kind = "header" /\ Header(k).packet = k
  /\ \A k, i \in Nat, kind \in Kinds :
       /\ Payload(k, i, kind) \in Elements /\ Payload(k, i, kind).kind = kind
       /\ Payload(k, i, kind).packet = k /\ Payload(k, i, kind).pos = i
  BY DEF Text, Newline, Header, Payload, Elements, Kinds

LEMMA WireTypes ==
  ASSUME TypeInv
  PROVE  /\ Len(wire) \in Nat /\ Len(sent) \in Nat /\ DOMAIN sent = 1 .. Len(sent)
         /\ \A i \in 1 .. Len(wire) :
              wire[i].packet \in Nat /\ wire[i].pos \in Nat /\ wire[i].kind \in Kinds
         /\ \A k \in 1 .. Len(sent) : sent[k].size \in Nat /\ sent[k].separated \in BOOLEAN
  <1>1. wire \in Seq(Elements) /\ sent \in Seq(Packets)
    BY DEF TypeInv
  <1>2. \A i \in 1 .. Len(wire) : wire[i] \in Elements
    BY <1>1
  <1>3. /\ Len(wire) \in Nat /\ Len(sent) \in Nat /\ DOMAIN sent = 1 .. Len(sent)
        /\ sent \in [1 .. Len(sent) -> Packets]
    BY <1>1
  <1>4. \A k \in 1 .. Len(sent) : sent[k] \in Packets
    BY <1>3
  <1>5. \A k \in 1 .. Len(sent) : sent[k].size \in Nat
    BY <1>4 DEF Packets
  <1>6. \A k \in 1 .. Len(sent) : sent[k].separated \in BOOLEAN
    BY <1>4, Zenon DEF Packets
  <1>7. \A i \in 1 .. Len(wire) :
          wire[i].packet \in Nat /\ wire[i].pos \in Nat /\ wire[i].kind \in Kinds
    BY <1>2 DEF Elements
  <1> QED  BY <1>3, <1>5, <1>6, <1>7

LEMMA GetCharFacts ==
  ASSUME TypeInv, GetChar
  PROVE  /\ Len(wire) \in Nat \ {0} /\ Len(wire') = Len(wire) - 1
         /\ wire' \in Seq(Elements)
         /\ Head(wire) = wire[1] /\ wire[1] \in Elements
         /\ \A i \in 1 .. Len(wire') : wire'[i] = wire[i + 1] /\ i + 1 \in 1 .. Len(wire)
  <1>1. wire \in Seq(Elements) /\ wire # <<>> /\ wire' = Tail(wire)
    BY DEF TypeInv, GetChar
  <1>2. /\ Len(wire) \in Nat \ {0} /\ Len(wire') = Len(wire) - 1
        /\ wire' \in Seq(Elements) /\ Head(wire) = wire[1]
    BY <1>1
  <1>3. wire[1] \in Elements
    BY <1>1, <1>2
  <1>4. \A i \in 1 .. Len(wire') : wire'[i] = wire[i + 1] /\ i + 1 \in 1 .. Len(wire)
    BY <1>1, <1>2
  <1> QED  BY <1>2, <1>3, <1>4

\* Reading an element leaves the rest of the wire in order.
LEMMA GetCharStream ==
  ASSUME TypeInv, StreamInv, GetChar, UNCHANGED <<sent, silent>>
  PROVE  StreamInv'
  <1>1. /\ Len(wire) \in Nat \ {0} /\ Len(wire') = Len(wire) - 1
        /\ \A i \in 1 .. Len(wire') : wire'[i] = wire[i + 1] /\ i + 1 \in 1 .. Len(wire)
    BY GetCharFacts
  <1>2. WireInv'
    BY <1>1 DEF StreamInv, WireInv, IsPayload
  <1>3. FollowInv'
    <2> SUFFICES ASSUME NEW i \in 1 .. Len(wire'), wire'[i].kind = "header",
                        NEW j \in 1 .. sent[wire'[i].packet].size
                 PROVE  IF i + j <= Len(wire')
                        THEN wire'[i + j].packet = wire'[i].packet /\ wire'[i + j].pos = j
                             /\ wire'[i + j].kind # "header"
                        ELSE silent
      BY DEF FollowInv
    <2>1. wire'[i] = wire[i + 1] /\ i + 1 \in 1 .. Len(wire)
      BY <1>1
    <2>2. IF (i + 1) + j <= Len(wire)
          THEN wire[(i + 1) + j].packet = wire[i + 1].packet /\ wire[(i + 1) + j].pos = j
               /\ wire[(i + 1) + j].kind # "header"
          ELSE silent
      BY <2>1 DEF StreamInv, FollowInv
    <2>3. sent[wire[i + 1].packet].size \in Nat
      BY <2>1, WireTypes DEF StreamInv, WireInv
    <2>4. j \in Nat \ {0} /\ i \in Nat
      BY <1>1, <2>1, <2>3
    <2>5. (i + 1) + j = (i + j) + 1 /\ ((i + j) + 1 <= Len(wire) <=> i + j <= Len(wire'))
      BY <1>1, <2>4
    <2>6. i + j <= Len(wire') => wire'[i + j] = wire[(i + j) + 1]
      BY <1>1, <2>4
    <2> QED  BY <2>1, <2>2, <2>5, <2>6
  <1>4. OrderInv'
    <2>1. ASSUME NEW i \in 1 .. Len(wire') - 1, wire'[i + 1].kind = "header"
          PROVE  IF wire'[i].packet = 0 THEN wire'[i].kind = "newline"
                 ELSE /\ wire'[i].packet = wire'[i + 1].packet - 1
                      /\ ~sent[wire'[i + 1].packet].separated
      <3>1. /\ wire'[i] = wire[i + 1] /\ wire'[i + 1] = wire[(i + 1) + 1]
            /\ i + 1 \in 1 .. Len(wire) - 1
        BY <1>1
      <3> QED  BY <2>1, <3>1 DEF StreamInv, OrderInv
    <2>2. ASSUME NEW i \in 1 .. Len(wire'), wire'[i].kind = "text", wire'[i].packet = 0
          PROVE  i < Len(wire') /\ wire'[i + 1].kind = "newline" /\ wire'[i + 1].packet = 0
      <3>1. wire'[i] = wire[i + 1] /\ i + 1 \in 1 .. Len(wire)
        BY <1>1
      <3>2. /\ i + 1 < Len(wire) /\ wire[(i + 1) + 1].kind = "newline"
            /\ wire[(i + 1) + 1].packet = 0
        BY <2>2, <3>1 DEF StreamInv, OrderInv
      <3>3. i < Len(wire') /\ wire'[i + 1] = wire[(i + 1) + 1]
        BY <1>1, <3>2
      <3> QED  BY <3>2, <3>3
    <2>3. wire' # <<>> => wire'[Len(wire')] = wire[Len(wire)] /\ wire # <<>>
      <3>1. wire' \in Seq(Elements) /\ wire \in Seq(Elements)
        BY GetCharFacts DEF TypeInv
      <3>2. wire' # <<>> => Len(wire') \in 1 .. Len(wire') /\ Len(wire') + 1 = Len(wire)
        BY <1>1, <3>1
      <3>3. wire # <<>>
        BY <1>1, <3>1
      <3> QED  BY <1>1, <3>2, <3>3
    <2>4. wire' # <<>> /\ wire'[Len(wire')].packet # 0 => wire'[Len(wire')].packet = Len(sent)
      BY <2>3 DEF StreamInv, OrderInv
    <2> QED  BY <2>1, <2>2, <2>4 DEF OrderInv
  <1> QED  BY <1>2, <1>3, <1>4 DEF StreamInv

LEMMA SameStream ==
  ASSUME StreamInv, UNCHANGED <<wire, sent, silent>> PROVE StreamInv'
  BY DEF StreamInv, WireInv, FollowInv, OrderInv, IsPayload

\* What SendPacket appends: an optional newline, the header and the payload, of
\* which a reset may cut off the end.
PacketSent(n, separated, cut, s) ==
  /\ cut <= n /\ s = (IF separated THEN 1 ELSE 0)
  /\ ~silent /\ silent' = (cut < n)
  /\ sent' = Append(sent, [size |-> n, separated |-> separated])
  /\ wire' \in Seq(Elements) /\ Len(wire') = ((Len(wire) + s) + 1) + cut
  /\ \A i \in 1 .. Len(wire) : wire'[i] = wire[i]
  /\ s = 1 => wire'[Len(wire) + 1] = Newline
  /\ wire'[(Len(wire) + s) + 1] = Header(Len(sent) + 1)
  /\ \A j \in 1 .. cut :
       /\ wire'[((Len(wire) + s) + 1) + j].packet = Len(sent) + 1
       /\ wire'[((Len(wire) + s) + 1) + j].pos = j
       /\ wire'[((Len(wire) + s) + 1) + j].kind \in {"newline", "text"}

LEMMA ConcatFacts ==
  ASSUME NEW S, NEW a \in Seq(S), NEW b \in Seq(S)
  PROVE  /\ a \o b \in Seq(S) /\ Len(a \o b) = Len(a) + Len(b)
         /\ \A i \in 1 .. Len(a) : (a \o b)[i] = a[i]
         /\ \A i \in 1 .. Len(b) : (a \o b)[Len(a) + i] = b[i]
  OBVIOUS

LEMMA SendPacketFacts ==
  ASSUME TypeInv, SendPacket
  PROVE  \E n \in Nat, separated \in BOOLEAN, cut \in Nat, s \in {0, 1} :
            PacketSent(n, separated, cut, s)
  <1> DEFINE k == Len(sent) + 1
             body(n, newlineAt, cut) ==
               [i \in 1 .. cut |-> Payload(k, i, IF i = newlineAt THEN "newline" ELSE "text")]
             sep(separated) == IF separated THEN <<Newline>> ELSE <<>>
  <1>0. PICK n \in Sizes, separated \in BOOLEAN :
          \E newlineAt \in 0 .. n, cut \in {n, n - 1} \cap Nat :
            /\ silent' = (cut < n)
            /\ sent' = Append(sent, [size |-> n, separated |-> separated])
            /\ wire' = wire \o sep(separated) \o <<Header(k)>> \o body(n, newlineAt, cut)
    BY DEF SendPacket
  <1>1. PICK newlineAt \in 0 .. n, cut \in {n, n - 1} \cap Nat :
          /\ silent' = (cut < n)
          /\ sent' = Append(sent, [size |-> n, separated |-> separated])
          /\ wire' = wire \o sep(separated) \o <<Header(k)>> \o body(n, newlineAt, cut)
    BY <1>0
  <1>2. n \in Nat /\ cut \in Nat /\ cut <= n /\ k \in Nat /\ wire \in Seq(Elements)
    BY <1>1, AtReceiveAssumption, WireTypes DEF TypeInv
  <1>3. PICK s \in {0, 1} : s = IF separated THEN 1 ELSE 0
    OBVIOUS
  <1>4. PICK a \in Seq(Elements) : a = sep(separated) /\ Len(a) = s /\ (s = 1 => a[1] = Newline)
    <2>1. /\ sep(separated) \in Seq(Elements) /\ Len(sep(separated)) = s
          /\ s = 1 => sep(separated)[1] = Newline
      <3>1. CASE separated
        <4>1. sep(separated) = <<Newline>> /\ s = 1
          BY <1>3, <3>1
        <4>2. <<Newline>> \in Seq(Elements) /\ Len(<<Newline>>) = 1 /\ <<Newline>>[1] = Newline
          BY ElementFacts
        <4> HIDE DEF sep
        <4> QED  BY <4>1, <4>2
      <3>2. CASE ~separated
        <4>1. sep(separated) = <<>> /\ s = 0
          BY <1>3, <3>2
        <4>2. <<>> \in Seq(Elements) /\ Len(<<>>) = 0
          OBVIOUS
        <4> HIDE DEF sep
        <4> QED  BY <4>1, <4>2
      <3> QED  BY <3>1, <3>2
    <2> HIDE DEF sep
    <2> QED  BY <2>1
  <1>5. PICK b \in Seq(Elements) :
          /\ b = body(n, newlineAt, cut) /\ Len(b) = cut
          /\ \A j \in 1 .. cut : b[j].packet = k /\ b[j].pos = j /\ b[j].kind \in {"newline", "text"}
    <2>1. \A j \in 1 .. cut : \E kind \in {"newline", "text"} :
             body(n, newlineAt, cut)[j] = Payload(k, j, kind)
      OBVIOUS
    <2>2. \A j \in 1 .. cut :
             /\ body(n, newlineAt, cut)[j] \in Elements
             /\ body(n, newlineAt, cut)[j].packet = k /\ body(n, newlineAt, cut)[j].pos = j
             /\ body(n, newlineAt, cut)[j].kind \in {"newline", "text"}
      <3> HIDE DEF body, k
      <3> TAKE j \in 1 .. cut
      <3>1. PICK kind \in {"newline", "text"} : body(n, newlineAt, cut)[j] = Payload(k, j, kind)
        BY <2>1
      <3>2. j \in Nat /\ kind \in Kinds
        BY <1>2 DEF Kinds
      <3>3. /\ Payload(k, j, kind) \in Elements /\ Payload(k, j, kind).packet = k
            /\ Payload(k, j, kind).pos = j /\ Payload(k, j, kind).kind = kind
        BY <1>2, <3>2, ElementFacts
      <3> QED  BY <3>1, <3>3
    <2>3. body(n, newlineAt, cut) \in [1 .. cut -> Elements]
      BY <2>2
    <2>4. body(n, newlineAt, cut) \in Seq(Elements) /\ Len(body(n, newlineAt, cut)) = cut
      <3> HIDE DEF body
      <3> QED  BY <1>2, <2>3
    <2> HIDE DEF body, k
    <2> QED  BY <2>2, <2>4
  <1>6. PICK h \in Seq(Elements) : h = <<Header(k)>> /\ Len(h) = 1 /\ h[1] = Header(k)
    <2>1. Header(k) \in Elements
      BY <1>2, ElementFacts
    <2> HIDE DEF k
    <2>2. <<Header(k)>> \in Seq(Elements) /\ Len(<<Header(k)>>) = 1 /\ <<Header(k)>>[1] = Header(k)
      BY <2>1
    <2> QED  BY <2>2
  <1> HIDE DEF k, body, sep
  <1>7. PICK x \in Seq(Elements) :
          /\ x = wire \o a /\ Len(x) = Len(wire) + s
          /\ \A i \in 1 .. Len(wire) : x[i] = wire[i]
          /\ s = 1 => x[Len(wire) + 1] = Newline
    <2>1. wire \o a \in Seq(Elements) /\ Len(wire \o a) = Len(wire) + s
          /\ \A i \in 1 .. Len(wire) : (wire \o a)[i] = wire[i]
      BY <1>2, <1>4, ConcatFacts
    <2>2. s = 1 => (wire \o a)[Len(wire) + 1] = a[1]
      <3>1. \A i \in 1 .. Len(a) : (wire \o a)[Len(wire) + i] = a[i]
        BY <1>2, <1>4, ConcatFacts
      <3>2. s = 1 => 1 \in 1 .. Len(a)
        BY <1>4
      <3> QED  BY <3>1, <3>2
    <2> QED  BY <1>4, <2>1, <2>2
  <1>8. PICK y \in Seq(Elements) :
          /\ y = x \o h /\ Len(y) = Len(x) + 1
          /\ \A i \in 1 .. Len(x) : y[i] = x[i]
          /\ y[Len(x) + 1] = Header(k)
    <2>1. x \o h \in Seq(Elements) /\ Len(x \o h) = Len(x) + 1
          /\ \A i \in 1 .. Len(x) : (x \o h)[i] = x[i]
      BY <1>6, <1>7, ConcatFacts
    <2>2. (x \o h)[Len(x) + 1] = h[1]
      BY <1>6, <1>7, ConcatFacts
    <2> QED  BY <1>6, <2>1, <2>2
  <1>9. wire' = y \o b
    BY <1>1, <1>4, <1>5, <1>6, <1>7, <1>8
  <1>10. /\ wire' \in Seq(Elements) /\ Len(wire') = Len(y) + cut
         /\ \A i \in 1 .. Len(y) : wire'[i] = y[i]
         /\ \A j \in 1 .. cut : wire'[Len(y) + j] = b[j]
    <2>0. y \in Seq(Elements) /\ b \in Seq(Elements)
      BY <1>5, <1>8
    <2>1. /\ y \o b \in Seq(Elements) /\ Len(y \o b) = Len(y) + Len(b)
          /\ \A i \in 1 .. Len(y) : (y \o b)[i] = y[i]
          /\ \A i \in 1 .. Len(b) : (y \o b)[Len(y) + i] = b[i]
      BY <2>0, ConcatFacts, SMTT(40)
    <2>2. Len(b) = cut
      BY <1>5
    <2>3. /\ y \o b \in Seq(Elements) /\ Len(y \o b) = Len(y) + cut
          /\ \A i \in 1 .. Len(y) : (y \o b)[i] = y[i]
          /\ \A j \in 1 .. cut : (y \o b)[Len(y) + j] = b[j]
      BY <2>1, <2>2, Zenon
    <2> QED  BY <1>9, <2>3, Zenon
  <1>11. Len(wire) \in Nat /\ Len(y) = (Len(wire) + s) + 1
    BY <1>2, <1>7, <1>8
  <1>111. /\ \A i \in 1 .. Len(wire) : i \in 1 .. Len(x) /\ i \in 1 .. Len(y)
          /\ s = 1 => Len(wire) + 1 \in 1 .. Len(x) /\ Len(wire) + 1 \in 1 .. Len(y)
          /\ (Len(wire) + s) + 1 = Len(x) + 1 /\ Len(x) + 1 \in 1 .. Len(y)
    <2>1. Len(x) = Len(wire) + s /\ Len(y) = (Len(wire) + s) + 1 /\ Len(wire) \in Nat
      BY <1>7, <1>11
    <2>2. PICK l \in Nat, u \in Nat, v \in Nat : l = Len(wire) /\ u = Len(x) /\ v = Len(y)
      BY <2>1
    <2>3. u = l + s /\ v = (l + s) + 1 /\ s \in 0 .. 1
      BY <2>1, <2>2
    <2>4. /\ \A i \in 1 .. l : i \in 1 .. u /\ i \in 1 .. v
          /\ s = 1 => l + 1 \in 1 .. u /\ l + 1 \in 1 .. v
          /\ (l + s) + 1 = u + 1 /\ u + 1 \in 1 .. v
      BY <2>3
    <2> QED  BY <2>2, <2>4
  <1>12. \A i \in 1 .. Len(wire) : wire'[i] = wire[i]
    <2> TAKE i \in 1 .. Len(wire)
    <2>1. i \in 1 .. Len(x) /\ i \in 1 .. Len(y)
      BY <1>111
    <2> QED  BY <1>7, <1>8, <1>10, <2>1, Zenon
  <1>13. s = 1 => wire'[Len(wire) + 1] = Newline
    BY <1>7, <1>8, <1>10, <1>111, Zenon
  <1>14. wire'[(Len(wire) + s) + 1] = Header(Len(sent) + 1)
    BY <1>8, <1>10, <1>111, Zenon DEF k
  <1>15. ~silent
    BY DEF SendPacket
  <1>16. \A j \in 1 .. cut :
           /\ wire'[((Len(wire) + s) + 1) + j].packet = Len(sent) + 1
           /\ wire'[((Len(wire) + s) + 1) + j].pos = j
           /\ wire'[((Len(wire) + s) + 1) + j].kind \in {"newline", "text"}
    <2> TAKE j \in 1 .. cut
    <2>1. wire'[((Len(wire) + s) + 1) + j] = b[j]
      BY <1>10, <1>11, Zenon
    <2>2. b[j].packet = k /\ b[j].pos = j /\ b[j].kind \in {"newline", "text"}
      BY <1>5
    <2> QED  BY <2>1, <2>2 DEF k
  <1>17. wire' \in Seq(Elements) /\ Len(wire') = ((Len(wire) + s) + 1) + cut
    BY <1>10, <1>11
  <1>18. PacketSent(n, separated, cut, s)
    BY <1>1, <1>2, <1>3, <1>12, <1>13, <1>14, <1>15, <1>16, <1>17, Zenon DEF PacketSent
  <1> QED  BY <1>2, <1>18

LEMMA SendTextFacts ==
  ASSUME TypeInv, SendText
  PROVE  /\ wire' \in Seq(Elements) /\ Len(wire') = Len(wire) + 2
         /\ \A i \in 1 .. Len(wire) : wire'[i] = wire[i]
         /\ wire'[Len(wire) + 1] = Text /\ wire'[Len(wire) + 2] = Newline
         /\ UNCHANGED <<sent, silent>> /\ ~silent
  <1>1. wire \in Seq(Elements) /\ wire' = wire \o <<Text, Newline>>
    BY DEF TypeInv, SendText
  <1>2. PICK t \in Seq(Elements) : t = <<Text, Newline>> /\ Len(t) = 2 /\ t[1] = Text /\ t[2] = Newline
    <2>1. <<Text, Newline>> \in Seq(Elements)
      BY ElementFacts
    <2> QED  BY <2>1
  <1>3. /\ wire \o t \in Seq(Elements) /\ Len(wire \o t) = Len(wire) + Len(t)
        /\ \A i \in 1 .. Len(wire) : (wire \o t)[i] = wire[i]
        /\ \A i \in 1 .. Len(t) : (wire \o t)[Len(wire) + i] = t[i]
    BY <1>1, ConcatFacts
  <1>4. 1 \in 1 .. Len(t) /\ 2 \in 1 .. Len(t)
    BY <1>2
  <1> QED  BY <1>1, <1>2, <1>3, <1>4 DEF SendText

LEMMA SendTextStream ==
  ASSUME TypeInv, StreamInv, SendText PROVE StreamInv'
  <1>1. /\ Len(wire) \in Nat /\ Len(wire') = Len(wire) + 2 /\ wire' \in Seq(Elements)
        /\ \A i \in 1 .. Len(wire) : wire'[i] = wire[i]
        /\ UNCHANGED <<sent, silent>> /\ ~silent
    BY SendTextFacts, WireTypes
  <1>2. /\ wire'[Len(wire) + 1].kind = "text" /\ wire'[Len(wire) + 1].packet = 0
        /\ wire'[Len(wire) + 2].kind = "newline" /\ wire'[Len(wire) + 2].packet = 0
    BY SendTextFacts, ElementFacts
  <1>3. \A i \in 1 .. Len(wire') : i \in 1 .. Len(wire) \/ i = Len(wire) + 1 \/ i = Len(wire) + 2
    BY <1>1
  <1>4. WireInv'
    BY <1>1, <1>2, <1>3 DEF StreamInv, WireInv, IsPayload
  <1>5. FollowInv'
    <2> SUFFICES ASSUME NEW i \in 1 .. Len(wire'), wire'[i].kind = "header",
                        NEW j \in 1 .. sent[wire'[i].packet].size
                 PROVE  /\ i + j <= Len(wire')
                        /\ wire'[i + j].packet = wire'[i].packet /\ wire'[i + j].pos = j
                        /\ wire'[i + j].kind # "header"
      BY <1>1 DEF FollowInv
    <2>1. i \in 1 .. Len(wire) /\ wire'[i] = wire[i]
      BY <1>1, <1>2, <1>3
    <2>2. /\ i + j <= Len(wire) /\ wire[i + j].packet = wire[i].packet /\ wire[i + j].pos = j
          /\ wire[i + j].kind # "header"
      BY <1>1, <2>1 DEF StreamInv, FollowInv
    <2>3. sent[wire[i].packet].size \in Nat
      BY <2>1, WireTypes DEF StreamInv, WireInv
    <2>4. i + j \in 1 .. Len(wire) /\ i + j <= Len(wire')
      BY <1>1, <2>1, <2>2, <2>3
    <2> QED  BY <1>1, <2>1, <2>2, <2>4
  <1>6. OrderInv'
    <2>1. ASSUME NEW i \in 1 .. Len(wire') - 1, wire'[i + 1].kind = "header"
          PROVE  IF wire'[i].packet = 0 THEN wire'[i].kind = "newline"
                 ELSE /\ wire'[i].packet = wire'[i + 1].packet - 1
                      /\ ~sent[wire'[i + 1].packet].separated
      <3>1. i + 1 \in 1 .. Len(wire) /\ i \in 1 .. Len(wire) - 1 /\ i \in 1 .. Len(wire)
        BY <1>1, <1>2, <1>3, <2>1
      <3> QED  BY <1>1, <2>1, <3>1 DEF StreamInv, OrderInv
    <2>2. ASSUME NEW i \in 1 .. Len(wire'), wire'[i].kind = "text", wire'[i].packet = 0
          PROVE  i < Len(wire') /\ wire'[i + 1].kind = "newline" /\ wire'[i + 1].packet = 0
      <3>1. CASE i \in 1 .. Len(wire)
        <4>1. i < Len(wire) /\ wire[i + 1].kind = "newline" /\ wire[i + 1].packet = 0
          BY <1>1, <2>2, <3>1 DEF StreamInv, OrderInv
        <4>2. i + 1 \in 1 .. Len(wire) /\ i < Len(wire')
          BY <1>1, <3>1, <4>1
        <4> QED  BY <1>1, <4>1, <4>2
      <3>2. CASE i = Len(wire) + 1
        BY <1>1, <1>2, <3>2
      <3> QED  BY <1>2, <1>3, <2>2, <3>1, <3>2
    <2>3. wire'[Len(wire')].packet = 0
      BY <1>1, <1>2
    <2>4. sent' = sent
      BY <1>1
    <2> QED  BY <2>1, <2>2, <2>3, <2>4 DEF OrderInv
  <1> QED  BY <1>4, <1>5, <1>6 DEF StreamInv

LEMMA SentAppend ==
  ASSUME TypeInv, NEW x \in Packets, sent' = Append(sent, x)
  PROVE  /\ Len(sent') = Len(sent) + 1 /\ sent'[Len(sent) + 1] = x
         /\ sent' \in Seq(Packets)
         /\ \A k \in 1 .. Len(sent) : sent'[k] = sent[k]
         /\ \A k \in 1 .. Len(sent') : k \in 1 .. Len(sent) \/ k = Len(sent) + 1
  <1>1. sent \in Seq(Packets)
    BY DEF TypeInv
  <1>2. /\ Len(sent') = Len(sent) + 1 /\ sent'[Len(sent) + 1] = x
        /\ sent' \in Seq(Packets) /\ Len(sent) \in Nat
        /\ \A k \in 1 .. Len(sent) : sent'[k] = sent[k]
    BY <1>1
  <1> QED  BY <1>2

LEMMA SendPacketStream ==
  ASSUME TypeInv, StreamInv, SendPacket PROVE StreamInv'
  <1>0. PICK n \in Nat, separated \in BOOLEAN, cut \in Nat, s \in {0, 1} :
            PacketSent(n, separated, cut, s)
    BY SendPacketFacts
  <1>1. [size |-> n, separated |-> separated] \in Packets
        /\ [size |-> n, separated |-> separated].size = n
    BY DEF Packets
  <1>2. /\ Len(sent') = Len(sent) + 1 /\ sent'[Len(sent) + 1].size = n
        /\ \A k \in 1 .. Len(sent) : sent'[k] = sent[k]
        /\ DOMAIN sent' = 1 .. Len(sent')
        /\ sent'[Len(sent) + 1].separated = separated
    <2>1. sent' = Append(sent, [size |-> n, separated |-> separated])
      BY <1>0 DEF PacketSent
    <2>2. /\ Len(sent') = Len(sent) + 1
          /\ sent'[Len(sent) + 1] = [size |-> n, separated |-> separated]
          /\ sent' \in Seq(Packets) /\ \A k \in 1 .. Len(sent) : sent'[k] = sent[k]
      BY <1>1, <2>1, SentAppend
    <2>3. DOMAIN sent' = 1 .. Len(sent')
      BY <2>2
    <2>4. [size |-> n, separated |-> separated].separated = separated
      BY Zenon
    <2>5. sent'[Len(sent) + 1].separated = separated
      BY <2>2, <2>4, Zenon
    <2> QED  BY <1>1, <2>2, <2>3, <2>5
  <1>3. PICK p \in Nat : p = (Len(wire) + s) + 1 /\ Len(wire) \in Nat /\ Len(sent) \in Nat
    BY WireTypes
  <1>4. /\ Len(wire') = p + cut /\ wire' \in Seq(Elements) /\ cut <= n
        /\ \A i \in 1 .. Len(wire) : wire'[i] = wire[i]
        /\ wire'[p].kind = "header" /\ wire'[p].packet = Len(sent) + 1
        /\ ~silent /\ (silent' <=> cut < n)
    <2>1. wire'[p] = Header(Len(sent) + 1) /\ Len(sent) + 1 \in Nat
      BY <1>0, <1>3 DEF PacketSent
    <2>2. wire'[p].kind = "header" /\ wire'[p].packet = Len(sent) + 1
      BY <2>1, ElementFacts
    <2>3. ~silent /\ (silent' <=> cut < n)
      BY <1>0, Zenon DEF PacketSent
    <2>4. /\ Len(wire') = p + cut /\ wire' \in Seq(Elements) /\ cut <= n
          /\ \A i \in 1 .. Len(wire) : wire'[i] = wire[i]
      BY <1>0, <1>3 DEF PacketSent
    <2> QED  BY <2>2, <2>3, <2>4
  <1>5. s = 1 => wire'[Len(wire) + 1].kind = "newline" /\ wire'[Len(wire) + 1].packet = 0
    BY <1>0, ElementFacts DEF PacketSent
  <1>6. \A j \in 1 .. cut :
          /\ wire'[p + j].packet = Len(sent) + 1 /\ wire'[p + j].pos = j
          /\ wire'[p + j].kind \in {"newline", "text"}
    BY <1>0, <1>3 DEF PacketSent
  <1>7. \A i \in 1 .. Len(wire') :
          \/ i \in 1 .. Len(wire)
          \/ s = 1 /\ i = Len(wire) + 1
          \/ i = p
          \/ i - p \in 1 .. cut /\ i = p + (i - p)
    BY <1>3, <1>4
  <1>8. s = 1 <=> separated
    BY <1>0 DEF PacketSent
  <1>9. \A i \in 1 .. Len(wire) :
          wire[i].packet # 0 => wire[i].packet \in 1 .. Len(sent) /\ wire[i].packet # Len(sent) + 1
    BY <1>3, WireTypes DEF StreamInv, WireInv
  <1>10. WireInv'
    <2> SUFFICES ASSUME NEW i \in 1 .. Len(wire')
                 PROVE  /\ wire'[i].kind = "header" => wire'[i].packet # 0
                        /\ wire'[i].packet # 0 => wire'[i].packet \in DOMAIN sent'
                        /\ IsPayload(wire'[i]) =>
                             wire'[i].pos \in 1 .. sent'[wire'[i].packet].size
      BY DEF WireInv, IsPayload
    <2>1. CASE i \in 1 .. Len(wire)
      <3>1. wire'[i] = wire[i]
        BY <1>4, <2>1
      <3>2. wire[i].packet # 0 => sent'[wire[i].packet] = sent[wire[i].packet]
                                  /\ wire[i].packet \in DOMAIN sent'
        BY <1>2, <1>3, <1>9, <2>1
      <3> QED  BY <2>1, <3>1, <3>2 DEF StreamInv, WireInv, IsPayload
    <2>2. CASE s = 1 /\ i = Len(wire) + 1
      BY <1>5, <2>2 DEF IsPayload
    <2>3. CASE i = p
      BY <1>2, <1>3, <1>4, <2>3 DEF IsPayload
    <2>4. CASE i - p \in 1 .. cut /\ i = p + (i - p)
      <3>1. PICK j \in 1 .. cut : i = p + j
        BY <2>4
      <3>2. j \in 1 .. n
        BY <1>4
      <3>3. /\ wire'[i].packet = Len(sent) + 1 /\ wire'[i].pos = j
            /\ wire'[i].kind # "header"
        BY <1>6, <3>1
      <3>4. Len(sent) + 1 \in DOMAIN sent'
        BY <1>2, <1>3
      <3>5. wire'[i].pos \in 1 .. sent'[wire'[i].packet].size
        BY <1>2, <3>2, <3>3
      <3> QED  BY <3>3, <3>4, <3>5
    <2> QED  BY <1>7, <2>1, <2>2, <2>3, <2>4
  <1>11. FollowInv'
    <2> SUFFICES ASSUME NEW i \in 1 .. Len(wire'), wire'[i].kind = "header",
                        NEW j \in 1 .. sent'[wire'[i].packet].size
                 PROVE  IF i + j <= Len(wire')
                        THEN wire'[i + j].packet = wire'[i].packet /\ wire'[i + j].pos = j
                             /\ wire'[i + j].kind # "header"
                        ELSE silent'
      BY DEF FollowInv
    <2>1. CASE i \in 1 .. Len(wire)
      <3>1. wire'[i] = wire[i] /\ wire[i].packet \in 1 .. Len(sent)
        BY <1>4, <1>9, <2>1 DEF StreamInv, WireInv
      <3>2. j \in 1 .. sent[wire[i].packet].size /\ sent[wire[i].packet].size \in Nat
        BY <1>2, <3>1, WireTypes
      <3>3. /\ i + j <= Len(wire) /\ wire[i + j].packet = wire[i].packet /\ wire[i + j].pos = j
            /\ wire[i + j].kind # "header"
        BY <1>4, <2>1, <3>1, <3>2 DEF StreamInv, FollowInv
      <3>4. i + j \in 1 .. Len(wire) /\ i + j <= Len(wire')
        BY <1>3, <1>4, <2>1, <3>2, <3>3
      <3>5. wire'[i + j] = wire[i + j]
        BY <1>4, <3>4
      <3> QED  BY <3>1, <3>3, <3>4, <3>5
    <2>2. CASE i = p
      <3>1. j \in 1 .. n /\ wire'[i].packet = Len(sent) + 1
        BY <1>2, <1>4, <2>2
      <3>2. i + j <= Len(wire') <=> j <= cut
        BY <1>3, <1>4, <2>2, <3>1
      <3>3. CASE j <= cut
        <4>1. j \in 1 .. cut
          BY <3>1, <3>3
        <4> QED  BY <1>6, <2>2, <3>1, <3>2, <3>3, <4>1
      <3>4. CASE ~(j <= cut)
        BY <1>4, <3>1, <3>2, <3>4
      <3> QED  BY <3>3, <3>4
    <2>3. CASE s = 1 /\ i = Len(wire) + 1
      BY <1>5, <2>3
    <2>4. CASE i - p \in 1 .. cut /\ i = p + (i - p)
      <3>1. wire'[i].kind \in {"newline", "text"}
        BY <1>6, <2>4
      <3> QED  BY <3>1
    <2> QED  BY <1>7, <2>1, <2>2, <2>3, <2>4
  <1>12. ASSUME NEW i \in 1 .. Len(wire') - 1, wire'[i + 1].kind = "header"
         PROVE  IF wire'[i].packet = 0 THEN wire'[i].kind = "newline"
                ELSE /\ wire'[i].packet = wire'[i + 1].packet - 1
                     /\ ~sent'[wire'[i + 1].packet].separated
    <2>0. i \in Nat \ {0} /\ i + 1 \in 1 .. Len(wire') /\ i \in 1 .. Len(wire')
      BY <1>3, <1>4
    <2>1. CASE i + 1 \in 1 .. Len(wire)
      <3>1. i \in 1 .. Len(wire) - 1 /\ i \in 1 .. Len(wire)
        BY <1>3, <2>0, <2>1
      <3>2. wire'[i] = wire[i] /\ wire'[i + 1] = wire[i + 1]
        BY <1>4, <2>1, <3>1
      <3>3. wire[i + 1].packet \in 1 .. Len(sent)
        BY <1>9, <1>12, <2>1, <3>2 DEF StreamInv, WireInv
      <3>4. sent'[wire[i + 1].packet] = sent[wire[i + 1].packet]
        BY <1>2, <3>3
      <3>5. IF wire[i].packet = 0 THEN wire[i].kind = "newline"
            ELSE wire[i].packet = wire[i + 1].packet - 1 /\ ~sent[wire[i + 1].packet].separated
        BY <1>12, <3>1, <3>2 DEF StreamInv, OrderInv
      <3> QED  BY <3>2, <3>4, <3>5
    <2>2. CASE i + 1 = p
      <3>1. CASE s = 1
        <4>1. i = Len(wire) + 1
          BY <1>3, <2>0, <2>2, <3>1
        <4> QED  BY <1>5, <3>1, <4>1
      <3>2. CASE s = 0
        <4>1. i = Len(wire) /\ i \in 1 .. Len(wire) /\ wire'[i] = wire[i]
          BY <1>3, <1>4, <2>0, <2>2, <3>2
        <4>2. wire # <<>>
          BY <1>3, <2>0, <4>1
        <4>3. wire[i].packet # 0 => wire[i].packet = Len(sent)
          BY <4>1, <4>2 DEF StreamInv, OrderInv
        <4>4. wire[i].packet = 0 => wire[i].kind = "newline"
          <5>1. wire[i].kind \in Kinds
            BY <4>1, WireTypes
          <5>2. wire[i].packet = 0 => wire[i].kind # "header"
            BY <4>1 DEF StreamInv, WireInv
          <5>3. wire[i].packet = 0 /\ wire[i].kind = "text" => i < Len(wire)
            BY <4>1 DEF StreamInv, OrderInv
          <5> QED  BY <1>3, <4>1, <5>1, <5>2, <5>3 DEF Kinds
        <4>5. ~sent'[Len(sent) + 1].separated
          BY <1>2, <1>8, <3>2
        <4> QED  BY <1>3, <1>4, <2>2, <4>1, <4>3, <4>4, <4>5
      <3> QED  BY <3>1, <3>2
    <2>3. CASE s = 1 /\ i + 1 = Len(wire) + 1
      BY <1>5, <1>12, <2>3
    <2>4. CASE (i + 1) - p \in 1 .. cut /\ i + 1 = p + ((i + 1) - p)
      BY <1>6, <1>12, <2>4
    <2> QED  BY <1>7, <2>0, <2>1, <2>2, <2>3, <2>4
  <1>13. ASSUME NEW i \in 1 .. Len(wire'), wire'[i].kind = "text", wire'[i].packet = 0
         PROVE  i < Len(wire') /\ wire'[i + 1].kind = "newline" /\ wire'[i + 1].packet = 0
    <2>0. ASSUME i - p \in 1 .. cut, i = p + (i - p) PROVE FALSE
      <3>1. wire'[i].packet = Len(sent) + 1
        BY <1>6, <2>0
      <3> QED  BY <1>3, <1>13, <3>1
    <2>1. i \in 1 .. Len(wire) /\ wire'[i] = wire[i]
      BY <1>4, <1>5, <1>7, <1>13, <2>0
    <2>2. i < Len(wire) /\ wire[i + 1].kind = "newline" /\ wire[i + 1].packet = 0
      BY <1>13, <2>1 DEF StreamInv, OrderInv
    <2>3. i + 1 \in 1 .. Len(wire) /\ i < Len(wire')
      BY <1>3, <1>4, <2>1, <2>2
    <2> QED  BY <1>4, <2>2, <2>3
  <1>14. wire'[Len(wire')].packet = Len(sent')
    <2>1. CASE cut = 0
      BY <1>2, <1>3, <1>4, <2>1
    <2>2. CASE cut # 0
      <3>1. cut \in 1 .. cut
        BY <2>2
      <3> QED  BY <1>2, <1>4, <1>6, <3>1
    <2> QED  BY <2>1, <2>2
  <1>15. OrderInv'
    BY <1>12, <1>13, <1>14 DEF OrderInv
  <1> QED  BY <1>10, <1>11, <1>15 DEF StreamInv

LEMMA RestartStream ==
  ASSUME StreamInv, Restart PROVE StreamInv'
  BY DEF Restart, StreamInv, WireInv, FollowInv, OrderInv

----------------------------------------------------------------------------
(* Late bytes                                                               *)

\* What is tainted stays so.
LEMMA TaintedStays ==
  ASSUME TypeInv, NEW m \in 0 .. Len(sent), Tainted(m), broken \subseteq broken',
         sent' = sent \/ \E x \in Packets : sent' = Append(sent, x)
  PROVE  Tainted(m)'
  <1>1. PICK j \in broken : j <= m /\ \A i \in j + 1 .. m : ~sent[i].separated
    BY DEF Tainted
  <1>2. j \in 1 .. Len(sent) /\ Len(sent) \in Nat
    BY WireTypes DEF TypeInv
  <1>3. \A i \in j + 1 .. m : sent'[i] = sent[i]
    <2>1. \A i \in j + 1 .. m : i \in 1 .. Len(sent)
      BY <1>2
    <2>2. CASE sent' = sent
      BY <2>2
    <2>3. CASE \E x \in Packets : sent' = Append(sent, x)
      BY <2>1, <2>3, SentAppend
    <2> QED  BY <2>2, <2>3
  <1>4. \A i \in j + 1 .. m : ~sent'[i].separated
    BY <1>1, <1>3
  <1> QED  BY <1>1, <1>4 DEF Tainted

LEMMA TaintedNext ==
  ASSUME TypeInv, NEW m \in Nat, Tainted(m), ~sent[m + 1].separated
  PROVE  Tainted(m + 1)
  <1>1. PICK j \in broken : j <= m /\ \A i \in j + 1 .. m : ~sent[i].separated
    BY DEF Tainted
  <1>2. j \in Nat
    BY WireTypes DEF TypeInv
  <1>3. \A i \in j + 1 .. m + 1 : i \in j + 1 .. m \/ i = m + 1
    BY <1>2
  <1>4. \A i \in j + 1 .. m + 1 : ~sent[i].separated
    BY <1>1, <1>3
  <1>5. j <= m + 1
    BY <1>1, <1>2
  <1> QED  BY <1>4, <1>5 DEF Tainted

LEMMA BrokenTainted ==
  ASSUME NEW m \in Nat, m \in broken PROVE Tainted(m)
  <1>1. m <= m /\ \A i \in m + 1 .. m : ~sent[i].separated
    OBVIOUS
  <1> QED  BY <1>1 DEF Tainted

LEMMA BrokenTaintedNext ==
  ASSUME NEW m \in Nat, m \in broken' PROVE Tainted(m)'
  <1>1. m <= m /\ \A i \in m + 1 .. m : ~sent'[i].separated
    OBVIOUS
  <1> QED  BY <1>1 DEF Tainted

LEMMA TaintedBroken == ASSUME NEW m, Tainted(m) PROVE broken # {}
  BY DEF Tainted

\* What the parser may find at the head of the wire while it reads a line.
LEMMA HeadOfWire ==
  ASSUME IInv, pc = "line", GetChar
  PROVE  /\ IsPayload(wire[1]) => Tainted(wire[1].packet)
         /\ wire[1].kind = "header" /\ line # <<>> => Tainted(wire[1].packet)
  <1>1. TypeInv /\ StreamInv /\ LineInv /\ StrayInv
    BY DEF IInv
  <1>2. 1 \in 1 .. Len(wire) /\ wire # <<>>
    BY <1>1, GetCharFacts DEF GetChar
  <1>3. ASSUME IsPayload(wire[1]) PROVE Tainted(wire[1].packet)
    <2>1. wire[1].packet \in 1 .. Len(sent)
      BY <1>1, <1>2, <1>3, WireTypes DEF StreamInv, WireInv, IsPayload
    <2>2. wire[1].pos \in 1 .. sent[wire[1].packet].size /\ sent[wire[1].packet].size \in Nat
      BY <1>1, <1>2, <1>3, <2>1, WireTypes DEF StreamInv, WireInv
    <2>3. ~(1 > wire[1].pos)
      BY <2>2
    <2>4. PICK m \in Nat : m = wire[1].packet /\ PayloadOf(1, m)
      BY <1>3, <2>1 DEF PayloadOf
    <2>5. ~BehindHeader(1, m) /\ ~Awaited(1, m)
      BY <2>3 DEF BehindHeader, Awaited
    <2> QED  BY <1>1, <1>2, <2>4, <2>5 DEF StrayInv
  <1>4. ASSUME wire[1].kind = "header", line # <<>> PROVE Tainted(wire[1].packet)
    <2>1. wire[1].packet \in Nat
      BY <1>1, <1>2, WireTypes
    <2> QED  BY <1>1, <1>2, <1>4, <2>1 DEF LineInv, HeadInv, NextHeader
  <1> QED  BY <1>3, <1>4

\* A header is recognised exactly when it begins the line.
LEMMA HeaderAtStart ==
  ASSUME TypeInv, ~get_urc_obj(line), GetChar
  PROVE  get_urc_obj(NewLine(Head(wire))) <=> line = <<>> /\ wire[1].kind = "header"
  <1>1. line \in Seq(Elements) /\ Head(wire) = wire[1] /\ recv_bufsz \in Nat \ {0}
    BY GetCharFacts, AtReceiveAssumption DEF TypeInv
  <1>2. CASE Len(line) < recv_bufsz
    <2>1. NewLine(Head(wire)) = Append(line, wire[1])
      BY <1>1, <1>2 DEF NewLine
    <2>2. CASE line = <<>>
      <3>1. Len(Append(line, wire[1])) = 1 /\ Append(line, wire[1])[1] = wire[1]
        BY <2>2
      <3> QED  BY <2>1, <2>2, <3>1 DEF get_urc_obj
    <2>3. CASE line # <<>>
      <3>1. Len(line) \in Nat \ {0} /\ Len(Append(line, wire[1])) = Len(line) + 1
        BY <1>1, <2>3
      <3>2. Len(Append(line, wire[1])) # 1
        BY <3>1
      <3> QED  BY <2>1, <2>3, <3>2 DEF get_urc_obj
    <2> QED  BY <2>2, <2>3
  <1>3. CASE ~(Len(line) < recv_bufsz)
    <2>1. NewLine(Head(wire)) = line /\ line # <<>>
      BY <1>1, <1>3 DEF NewLine
    <2> QED  BY <2>1
  <1> QED  BY <1>2, <1>3

----------------------------------------------------------------------------
(* Types and the stream                                                     *)

LEMMA TypeNext == ASSUME IInv, [Next]_vars PROVE TypeInv'
  <1>0. TypeInv /\ UrcInv
    BY DEF IInv
  <1>e. <<>> \in Seq(Elements)
    OBVIOUS
  <1>1. CASE UNCHANGED vars
    BY <1>0, <1>1 DEF vars, streamVars, parserVars, histVars, TypeInv
  <1>2. CASE SendText
    <2>1. wire' \in Seq(Elements) /\ UNCHANGED <<sent, silent>>
      BY <1>0, <1>2, SendTextFacts
    <2> QED  BY <1>0, <1>2, <2>1 DEF SendText, parserVars, histVars, TypeInv
  <1>3. CASE SendPacket
    <2>1. PICK n \in Nat, separated \in BOOLEAN, cut \in Nat, s \in {0, 1} :
              PacketSent(n, separated, cut, s)
      BY <1>0, <1>3, SendPacketFacts
    <2>2. wire' \in Seq(Elements) /\ sent' = Append(sent, [size |-> n, separated |-> separated])
      BY <2>1 DEF PacketSent
    <2>3. silent' \in BOOLEAN
      <3>1. silent' = (cut < n)
        BY <2>1, Zenon DEF PacketSent
      <3> QED  BY <3>1
    <2>4. [size |-> n, separated |-> separated] \in Packets
      BY DEF Packets
    <2>5. sent' \in Seq(Packets) /\ Len(sent') = Len(sent) + 1
      BY <1>0, <2>2, <2>4, SentAppend
    <2>6. DOMAIN sent \subseteq DOMAIN sent'
      BY <1>0, <2>5, WireTypes
    <2> QED  BY <1>0, <1>3, <2>2, <2>3, <2>5, <2>6 DEF SendPacket, parserVars, histVars, TypeInv
  <1>4. CASE Restart \/ RespChange
    BY <1>0, <1>4 DEF Restart, RespChange, streamVars, parserVars, histVars, TypeInv
  <1>5. CASE LineByte
    <2>1. wire' \in Seq(Elements) /\ Head(wire) \in Elements
      BY <1>0, <1>5, GetCharFacts DEF LineByte
    <2>2. line' \in Seq(Elements)
      BY <1>0, <1>5, <2>1 DEF LineByte, NewLine, TypeInv
    <2>3. is_full' \in BOOLEAN
      BY <1>5 DEF LineByte
    <2> QED  BY <1>0, <1>5, <2>1, <2>2, <2>3 DEF LineByte, histVars, TypeInv
  <1>6. CASE LineEnd
    <2>1. wire' \in Seq(Elements)
      BY <1>0, <1>6, GetCharFacts DEF LineEnd
    <2>2. resp' \in BOOLEAN
      BY <1>0, <1>6 DEF LineEnd, TypeInv
    <2>3. line' = <<>> /\ is_full' = FALSE
          /\ UNCHANGED <<sent, silent, pc, packet, bfsz, recv_buf, temp_size, broken>>
      BY <1>6 DEF LineEnd
    <2> QED  BY <1>0, <1>e, <2>1, <2>2, <2>3 DEF TypeInv
  <1>7. CASE UrcHeader
    <2>1. wire' \in Seq(Elements) /\ wire[1] \in Elements /\ Head(wire) = wire[1]
          /\ 1 \in 1 .. Len(wire)
      BY <1>0, <1>7, GetCharFacts DEF UrcHeader
    <2>2. wire[1].kind = "header"
      BY <1>0, <1>7, HeaderAtStart DEF UrcHeader, IInv, LineInv
    <2>3. wire[1].packet \in 1 .. Len(sent)
      BY <1>0, <2>1, <2>2, WireTypes DEF IInv, StreamInv, WireInv
    <2>4. wire[1].packet \in Nat /\ sent[wire[1].packet].size \in Nat
      BY <1>0, <2>1, <2>3, WireTypes
    <2>5. packet' \in Nat /\ bfsz' \in Nat /\ temp_size' \in Nat /\ recv_buf' = recv_buf
          /\ pc' \in {"line", "recv", "recvCb", "drain"}
      BY <1>0, <1>7, <2>1, <2>4 DEF UrcHeader, TypeInv
    <2>6. line' = <<>> /\ is_full' = FALSE /\ UNCHANGED <<sent, silent, resp, broken>>
      BY <1>7 DEF UrcHeader
    <2> QED  BY <1>0, <1>e, <2>1, <2>5, <2>6 DEF TypeInv
  <1>8. CASE RecvByte \/ DrainByte
    <2>1. wire' \in Seq(Elements) /\ Head(wire) \in Elements
      BY <1>0, <1>8, GetCharFacts DEF RecvByte, DrainByte
    <2>2. recv_buf' \in Seq(Elements)
      <3>1. recv_buf' = Append(recv_buf, Head(wire)) /\ recv_buf \in Seq(Elements)
        BY <1>0, <1>8 DEF RecvByte, DrainByte, TypeInv
      <3> QED  BY <2>1, <3>1
    <2> QED  BY <1>0, <1>8, <2>1, <2>2 DEF RecvByte, DrainByte, histVars, TypeInv
  <1>9. CASE RecvTimeout
    <2>1. packet \in DOMAIN sent
      BY <1>0, <1>9 DEF RecvTimeout, UrcInv
    <2> QED  BY <1>0, <1>9, <2>1 DEF RecvTimeout, Return, streamVars, TypeInv
  <1>10. CASE RecvDone
    BY <1>0, <1>10 DEF RecvDone, streamVars, histVars, TypeInv
  <1>11. CASE recvCb \/ DrainDone
    <2>1. /\ pc' = "line" /\ packet' = 0 /\ bfsz' = 0 /\ recv_buf' = <<>> /\ temp_size' = 0
          /\ UNCHANGED <<wire, sent, silent, line, is_full, resp, broken>>
      BY <1>11 DEF recvCb, DrainDone, Return, streamVars, histVars
    <2> QED  BY <1>0, <1>e, <2>1 DEF TypeInv
  <1>12. CASE DrainPiece
    <2>1. packet \in DOMAIN sent
      BY <1>0, <1>12 DEF DrainPiece, UrcInv
    <2>2. broken' \subseteq broken \cup {packet}
      BY <1>12 DEF DrainPiece
    <2>3. temp_size' \in Nat
      BY <1>0, <1>12, AtReceiveAssumption DEF DrainPiece, TypeInv
    <2> QED  BY <1>0, <1>12, <2>1, <2>2, <2>3 DEF DrainPiece, streamVars, TypeInv
  <1> QED
    BY <1>1, <1>2, <1>3, <1>4, <1>5, <1>6, <1>7, <1>8, <1>9, <1>10, <1>11, <1>12
       DEF Next, Parser, Urc

LEMMA StreamNext == ASSUME IInv, [Next]_vars PROVE StreamInv'
  <1>0. TypeInv /\ StreamInv
    BY DEF IInv
  <1>1. CASE SendText
    BY <1>0, <1>1, SendTextStream
  <1>2. CASE SendPacket
    BY <1>0, <1>2, SendPacketStream
  <1>3. CASE Restart
    BY <1>0, <1>3, RestartStream
  <1>4. CASE LineByte \/ LineEnd \/ UrcHeader \/ RecvByte \/ DrainByte
    <2>1. GetChar /\ UNCHANGED <<sent, silent>>
      BY <1>4 DEF LineByte, LineEnd, UrcHeader, RecvByte, DrainByte
    <2> QED  BY <1>0, <2>1, GetCharStream
  <1>5. CASE UNCHANGED vars \/ RespChange \/ RecvTimeout \/ RecvDone \/ recvCb
             \/ DrainPiece \/ DrainDone
    <2>1. UNCHANGED <<wire, sent, silent>>
      BY <1>5 DEF vars, RespChange, RecvTimeout, RecvDone, recvCb, DrainPiece, DrainDone,
                  streamVars
    <2> QED  BY <1>0, <2>1, SameStream
  <1> QED  BY <1>1, <1>2, <1>3, <1>4, <1>5 DEF Next, Parser, Urc

----------------------------------------------------------------------------
(* urc_recv_func                                                            *)

LEMMA UrcTypes ==
  ASSUME TypeInv
  PROVE  /\ bfsz \in Nat /\ temp_size \in Nat /\ Len(recv_buf) \in Nat /\ Len(wire) \in Nat
         /\ sizeof_temp \in Nat \ {0} /\ recv_buf \in Seq(Elements)
  BY AtReceiveAssumption, WireTypes DEF TypeInv

\* The module goes on sending while urc_recv_func runs.
LEMMA UrcGrows ==
  ASSUME IInv, ~silent, UNCHANGED parserVars, UNCHANGED discarded,
         Len(wire') \in Nat, Len(wire) <= Len(wire'),
         \A i \in 1 .. Len(wire) : wire'[i] = wire[i],
         \A k \in DOMAIN sent : k \in DOMAIN sent' /\ sent'[k] = sent[k]
  PROVE  UrcInv'
  <1>1. TypeInv /\ UrcInv
    BY DEF IInv
  <1>2. UNCHANGED <<pc, line, packet, bfsz, recv_buf, temp_size>>
    BY DEF parserVars
  <1>3. ASSUME pc # "line", NEW j \in 1 .. bfsz - (temp_size + Len(recv_buf))
        PROVE  j <= Len(wire) /\ j <= Len(wire') /\ wire'[j] = wire[j] /\ IsPayload(wire[j])
    <2>1. j <= Len(wire) /\ IsPayload(wire[j])
      BY <1>1, <1>3 DEF UrcInv
    <2>2. j \in 1 .. Len(wire) /\ j <= Len(wire')
      BY <1>1, <2>1, UrcTypes
    <2> QED  BY <2>1, <2>2
  <1>4. pc # "line" =>
          /\ line = <<>> /\ packet \in DOMAIN sent' /\ bfsz = sent'[packet].size
          /\ \A j \in 1 .. bfsz - (temp_size + Len(recv_buf)) :
               IF j <= Len(wire') THEN IsPayload(wire'[j]) ELSE silent'
    BY <1>1, <1>3 DEF UrcInv
  <1>5. pc \in {"recv", "recvCb"} =>
          \A j \in 1 .. bfsz - Len(recv_buf) :
            j <= Len(wire') => wire'[j].packet = packet /\ wire'[j].pos = Len(recv_buf) + j
    <2> SUFFICES ASSUME pc \in {"recv", "recvCb"}, NEW j \in 1 .. bfsz - Len(recv_buf)
                 PROVE  wire'[j].packet = packet /\ wire'[j].pos = Len(recv_buf) + j
      OBVIOUS
    <2>1. temp_size = 0 /\ temp_size + Len(recv_buf) = Len(recv_buf)
      BY <1>1, UrcTypes DEF UrcInv
    <2>2. j <= Len(wire) /\ wire'[j] = wire[j]
      BY <1>3, <2>1
    <2> QED  BY <1>1, <2>2 DEF UrcInv
  <1>6. Piece' = Piece
    BY <1>2 DEF Piece
  <1> QED  BY <1>1, <1>2, <1>4, <1>5, <1>6 DEF UrcInv

LEMMA UrcHeaderFacts ==
  ASSUME IInv, UrcHeader
  PROVE  /\ line = <<>> /\ wire[1].kind = "header" /\ wire[1].packet \in 1 .. Len(sent)
         /\ 1 \in 1 .. Len(wire) /\ Head(wire) = wire[1]
         /\ sent[wire[1].packet].size \in Nat
  <1>1. TypeInv /\ LineInv /\ StreamInv /\ GetChar
    BY DEF IInv, UrcHeader
  <1>2. line = <<>> /\ wire[1].kind = "header"
    BY <1>1, HeaderAtStart DEF LineInv, UrcHeader
  <1>3. 1 \in 1 .. Len(wire) /\ Head(wire) = wire[1]
    BY <1>1, GetCharFacts
  <1>4. wire[1].packet \in 1 .. Len(sent)
    BY <1>1, <1>2, <1>3, WireTypes DEF StreamInv, WireInv
  <1> QED  BY <1>1, <1>2, <1>3, <1>4, WireTypes

LEMMA UrcHeaderUrc == ASSUME IInv, UrcHeader PROVE UrcInv'
  <1>1. TypeInv /\ StreamInv /\ UrcInv /\ GetChar /\ pc = "line" /\ line' = <<>> /\ sent' = sent
    BY DEF IInv, UrcHeader
  <1>2. /\ packet = 0 /\ bfsz = 0 /\ temp_size = 0 /\ recv_buf = <<>>
    BY <1>1 DEF UrcInv
  <1>3. PICK k \in 1 .. Len(sent) : k = wire[1].packet /\ k = Head(wire).packet
    BY UrcHeaderFacts
  <1>4. CASE pc' = "line"
    <2>1. UNCHANGED <<packet, bfsz, recv_buf, temp_size>>
      BY <1>1, <1>4 DEF UrcHeader
    <2> QED  BY <1>2, <1>4, <2>1 DEF UrcInv
  <1>5. CASE pc' # "line"
    <2>1. /\ packet' = k /\ bfsz' = sent[k].size /\ pc' \in {"recv", "drain"}
          /\ recv_buf' = <<>> /\ temp_size' = 0 /\ silent' = silent
          /\ pc' = "drain" => k \in discarded'
      BY <1>1, <1>2, <1>3, <1>5 DEF UrcHeader
    <2>2. sent[k].size \in Nat /\ k \in DOMAIN sent
      BY <1>1, WireTypes
    <2>3. ASSUME NEW j \in 1 .. sent[k].size
          PROVE  IF j <= Len(wire')
                 THEN wire'[j].packet = k /\ wire'[j].pos = j /\ wire'[j].kind # "header"
                 ELSE silent
      <3>1. IF 1 + j <= Len(wire)
            THEN wire[1 + j].packet = wire[1].packet /\ wire[1 + j].pos = j
                 /\ wire[1 + j].kind # "header"
            ELSE silent
        BY <1>1, <1>3, UrcHeaderFacts DEF StreamInv, FollowInv
      <3>2. j \in Nat /\ j >= 1 /\ j + 1 = 1 + j
        BY <2>2
      <3>3. j <= Len(wire') <=> 1 + j <= Len(wire)
        BY <1>1, <3>2, GetCharFacts
      <3>4. j <= Len(wire') => wire'[j] = wire[1 + j]
        BY <1>1, <3>2, GetCharFacts
      <3> QED  BY <1>3, <3>1, <3>3, <3>4
    <2>4. k # 0
      OBVIOUS
    <2>5. /\ Len(recv_buf') = 0 /\ bfsz' - (temp_size' + Len(recv_buf')) = sent[k].size
          /\ bfsz' - Len(recv_buf') = sent[k].size
      BY <2>1, <2>2
    <2>6. \A j \in 1 .. bfsz' - (temp_size' + Len(recv_buf')) :
             IF j <= Len(wire') THEN IsPayload(wire'[j]) ELSE silent'
      BY <2>1, <2>3, <2>4, <2>5 DEF IsPayload
    <2>7. \A j \in 1 .. bfsz' - Len(recv_buf') :
             j <= Len(wire') => wire'[j].packet = packet' /\ wire'[j].pos = Len(recv_buf') + j
      <3> TAKE j \in 1 .. bfsz' - Len(recv_buf')
      <3>1. j \in 1 .. sent[k].size /\ Len(recv_buf') + j = j
        BY <2>2, <2>5
      <3> QED  BY <2>1, <2>3, <3>1
    <2>8. Len(recv_buf') <= bfsz' /\ \A i \in 1 .. Len(recv_buf') : FALSE
      BY <2>1, <2>2, <2>5
    <2> QED  BY <1>1, <2>1, <2>2, <2>6, <2>7, <2>8 DEF UrcInv
  <1> QED  BY <1>4, <1>5

\* Another byte of the payload has been read.
LEMMA NextByteUrc ==
  ASSUME IInv, RecvByte \/ DrainByte
  PROVE  /\ IsPayload(wire[1]) /\ Head(wire) = wire[1] /\ 1 \in 1 .. Len(wire)
         /\ Len(recv_buf') = Len(recv_buf) + 1
         /\ temp_size + Len(recv_buf) < bfsz
         /\ \A j \in 1 .. bfsz - (temp_size + Len(recv_buf')) :
              IF j <= Len(wire') THEN IsPayload(wire'[j]) ELSE silent
  <1>1. TypeInv /\ UrcInv /\ GetChar /\ pc \in {"recv", "drain"}
    BY DEF IInv, RecvByte, DrainByte
  <1>2. /\ Len(wire) \in Nat \ {0} /\ Len(wire') = Len(wire) - 1 /\ Head(wire) = wire[1]
        /\ \A i \in 1 .. Len(wire') : wire'[i] = wire[i + 1]
    BY <1>1, GetCharFacts
  <1>3. recv_buf' = Append(recv_buf, Head(wire))
    BY DEF RecvByte, DrainByte
  <1>4. Len(recv_buf') = Len(recv_buf) + 1
    BY <1>1, <1>3, UrcTypes
  <1>5. temp_size + Len(recv_buf) < bfsz
    <2>1. CASE RecvByte
      BY <1>1, <2>1, UrcTypes DEF RecvByte, UrcInv
    <2>2. CASE DrainByte
      <3>1. Piece <= bfsz - temp_size /\ Piece \in Int /\ Len(recv_buf) < Piece
        BY <1>1, <2>2, UrcTypes DEF DrainByte, Piece
      <3> QED  BY <1>1, <3>1, UrcTypes
    <2> QED  BY <2>1, <2>2
  <1>6. \A j \in 1 .. bfsz - (temp_size + Len(recv_buf)) :
          IF j <= Len(wire) THEN IsPayload(wire[j]) ELSE silent
    BY <1>1 DEF UrcInv
  <1>7. IsPayload(wire[1])
    <2>1. 1 \in 1 .. bfsz - (temp_size + Len(recv_buf)) /\ 1 <= Len(wire)
      BY <1>1, <1>2, <1>5, UrcTypes
    <2> QED  BY <1>6, <2>1
  <1>8. ASSUME NEW j \in 1 .. bfsz - (temp_size + Len(recv_buf'))
        PROVE  IF j <= Len(wire') THEN IsPayload(wire'[j]) ELSE silent
    <2>1. j + 1 \in 1 .. bfsz - (temp_size + Len(recv_buf)) /\ j \in Nat \ {0}
      BY <1>1, <1>4, UrcTypes
    <2>2. j <= Len(wire') <=> j + 1 <= Len(wire)
      BY <1>2, <2>1
    <2>3. j <= Len(wire') => wire'[j] = wire[j + 1]
      BY <1>2, <2>1
    <2> QED  BY <1>6, <2>1, <2>2, <2>3
  <1> QED  BY <1>2, <1>4, <1>5, <1>7, <1>8

LEMMA RecvByteUrc == ASSUME IInv, RecvByte PROVE UrcInv'
  <1>1. TypeInv /\ UrcInv /\ GetChar /\ pc = "recv" /\ Len(recv_buf) < bfsz
        /\ UNCHANGED <<sent, silent, pc, line, packet, bfsz, temp_size, discarded>>
        /\ recv_buf' = Append(recv_buf, Head(wire))
    BY DEF IInv, RecvByte, histVars
  <1>2. /\ Head(wire) = wire[1] /\ 1 \in 1 .. Len(wire) /\ Len(recv_buf') = Len(recv_buf) + 1
        /\ \A j \in 1 .. bfsz - (temp_size + Len(recv_buf')) :
             IF j <= Len(wire') THEN IsPayload(wire'[j]) ELSE silent
    BY NextByteUrc
  <1>3. /\ Len(wire) \in Nat \ {0} /\ Len(wire') = Len(wire) - 1
        /\ \A i \in 1 .. Len(wire') : wire'[i] = wire[i + 1]
    BY <1>1, GetCharFacts
  <1>4. /\ temp_size = 0
        /\ \A i \in 1 .. Len(recv_buf) : recv_buf[i].packet = packet /\ recv_buf[i].pos = i
        /\ \A j \in 1 .. bfsz - Len(recv_buf) :
             j <= Len(wire) => wire[j].packet = packet /\ wire[j].pos = Len(recv_buf) + j
        /\ line = <<>> /\ packet \in DOMAIN sent /\ bfsz = sent[packet].size
    BY <1>1 DEF UrcInv
  <1>5. wire[1].packet = packet /\ wire[1].pos = Len(recv_buf) + 1
    <2>1. 1 \in 1 .. bfsz - Len(recv_buf) /\ 1 <= Len(wire)
      BY <1>1, <1>3, UrcTypes
    <2> QED  BY <1>4, <2>1
  <1>6. ASSUME NEW i \in 1 .. Len(recv_buf')
        PROVE  recv_buf'[i].packet = packet /\ recv_buf'[i].pos = i
    <2>1. CASE i = Len(recv_buf) + 1
      <3>1. recv_buf'[i] = wire[1]
        BY <1>1, <1>2, <2>1, UrcTypes
      <3> QED  BY <1>5, <2>1, <3>1
    <2>2. CASE i # Len(recv_buf) + 1
      <3>1. i \in 1 .. Len(recv_buf)
        BY <1>1, <1>2, <2>2, UrcTypes
      <3>2. recv_buf'[i] = recv_buf[i]
        BY <1>1, <3>1, UrcTypes
      <3> QED  BY <1>4, <3>1, <3>2
    <2> QED  BY <2>1, <2>2
  <1>7. ASSUME NEW j \in 1 .. bfsz - Len(recv_buf'), j <= Len(wire')
        PROVE  wire'[j].packet = packet /\ wire'[j].pos = Len(recv_buf') + j
    <2>0. Len(recv_buf) \in Nat /\ bfsz \in Nat /\ Len(recv_buf') = Len(recv_buf) + 1
      BY <1>1, <1>2, UrcTypes
    <2>1. /\ j + 1 \in 1 .. bfsz - Len(recv_buf) /\ j \in Nat \ {0}
          /\ Len(recv_buf) + (j + 1) = Len(recv_buf') + j
      BY <2>0
    <2>2. j + 1 <= Len(wire) /\ wire'[j] = wire[j + 1]
      BY <1>3, <1>7, <2>1
    <2> QED  BY <1>4, <2>1, <2>2
  <1>8. Len(recv_buf') <= bfsz
    BY <1>1, <1>2, UrcTypes
  <1> QED  BY <1>1, <1>2, <1>4, <1>6, <1>7, <1>8 DEF UrcInv

LEMMA DrainByteUrc == ASSUME IInv, DrainByte PROVE UrcInv'
  <1>1. TypeInv /\ UrcInv /\ pc = "drain" /\ Len(recv_buf) < Piece
        /\ UNCHANGED <<sent, silent, pc, line, packet, bfsz, temp_size, discarded>>
    BY DEF IInv, DrainByte, histVars
  <1>2. /\ Len(recv_buf') = Len(recv_buf) + 1
        /\ \A j \in 1 .. bfsz - (temp_size + Len(recv_buf')) :
             IF j <= Len(wire') THEN IsPayload(wire'[j]) ELSE silent
    BY NextByteUrc
  <1>3. Piece' = Piece /\ Piece \in Int
    BY <1>1, UrcTypes DEF Piece
  <1>4. Len(recv_buf') <= Piece'
    BY <1>1, <1>2, <1>3, UrcTypes
  <1> QED  BY <1>1, <1>2, <1>4 DEF UrcInv

LEMMA DrainPieceUrc == ASSUME IInv, DrainPiece PROVE UrcInv'
  <1>1. TypeInv /\ UrcInv /\ pc = "drain" /\ temp_size < bfsz
        /\ temp_size' = temp_size + sizeof_temp /\ recv_buf' = <<>>
        /\ UNCHANGED <<wire, sent, silent, pc, line, packet, bfsz, discarded>>
    BY DEF IInv, DrainPiece, streamVars
  <1>2. Len(recv_buf') = 0 /\ Len(recv_buf) <= sizeof_temp
    <2>1. Piece <= sizeof_temp /\ Piece \in Int
      BY <1>1, UrcTypes DEF Piece
    <2> QED  BY <1>1, <2>1, UrcTypes DEF UrcInv
  <1>3. \A j \in 1 .. bfsz' - (temp_size' + Len(recv_buf')) :
          j \in 1 .. bfsz - (temp_size + Len(recv_buf))
    BY <1>1, <1>2, UrcTypes
  <1>4. \A j \in 1 .. bfsz' - (temp_size' + Len(recv_buf')) :
          IF j <= Len(wire') THEN IsPayload(wire'[j]) ELSE silent'
    BY <1>1, <1>3 DEF UrcInv
  <1> QED  BY <1>1, <1>4 DEF UrcInv

LEMMA UrcNext == ASSUME IInv, [Next]_vars PROVE UrcInv'
  <1>0. TypeInv /\ StreamInv /\ UrcInv
    BY DEF IInv
  <1>1. CASE UNCHANGED vars \/ RespChange
    <2>1. UNCHANGED <<wire, sent, silent, pc, line, packet, bfsz, recv_buf, temp_size, discarded>>
      BY <1>1 DEF vars, RespChange, streamVars, parserVars, histVars
    <2> QED  BY <1>0, <2>1 DEF UrcInv, Piece, IsPayload
  <1>2. CASE SendText
    <2>1. /\ Len(wire') = Len(wire) + 2 /\ \A i \in 1 .. Len(wire) : wire'[i] = wire[i]
          /\ sent' = sent /\ ~silent /\ Len(wire) \in Nat
      BY <1>0, <1>2, SendTextFacts, WireTypes
    <2>2. UNCHANGED parserVars /\ UNCHANGED discarded
      BY <1>2 DEF SendText, histVars
    <2>3. Len(wire') \in Nat /\ Len(wire) <= Len(wire')
      BY <2>1
    <2> QED  BY <2>1, <2>2, <2>3, UrcGrows
  <1>3. CASE SendPacket
    <2>1. PICK n \in Nat, separated \in BOOLEAN, cut \in Nat, s \in {0, 1} :
              PacketSent(n, separated, cut, s)
      BY <1>0, <1>3, SendPacketFacts
    <2>2. /\ Len(wire') = ((Len(wire) + s) + 1) + cut
          /\ \A i \in 1 .. Len(wire) : wire'[i] = wire[i]
          /\ sent' = Append(sent, [size |-> n, separated |-> separated]) /\ ~silent
      BY <2>1 DEF PacketSent
    <2>3. Len(wire') \in Nat /\ Len(wire) <= Len(wire')
      BY <1>0, <2>2, WireTypes
    <2>4. [size |-> n, separated |-> separated] \in Packets
      BY DEF Packets
    <2>5. /\ sent' \in Seq(Packets) /\ Len(sent') = Len(sent) + 1
          /\ \A k \in 1 .. Len(sent) : sent'[k] = sent[k]
      BY <1>0, <2>2, <2>4, SentAppend
    <2>6. \A k \in DOMAIN sent : k \in DOMAIN sent' /\ sent'[k] = sent[k]
      BY <1>0, <2>5, WireTypes
    <2>7. UNCHANGED parserVars /\ UNCHANGED discarded
      BY <1>3 DEF SendPacket, histVars
    <2> QED  BY <2>2, <2>3, <2>6, <2>7, UrcGrows
  <1>4. CASE Restart \/ LineByte \/ LineEnd
    <2>1. pc = "line" /\ UNCHANGED <<pc, packet, bfsz, recv_buf, temp_size>>
      BY <1>4 DEF Restart, LineByte, LineEnd, parserVars
    <2> QED  BY <1>0, <2>1 DEF UrcInv
  <1>5. CASE UrcHeader
    BY <1>5, UrcHeaderUrc
  <1>6. CASE RecvByte
    BY <1>6, RecvByteUrc
  <1>7. CASE RecvTimeout \/ recvCb \/ DrainDone
    <2>1. pc' = "line" /\ packet' = 0 /\ bfsz' = 0 /\ recv_buf' = <<>> /\ temp_size' = 0
      BY <1>7 DEF RecvTimeout, recvCb, DrainDone, Return
    <2> QED  BY <2>1 DEF UrcInv
  <1>8. CASE RecvDone
    <2>1. pc = "recv" /\ pc' = "recvCb" /\ Len(recv_buf) = bfsz
          /\ UNCHANGED <<wire, sent, silent, line, packet, bfsz, recv_buf, temp_size>>
      BY <1>8 DEF RecvDone, streamVars
    <2> QED  BY <1>0, <2>1 DEF UrcInv, IsPayload
  <1>9. CASE DrainByte
    BY <1>9, DrainByteUrc
  <1>10. CASE DrainPiece
    BY <1>10, DrainPieceUrc
  <1> QED
    BY <1>1, <1>2, <1>3, <1>4, <1>5, <1>6, <1>7, <1>8, <1>9, <1>10 DEF Next, Parser, Urc

----------------------------------------------------------------------------
(* The line                                                                 *)

LEMMA SentGrows ==
  ASSUME IInv, [Next]_vars
  PROVE  broken \subseteq broken' /\ (sent' = sent \/ \E x \in Packets : sent' = Append(sent, x))
  <1>1. broken \subseteq broken'
    BY DEF vars, histVars, Next, Parser, Urc, SendText, SendPacket, Restart, RespChange,
           LineByte, LineEnd, UrcHeader, RecvByte, RecvTimeout, RecvDone, recvCb, DrainByte,
           DrainPiece, DrainDone
  <1>2. CASE SendPacket
    <2>1. PICK n \in Nat, separated \in BOOLEAN, cut \in Nat, s \in {0, 1} :
              PacketSent(n, separated, cut, s)
      BY <1>2, SendPacketFacts DEF IInv
    <2>2. [size |-> n, separated |-> separated] \in Packets
      BY DEF Packets
    <2> QED  BY <1>1, <2>1, <2>2 DEF PacketSent
  <1>3. CASE ~SendPacket
    <2>1. sent' = sent
      BY <1>3 DEF vars, streamVars, Next, Parser, Urc, SendText, Restart, RespChange,
             LineByte, LineEnd, UrcHeader, RecvByte, RecvTimeout, RecvDone, recvCb, DrainByte,
             DrainPiece, DrainDone
    <2> QED  BY <1>1, <2>1
  <1> QED  BY <1>2, <1>3

LEMMA TaintedKept ==
  ASSUME IInv, [Next]_vars, NEW m \in 0 .. Len(sent), Tainted(m)
  PROVE  Tainted(m)'
  <1>1. TypeInv
    BY DEF IInv
  <1> QED  BY <1>1, SentGrows, TaintedStays

\* The step does not touch the line, and the header that comes next stays.
LEMMA SameLine ==
  ASSUME IInv, [Next]_vars, UNCHANGED <<line, polluted>>,
         \A m \in Nat : line # <<>> /\ NextHeader(m)' => NextHeader(m)
  PROVE  LineInv'
  <1>1. TypeInv /\ LineInv /\ StreamInv /\ broken \subseteq broken'
    BY SentGrows DEF IInv
  <1>2. ASSUME line' # <<>>, NEW m \in Nat, NextHeader(m)'
        PROVE  Tainted(m)'
    <2>1. NextHeader(m) /\ Tainted(m)
      BY <1>1, <1>2 DEF LineInv, HeadInv
    <2>2. m \in 0 .. Len(sent)
      <3>1. CASE wire = <<>>
        BY <1>1, <2>1, <3>1, WireTypes DEF NextHeader
      <3>2. CASE wire # <<>>
        <4>1. 1 \in 1 .. Len(wire)
          BY <1>1, <3>2 DEF TypeInv
        <4> QED  BY <1>1, <2>1, <3>2, <4>1, WireTypes DEF NextHeader, StreamInv, WireInv
      <3> QED  BY <3>1, <3>2
    <2> QED  BY <2>1, <2>2, TaintedKept
  <1>3. HeadInv'
    BY <1>2 DEF HeadInv
  <1>4. ~get_urc_obj(line)'
    BY <1>1 DEF LineInv, get_urc_obj
  <1>5. \A i \in 1 .. Len(line') : line'[i].packet # 0 => broken' # {}
    BY <1>1 DEF LineInv
  <1>6. ResponseClean'
    BY <1>1 DEF LineInv, ResponseClean
  <1> QED  BY <1>3, <1>4, <1>5, <1>6 DEF LineInv

LEMMA LineByteLine == ASSUME IInv, LineByte PROVE LineInv'
  <1>1. /\ TypeInv /\ StreamInv /\ LineInv /\ GetChar /\ pc = "line"
        /\ line' = NewLine(Head(wire)) /\ ~get_urc_obj(NewLine(Head(wire)))
        /\ Head(wire).kind # "newline" /\ UNCHANGED <<sent, broken, polluted>>
    BY DEF IInv, LineByte, histVars
  <1>2. /\ Len(wire) \in Nat \ {0} /\ Len(wire') = Len(wire) - 1 /\ wire' \in Seq(Elements)
        /\ Head(wire) = wire[1] /\ wire[1] \in Elements
        /\ \A i \in 1 .. Len(wire') : wire'[i] = wire[i + 1]
    BY <1>1, GetCharFacts
  <1>3. /\ IsPayload(wire[1]) => Tainted(wire[1].packet)
        /\ wire[1].kind = "header" => Tainted(wire[1].packet)
    BY <1>1, HeadOfWire, HeaderAtStart DEF LineInv
  <1>4. wire[1].packet # 0 => Tainted(wire[1].packet)
    BY <1>3 DEF IsPayload
  <1>5. wire[1].packet \in Nat /\ wire[1].kind \in Kinds /\ 1 \in 1 .. Len(wire)
    BY <1>1, <1>2, WireTypes
  <1>6. ASSUME NEW m \in Nat, NextHeader(m)' PROVE Tainted(m)
    <2>1. wire[1].packet # 0
      <3> SUFFICES ASSUME wire[1].packet = 0 PROVE FALSE
        OBVIOUS
      <3>1. wire[1].kind = "text"
        BY <1>1, <1>2, <1>5 DEF Kinds, StreamInv, WireInv
      <3>2. 1 < Len(wire) /\ wire[1 + 1].kind = "newline"
        BY <1>1, <1>5, <3>1 DEF StreamInv, OrderInv
      <3>3. wire' # <<>> /\ wire'[1] = wire[1 + 1]
        BY <1>2, <3>2
      <3> QED  BY <1>6, <3>2, <3>3 DEF NextHeader
    <2>2. Tainted(wire[1].packet)
      BY <1>4, <2>1
    <2>3. CASE wire' = <<>>
      <3>1. Len(wire) = 1 /\ wire # <<>>
        BY <1>2, <2>3
      <3>2. wire[1].packet = Len(sent)
        BY <1>1, <2>1, <3>1 DEF StreamInv, OrderInv
      <3>3. m = Len(sent)
        BY <1>1, <1>6, <2>3 DEF NextHeader
      <3> QED  BY <2>2, <3>2, <3>3
    <2>4. CASE wire' # <<>>
      <3>1. 1 \in 1 .. Len(wire') /\ 1 \in 1 .. Len(wire) - 1 /\ wire'[1] = wire[1 + 1]
        BY <1>2, <2>4
      <3>2. wire[1 + 1].kind = "header" /\ m = wire[1 + 1].packet
        BY <1>6, <2>4, <3>1 DEF NextHeader
      <3>3. wire[1].packet = m - 1 /\ ~sent[m].separated
        BY <1>1, <2>1, <3>1, <3>2 DEF StreamInv, OrderInv
      <3>4. PICK k \in Nat : k = wire[1].packet /\ m = k + 1
        BY <1>5, <3>3
      <3> QED  BY <1>1, <2>2, <3>3, <3>4, TaintedNext
    <2> QED  BY <2>3, <2>4
  <1>7. HeadInv'
    BY <1>1, <1>6 DEF HeadInv, Tainted
  <1>8. ASSUME NEW i \in 1 .. Len(line'), line'[i].packet # 0 PROVE broken # {}
    <2>1. line \in Seq(Elements)
      BY <1>1 DEF TypeInv
    <2>2. CASE line' = line
      BY <1>1, <1>8, <2>2 DEF LineInv
    <2>3. CASE line' = Append(line, wire[1])
      <3>1. (i \in 1 .. Len(line) /\ line'[i] = line[i]) \/ line'[i] = wire[1]
        BY <2>1, <2>3
      <3>2. CASE i \in 1 .. Len(line) /\ line'[i] = line[i]
        BY <1>1, <1>8, <3>2 DEF LineInv
      <3>3. CASE line'[i] = wire[1]
        BY <1>4, <1>8, <3>3, TaintedBroken
      <3> QED  BY <3>1, <3>2, <3>3
    <2> QED  BY <1>1, <1>2, <2>2, <2>3 DEF NewLine
  <1>9. ResponseClean'
    BY <1>1 DEF LineInv, ResponseClean
  <1>10. ~get_urc_obj(line)'
    BY <1>1 DEF get_urc_obj
  <1> QED  BY <1>1, <1>7, <1>8, <1>9, <1>10 DEF LineInv

\* An empty line, and what went to a response.
LEMMA EmptyLine ==
  ASSUME line' = <<>>, ResponseClean' PROVE LineInv'
  <1>1. Len(line') = 0
    OBVIOUS
  <1> QED  BY <1>1 DEF LineInv, HeadInv, get_urc_obj

LEMMA LineEndLine == ASSUME IInv, LineEnd PROVE LineInv'
  <1>1. /\ TypeInv /\ StreamInv /\ LineInv /\ GetChar /\ pc = "line" /\ line' = <<>>
        /\ Head(wire).kind = "newline" /\ broken' = broken
    BY DEF IInv, LineEnd
  <1>2. polluted' => polluted \/ HasPayload(Append(line, Head(wire)))
    BY DEF LineEnd
  <1>3. Head(wire) = wire[1] /\ line \in Seq(Elements)
    BY <1>1, GetCharFacts DEF TypeInv
  <1>4. ASSUME HasPayload(Append(line, Head(wire))) PROVE broken # {}
    <2>1. PICK i \in DOMAIN Append(line, wire[1]) : Append(line, wire[1])[i].packet # 0
      BY <1>3, <1>4 DEF HasPayload
    <2>2. \/ i \in 1 .. Len(line) /\ Append(line, wire[1])[i] = line[i]
          \/ Append(line, wire[1])[i] = wire[1]
      BY <1>3, <2>1
    <2>3. CASE i \in 1 .. Len(line) /\ Append(line, wire[1])[i] = line[i]
      BY <1>1, <2>1, <2>3 DEF LineInv
    <2>4. CASE Append(line, wire[1])[i] = wire[1]
      <3>1. IsPayload(wire[1])
        BY <1>1, <1>3, <2>1, <2>4 DEF IsPayload
      <3> QED  BY <1>1, <3>1, HeadOfWire, TaintedBroken
    <2> QED  BY <2>2, <2>3, <2>4
  <1>5. ResponseClean'
    BY <1>1, <1>2, <1>4 DEF LineInv, ResponseClean
  <1> QED  BY <1>1, <1>5, EmptyLine

LEMMA LineNext == ASSUME IInv, [Next]_vars PROVE LineInv'
  <1>0. TypeInv /\ StreamInv /\ UrcInv /\ LineInv /\ ResponseClean /\ broken \subseteq broken'
    BY SentGrows DEF IInv, LineInv
  <1>1. CASE UNCHANGED vars \/ RespChange \/ Restart
    <2>1. UNCHANGED <<wire, sent, line, polluted>>
      BY <1>1 DEF vars, RespChange, Restart, streamVars, parserVars, histVars
    <2>2. \A m \in Nat : NextHeader(m)' => NextHeader(m)
      BY <2>1 DEF NextHeader
    <2> QED  BY <2>1, <2>2, SameLine
  <1>2. CASE SendText
    <2>1. /\ Len(wire') = Len(wire) + 2 /\ Len(wire) \in Nat
          /\ \A i \in 1 .. Len(wire) : wire'[i] = wire[i]
          /\ wire'[Len(wire) + 1] = Text /\ wire' \in Seq(Elements)
      BY <1>0, <1>2, SendTextFacts, WireTypes
    <2>2. UNCHANGED <<line, polluted>>
      BY <1>2 DEF SendText, parserVars, histVars
    <2>3. wire' # <<>>
      BY <2>1
    <2>4. CASE wire = <<>>
      <3>1. wire'[1].kind = "text"
        BY <2>1, <2>4, ElementFacts
      <3>2. \A m \in Nat : ~NextHeader(m)'
        BY <2>3, <3>1 DEF NextHeader
      <3> QED  BY <2>2, <3>2, SameLine
    <2>5. CASE wire # <<>>
      <3>1. 1 \in 1 .. Len(wire)
        BY <1>0, <2>5 DEF TypeInv
      <3>2. \A m \in Nat : NextHeader(m)' => NextHeader(m)
        BY <2>1, <2>3, <2>5, <3>1 DEF NextHeader
      <3> QED  BY <2>2, <3>2, SameLine
    <2> QED  BY <2>4, <2>5
  <1>3. CASE SendPacket
    <2>1. PICK n \in Nat, separated \in BOOLEAN, cut \in Nat, s \in {0, 1} :
              PacketSent(n, separated, cut, s)
      BY <1>0, <1>3, SendPacketFacts
    <2>2. /\ Len(wire') = ((Len(wire) + s) + 1) + cut /\ Len(wire) \in Nat /\ Len(sent) \in Nat
          /\ \A i \in 1 .. Len(wire) : wire'[i] = wire[i]
          /\ s = 1 => wire'[Len(wire) + 1] = Newline
          /\ wire'[(Len(wire) + s) + 1] = Header(Len(sent) + 1) /\ wire' \in Seq(Elements)
      BY <1>0, <2>1, WireTypes DEF PacketSent
    <2>3. wire' # <<>>
      BY <2>2
    <2>4. UNCHANGED <<line, polluted>>
      BY <1>3 DEF SendPacket, parserVars, histVars
    <2>5. CASE wire # <<>>
      <3>1. 1 \in 1 .. Len(wire)
        BY <1>0, <2>5 DEF TypeInv
      <3>2. \A m \in Nat : NextHeader(m)' => NextHeader(m)
        BY <2>2, <2>3, <2>5, <3>1 DEF NextHeader
      <3> QED  BY <2>4, <3>2, SameLine
    <2>6. CASE wire = <<>> /\ s = 1
      <3>1. wire'[1].kind = "newline"
        BY <2>2, <2>6, ElementFacts
      <3>2. \A m \in Nat : ~NextHeader(m)'
        BY <2>3, <3>1 DEF NextHeader
      <3> QED  BY <2>4, <3>2, SameLine
    <2>7. CASE wire = <<>> /\ s = 0
      <3>1. wire'[1] = Header(Len(sent) + 1)
        BY <2>2, <2>7
      <3>2. wire'[1].packet = Len(sent) + 1
        BY <2>2, <3>1, ElementFacts
      <3>3. PICK x \in Packets : sent' = Append(sent, x) /\ ~x.separated
        <4>1. [size |-> n, separated |-> separated] \in Packets
          BY DEF Packets
        <4>2. separated = FALSE
          BY <2>1, <2>7 DEF PacketSent
        <4>3. ~[size |-> n, separated |-> separated].separated
          BY <4>2
        <4>4. sent' = Append(sent, [size |-> n, separated |-> separated])
          BY <2>1 DEF PacketSent
        <4> QED  BY <4>1, <4>3, <4>4
      <3>4. Len(sent') = Len(sent) + 1 /\ ~sent'[Len(sent) + 1].separated /\ TypeInv'
        BY <1>0, <3>3, SentAppend, TypeNext
      <3>5. ASSUME line' # <<>>, NEW m \in Nat, NextHeader(m)' PROVE Tainted(m)'
        <4>1. m = Len(sent) + 1
          BY <2>3, <3>2, <3>5 DEF NextHeader
        <4>2. PICK l \in Nat : l = Len(sent) /\ l \in 0 .. Len(sent)
          BY <2>2
        <4>3. Tainted(l)
          BY <1>0, <2>4, <2>7, <3>5, <4>2 DEF LineInv, HeadInv, NextHeader
        <4>4. Tainted(l)'
          BY <4>2, <4>3, TaintedKept
        <4>5. PICK j \in broken' : j <= l /\ \A i \in j + 1 .. l : ~sent'[i].separated
          BY <4>4 DEF Tainted
        <4>6. j \in Nat
          BY <3>4, WireTypes DEF TypeInv
        <4>7. \A i \in j + 1 .. m : i \in j + 1 .. l \/ i = l + 1
          BY <4>1, <4>2, <4>6
        <4>8. \A i \in j + 1 .. m : ~sent'[i].separated
          BY <3>4, <4>2, <4>5, <4>7
        <4>9. j <= m
          BY <4>1, <4>2, <4>5, <4>6
        <4> QED  BY <4>8, <4>9 DEF Tainted
      <3>6. HeadInv'
        BY <3>5 DEF HeadInv
      <3>7. ResponseClean'
        BY <1>0, <2>4 DEF ResponseClean
      <3> QED  BY <1>0, <2>4, <3>6, <3>7 DEF LineInv, get_urc_obj
    <2> QED  BY <2>5, <2>6, <2>7
  <1>4. CASE LineByte
    BY <1>4, LineByteLine
  <1>5. CASE LineEnd
    BY <1>5, LineEndLine
  <1>6. CASE UrcHeader
    <2>1. line' = <<>> /\ ResponseClean'
      BY <1>0, <1>6 DEF UrcHeader, ResponseClean
    <2> QED  BY <2>1, EmptyLine
  <1>7. CASE Urc
    <2>1. line' = line /\ line = <<>> /\ polluted' = polluted
      BY <1>0, <1>7 DEF Urc, RecvByte, RecvTimeout, RecvDone, recvCb, DrainByte, DrainPiece,
                        DrainDone, UrcInv, histVars
    <2>2. ResponseClean'
      BY <1>0, <2>1 DEF ResponseClean
    <2> QED  BY <2>1, <2>2, EmptyLine
  <1> QED  BY <1>1, <1>2, <1>3, <1>4, <1>5, <1>6, <1>7 DEF Next, Parser

----------------------------------------------------------------------------
(* Bytes of payloads                                                        *)

LEMMA PayloadFacts ==
  ASSUME TypeInv, StreamInv, NEW i \in 1 .. Len(wire), NEW m \in Nat, PayloadOf(i, m)
  PROVE  /\ m \in 1 .. Len(sent) /\ sent[m].size \in Nat
         /\ wire[i].pos \in 1 .. sent[m].size /\ wire[i].pos \in Nat \ {0}
  <1>1. m \in 1 .. Len(sent)
    BY WireTypes DEF PayloadOf, IsPayload, StreamInv, WireInv
  <1>2. sent[m].size \in Nat
    BY <1>1, WireTypes
  <1>3. wire[i].pos \in 1 .. sent[m].size
    BY DEF PayloadOf, StreamInv, WireInv
  <1> QED  BY <1>1, <1>2, <1>3

\* The wire stays; what is awaited still is, or has been late.
LEMMA SameWireStray ==
  ASSUME IInv, [Next]_vars, wire' = wire,
         \A i \in 1 .. Len(wire), m \in Nat :
            PayloadOf(i, m) /\ Awaited(i, m) => Awaited(i, m)' \/ Tainted(m)'
  PROVE  StrayInv'
  <1>1. TypeInv /\ StreamInv /\ StrayInv
    BY DEF IInv
  <1>2. ASSUME NEW i \in 1 .. Len(wire), NEW m \in Nat, PayloadOf(i, m)
        PROVE  BehindHeader(i, m)' \/ Awaited(i, m)' \/ Tainted(m)'
    <2>1. CASE BehindHeader(i, m)
      BY <2>1 DEF BehindHeader
    <2>2. CASE Awaited(i, m)
      BY <1>2, <2>2
    <2>3. CASE Tainted(m)
      <3>1. m \in 0 .. Len(sent)
        BY <1>1, <1>2, PayloadFacts
      <3> QED  BY <2>3, <3>1, TaintedKept
    <2> QED  BY <1>1, <1>2, <2>1, <2>2, <2>3 DEF StrayInv
  <1> QED  BY <1>2 DEF StrayInv, PayloadOf

\* The wire grows.
LEMMA GrownStray ==
  ASSUME IInv, [Next]_vars, UNCHANGED parserVars,
         Len(wire') \in Nat, Len(wire) <= Len(wire'),
         \A i \in 1 .. Len(wire) : wire'[i] = wire[i],
         \A i \in 1 .. Len(wire'), m \in Nat :
            i \notin 1 .. Len(wire) /\ PayloadOf(i, m)' => BehindHeader(i, m)'
  PROVE  StrayInv'
  <1>1. TypeInv /\ StreamInv /\ StrayInv /\ Len(wire) \in Nat
    BY WireTypes DEF IInv
  <1>2. ASSUME NEW i \in 1 .. Len(wire'), NEW m \in Nat, PayloadOf(i, m)'
        PROVE  BehindHeader(i, m)' \/ Awaited(i, m)' \/ Tainted(m)'
    <2>1. CASE i \notin 1 .. Len(wire)
      BY <1>2, <2>1
    <2>2. CASE i \in 1 .. Len(wire)
      <3>1. PayloadOf(i, m)
        BY <1>2, <2>2 DEF PayloadOf
      <3>2. wire[i].pos \in Nat \ {0} /\ m \in 0 .. Len(sent)
        BY <1>1, <2>2, <3>1, PayloadFacts
      <3>3. CASE BehindHeader(i, m)
        <4>1. i - wire[i].pos \in 1 .. Len(wire)
          BY <1>1, <2>2, <3>2, <3>3 DEF BehindHeader
        <4> QED  BY <2>2, <3>3, <4>1 DEF BehindHeader
      <3>4. CASE Awaited(i, m)
        BY <2>2, <3>4 DEF Awaited, Consumed, parserVars
      <3>5. CASE Tainted(m)
        BY <3>2, <3>5, TaintedKept
      <3> QED  BY <1>1, <2>2, <3>1, <3>3, <3>4, <3>5 DEF StrayInv
    <2> QED  BY <2>1, <2>2
  <1> QED  BY <1>2 DEF StrayInv

\* The head of the wire is read.
LEMMA ReadStray ==
  ASSUME IInv, [Next]_vars, GetChar,
         \A i \in 1 .. Len(wire'), m \in Nat :
            /\ PayloadOf(i + 1, m) /\ wire[i + 1].pos = i /\ wire[1].kind = "header"
               /\ wire[1].packet = m => Awaited(i, m)' \/ Tainted(m)'
            /\ PayloadOf(i + 1, m) /\ Awaited(i + 1, m) => Awaited(i, m)'
  PROVE  StrayInv'
  <1>1. TypeInv /\ StreamInv /\ StrayInv
    BY DEF IInv
  <1>2. /\ Len(wire) \in Nat \ {0} /\ Len(wire') = Len(wire) - 1
        /\ \A i \in 1 .. Len(wire') : wire'[i] = wire[i + 1] /\ i + 1 \in 1 .. Len(wire)
    BY <1>1, GetCharFacts
  <1>3. ASSUME NEW i \in 1 .. Len(wire'), NEW m \in Nat, PayloadOf(i, m)'
        PROVE  BehindHeader(i, m)' \/ Awaited(i, m)' \/ Tainted(m)'
    <2>1. wire'[i] = wire[i + 1] /\ i + 1 \in 1 .. Len(wire) /\ PayloadOf(i + 1, m)
      BY <1>2, <1>3 DEF PayloadOf
    <2>2. wire[i + 1].pos \in Nat \ {0} /\ m \in 0 .. Len(sent)
      BY <1>1, <2>1, PayloadFacts
    <2>3. CASE BehindHeader(i + 1, m)
      <3>1. CASE wire[i + 1].pos = i
        <4>1. (i + 1) - wire[i + 1].pos = 1
          BY <1>2, <3>1
        <4> QED  BY <2>1, <2>3, <3>1, <4>1 DEF BehindHeader
      <3>2. CASE wire[i + 1].pos # i
        <4>1. i > wire[i + 1].pos
          BY <1>2, <2>2, <2>3, <3>2 DEF BehindHeader
        <4>2. i - wire[i + 1].pos \in 1 .. Len(wire') /\ (i - wire[i + 1].pos) + 1 = (i + 1) - wire[i + 1].pos
          <5>1. i \in Int /\ i <= Len(wire') /\ Len(wire') \in Int
            BY <1>2
          <5>2. PICK p \in Nat \ {0}, l \in Int : p = wire[i + 1].pos /\ l = Len(wire')
            BY <2>2, <5>1
          <5>3. i > p /\ i <= l
            BY <4>1, <5>1, <5>2, Zenon
          <5>4. i - p \in 1 .. l /\ (i - p) + 1 = (i + 1) - p
            <6> HIDE <1>1, <1>2, <2>1
            <6> QED  BY <5>1, <5>3
          <5> QED  BY <5>2, <5>4
        <4>3. wire'[i - wire[i + 1].pos] = wire[(i + 1) - wire[i + 1].pos]
          BY <1>2, <4>2
        <4> QED  BY <2>1, <2>3, <4>1, <4>3 DEF BehindHeader
      <3> QED  BY <3>1, <3>2
    <2>4. CASE Awaited(i + 1, m)
      BY <2>1, <2>4
    <2>5. CASE Tainted(m)
      BY <2>2, <2>5, TaintedKept
    <2> QED  BY <1>1, <2>1, <2>3, <2>4, <2>5 DEF StrayInv
  <1> QED  BY <1>3 DEF StrayInv

LEMMA StrayNext == ASSUME IInv, [Next]_vars PROVE StrayInv'
  <1>0. TypeInv /\ StreamInv /\ UrcInv /\ LineInv /\ StrayInv
    BY DEF IInv
  <1>1. CASE UNCHANGED vars \/ RespChange \/ Restart
    <2>1. UNCHANGED <<wire, pc, packet, bfsz, recv_buf, temp_size>>
      BY <1>1 DEF vars, RespChange, Restart, streamVars, parserVars
    <2>2. \A i \in 1 .. Len(wire), m \in Nat : Awaited(i, m) => Awaited(i, m)'
      BY <2>1 DEF Awaited, Consumed
    <2> QED  BY <2>1, <2>2, SameWireStray
  <1>2. CASE SendText
    <2>1. /\ Len(wire') = Len(wire) + 2 /\ Len(wire) \in Nat
          /\ \A i \in 1 .. Len(wire) : wire'[i] = wire[i]
          /\ wire'[Len(wire) + 1].packet = 0 /\ wire'[Len(wire) + 2].packet = 0
      BY <1>0, <1>2, SendTextFacts, WireTypes, ElementFacts
    <2>2. UNCHANGED parserVars /\ Len(wire') \in Nat /\ Len(wire) <= Len(wire')
      BY <1>2, <2>1 DEF SendText
    <2>3. \A i \in 1 .. Len(wire') : i \in 1 .. Len(wire) \/ wire'[i].packet = 0
      BY <2>1
    <2>4. \A i \in 1 .. Len(wire'), m \in Nat : i \notin 1 .. Len(wire) => ~PayloadOf(i, m)'
      BY <2>3 DEF PayloadOf, IsPayload
    <2> QED  BY <2>1, <2>2, <2>4, GrownStray
  <1>3. CASE SendPacket
    <2>1. PICK n \in Nat, separated \in BOOLEAN, cut \in Nat, s \in {0, 1} :
              PacketSent(n, separated, cut, s)
      BY <1>0, <1>3, SendPacketFacts
    <2>2. PICK p \in Nat : p = (Len(wire) + s) + 1 /\ Len(wire) \in Nat /\ Len(sent) \in Nat
      BY <1>0, WireTypes
    <2>3. /\ Len(wire') = p + cut /\ \A i \in 1 .. Len(wire) : wire'[i] = wire[i]
          /\ \A j \in 1 .. cut : wire'[p + j].packet = Len(sent) + 1 /\ wire'[p + j].pos = j
      BY <2>1, <2>2 DEF PacketSent
    <2>4. wire'[p].kind = "header" /\ wire'[p].packet = Len(sent) + 1
      <3>1. wire'[p] = Header(Len(sent) + 1) /\ Len(sent) + 1 \in Nat
        BY <2>1, <2>2 DEF PacketSent
      <3> QED  BY <3>1, ElementFacts
    <2>5. s = 1 => wire'[Len(wire) + 1].packet = 0
      BY <2>1, ElementFacts DEF PacketSent
    <2>6. UNCHANGED parserVars /\ Len(wire') \in Nat /\ Len(wire) <= Len(wire')
      BY <1>3, <2>2, <2>3 DEF SendPacket
    <2>7. ASSUME NEW i \in 1 .. Len(wire'), NEW m \in Nat,
                 i \notin 1 .. Len(wire), PayloadOf(i, m)'
          PROVE  BehindHeader(i, m)'
      <3>1. wire'[i].packet # 0 /\ wire'[i].kind # "header" /\ wire'[i].packet = m
        BY <2>7 DEF PayloadOf, IsPayload
      <3>2. i # p /\ ~(s = 1 /\ i = Len(wire) + 1)
        BY <2>4, <2>5, <3>1
      <3>3. PICK j \in 1 .. cut : i = p + j
        <4>1. i - p \in 1 .. cut /\ i = p + (i - p)
          BY <2>2, <2>3, <2>7, <3>2
        <4> QED  BY <4>1
      <3>4. wire'[i].packet = Len(sent) + 1 /\ wire'[i].pos = j
        BY <2>3, <3>3
      <3>5. i - j = p /\ i > j
        BY <2>2, <3>3
      <3> QED  BY <2>4, <3>1, <3>4, <3>5 DEF BehindHeader
    <2> QED  BY <2>3, <2>6, <2>7, GrownStray
  <1>4. CASE LineByte \/ LineEnd
    <2>1. GetChar /\ pc = "line" /\ Head(wire) = wire[1] /\ sent' = sent /\ broken' = broken
      BY <1>0, <1>4, GetCharFacts DEF LineByte, LineEnd, histVars
    <2>2. wire[1].kind = "header" => LineByte /\ line # <<>>
      BY <1>0, <1>4, <2>1, HeaderAtStart DEF LineByte, LineEnd, LineInv
    <2>3. \A m \in Nat : wire[1].kind = "header" /\ wire[1].packet = m => Tainted(m)
      BY <2>1, <2>2, HeadOfWire
    <2>4. \A m \in Nat : Tainted(m) => Tainted(m)'
      BY <2>1 DEF Tainted
    <2>5. \A i \in 1 .. Len(wire'), m \in Nat : ~Awaited(i + 1, m)
      BY <2>1 DEF Awaited
    <2> QED  BY <2>1, <2>3, <2>4, <2>5, ReadStray
  <1>5. CASE UrcHeader
    <2>1. GetChar /\ pc = "line" /\ recv_buf = <<>> /\ temp_size = 0
      BY <1>0, <1>5 DEF UrcHeader, UrcInv
    <2>2. ASSUME NEW i \in 1 .. Len(wire'), NEW m \in Nat, PayloadOf(i + 1, m),
                 wire[i + 1].pos = i, wire[1].kind = "header", wire[1].packet = m
          PROVE  Awaited(i, m)'
      <3>1. i + 1 \in 1 .. Len(wire) /\ wire'[i] = wire[i + 1] /\ i \in Nat
        BY <1>0, <2>1, GetCharFacts
      <3>2. wire[i + 1].pos \in 1 .. sent[m].size /\ sent[m].size \in Nat
        BY <1>0, <2>2, <3>1, PayloadFacts
      <3>3. sent[m].size > 0 /\ sent[m].size # 0
        BY <3>2
      <3>4. /\ packet' = m /\ bfsz' = sent[m].size /\ pc' \in {"recv", "drain"}
            /\ recv_buf' = <<>> /\ temp_size' = 0
        BY <1>5, <2>1, <2>2, <3>3, UrcHeaderFacts DEF UrcHeader
      <3>5. Consumed' = 0
        <4>1. temp_size' + Len(recv_buf') = 0
          BY <3>4
        <4> QED  BY <3>2, <3>4, <4>1 DEF Consumed
      <3>6. wire'[i].pos = i + 0
        BY <2>2, <3>1
      <3> QED  BY <3>4, <3>5, <3>6 DEF Awaited
    <2>3. \A i \in 1 .. Len(wire'), m \in Nat : ~Awaited(i + 1, m)
      BY <2>1 DEF Awaited
    <2> QED  BY <2>1, <2>2, <2>3, ReadStray
  <1>6. CASE RecvByte \/ DrainByte
    <2>1. GetChar /\ UNCHANGED <<pc, packet, bfsz, temp_size>> /\ pc \in {"recv", "drain"}
      BY <1>6 DEF RecvByte, DrainByte
    <2>2. /\ IsPayload(wire[1]) /\ Len(recv_buf') = Len(recv_buf) + 1
          /\ temp_size + Len(recv_buf) < bfsz
      BY <1>6, NextByteUrc
    <2>3. Consumed \in Int /\ Consumed' = Consumed + 1
      BY <1>0, <2>1, <2>2, UrcTypes DEF Consumed
    <2>4. ASSUME NEW i \in 1 .. Len(wire'), NEW m \in Nat, Awaited(i + 1, m)
          PROVE  Awaited(i, m)'
      <3>1. wire'[i] = wire[i + 1] /\ i \in Int
        BY <1>0, <2>1, GetCharFacts
      <3>2. (i + 1) + Consumed = i + (Consumed + 1)
        BY <2>3, <3>1
      <3> QED  BY <2>1, <2>3, <2>4, <3>1, <3>2 DEF Awaited
    <2>5. wire[1].kind # "header"
      BY <2>2 DEF IsPayload
    <2> QED  BY <2>1, <2>4, <2>5, ReadStray
  <1>7. CASE RecvTimeout
    <2>1. wire' = wire /\ packet \in broken'
      BY <1>7 DEF RecvTimeout, streamVars
    <2>2. \A i \in 1 .. Len(wire), m \in Nat : Awaited(i, m) => m = packet
      BY DEF Awaited
    <2>3. \A i \in 1 .. Len(wire), m \in Nat : Awaited(i, m) => Tainted(m)'
      BY <2>1, <2>2, BrokenTaintedNext
    <2> QED  BY <2>1, <2>3, SameWireStray
  <1>8. CASE RecvDone
    <2>1. UNCHANGED <<wire, packet, bfsz, recv_buf, temp_size>> /\ pc = "recv" /\ pc' = "recvCb"
      BY <1>8 DEF RecvDone, streamVars
    <2>2. \A i \in 1 .. Len(wire), m \in Nat : Awaited(i, m) => Awaited(i, m)'
      BY <2>1 DEF Awaited, Consumed
    <2> QED  BY <2>1, <2>2, SameWireStray
  <1>9. CASE recvCb \/ DrainDone
    <2>1. wire' = wire /\ pc \in {"recvCb", "drain"}
      BY <1>9 DEF recvCb, DrainDone, streamVars
    <2>2. Consumed = bfsz /\ bfsz = sent[packet].size
      <3>1. CASE recvCb
        <4>1. pc = "recvCb" /\ temp_size = 0 /\ Len(recv_buf) = bfsz
          BY <1>0, <3>1 DEF recvCb, UrcInv
        <4>2. temp_size + Len(recv_buf) = bfsz
          BY <1>0, <4>1, UrcTypes
        <4> QED  BY <1>0, <4>1, <4>2 DEF Consumed, UrcInv
      <3>2. CASE DrainDone
        <4>1. pc = "drain" /\ temp_size >= bfsz
          BY <3>2 DEF DrainDone
        <4>2. temp_size + Len(recv_buf) > bfsz \/ temp_size + Len(recv_buf) = bfsz
          BY <1>0, <4>1, UrcTypes
        <4> QED  BY <1>0, <4>1, <4>2 DEF Consumed, UrcInv
      <3> QED  BY <1>9, <3>1, <3>2
    <2>3. ASSUME NEW i \in 1 .. Len(wire), NEW m \in Nat, PayloadOf(i, m), Awaited(i, m)
          PROVE  FALSE
      <3>1. m = packet /\ wire[i].pos = i + sent[m].size
        BY <2>2, <2>3 DEF Awaited
      <3>2. sent[m].size \in Nat /\ wire[i].pos \in 1 .. sent[m].size
        BY <1>0, <2>3, PayloadFacts
      <3>3. i \in Nat \ {0}
        BY <1>0, WireTypes
      <3> QED  BY <3>1, <3>2, <3>3
    <2> QED  BY <2>1, <2>3, SameWireStray
  <1>10. CASE DrainPiece
    <2>1. /\ wire' = wire /\ pc = "drain" /\ pc' = "drain" /\ temp_size < bfsz
          /\ temp_size' = temp_size + sizeof_temp /\ recv_buf' = <<>>
          /\ UNCHANGED <<packet, bfsz>>
          /\ broken' = IF Len(recv_buf) < Piece THEN broken \cup {packet} ELSE broken
      BY <1>10 DEF DrainPiece, streamVars
    <2>2. CASE Len(recv_buf) < Piece
      <3>1. packet \in broken'
        BY <2>1, <2>2
      <3>2. \A i \in 1 .. Len(wire), m \in Nat : Awaited(i, m) => Tainted(m)'
        BY <3>1, BrokenTaintedNext DEF Awaited
      <3> QED  BY <2>1, <3>2, SameWireStray
    <2>3. CASE ~(Len(recv_buf) < Piece)
      <3>1. Len(recv_buf') = 0
        BY <2>1
      <3>2. Piece \in Nat \ {0} /\ (Piece = sizeof_temp \/ Piece = bfsz - temp_size)
            /\ Piece <= sizeof_temp /\ Piece <= bfsz - temp_size
        BY <1>0, <2>1, UrcTypes DEF Piece
      <3>3. Len(recv_buf) = Piece
        <4>1. recv_buf = <<>> => Len(recv_buf) = 0
          OBVIOUS
        <4> QED  BY <1>0, <2>1, <2>3, <3>2, <4>1, UrcTypes DEF UrcInv
      <3>4. Consumed' = Consumed
        BY <1>0, <2>1, <3>1, <3>2, <3>3, UrcTypes DEF Consumed
      <3>5. \A i \in 1 .. Len(wire), m \in Nat : Awaited(i, m) => Awaited(i, m)'
        BY <2>1, <3>4 DEF Awaited
      <3> QED  BY <2>1, <3>5, SameWireStray
    <2> QED  BY <2>2, <2>3
  <1> QED
    BY <1>1, <1>2, <1>3, <1>4, <1>5, <1>6, <1>7, <1>8, <1>9, <1>10 DEF Next, Parser, Urc

----------------------------------------------------------------------------
(* Packets whose header is gone                                             *)

GoneWell(k) ==
  \/ sent[k].size = 0 \/ HeaderInWire(k) \/ (pc # "line" /\ packet = k)
  \/ k \in delivered \cup discarded \/ Tainted(k)

\* A packet stays accounted for when its header and its place in urc_recv_func do.
LEMMA StillWell ==
  ASSUME IInv, [Next]_vars, NEW k \in 1 .. Len(sent), sent'[k] = sent[k],
         HeaderInWire(k) => HeaderInWire(k)' \/ GoneWell(k)',
         pc # "line" /\ packet = k => GoneWell(k)'
  PROVE  GoneWell(k)'
  <1>1. TypeInv /\ GoneWell(k)
    BY WireTypes DEF IInv, GoneInv, GoneWell
  <1>2. delivered \subseteq delivered' /\ discarded \subseteq discarded'
    BY DEF vars, histVars, Next, Parser, Urc, SendText, SendPacket, Restart, RespChange,
           LineByte, LineEnd, UrcHeader, RecvByte, RecvTimeout, RecvDone, recvCb, DrainByte,
           DrainPiece, DrainDone
  <1>3. CASE sent[k].size = 0
    BY <1>3 DEF GoneWell
  <1>4. CASE HeaderInWire(k)
    BY <1>4 DEF GoneWell
  <1>5. CASE k \in delivered \cup discarded
    BY <1>2, <1>5 DEF GoneWell
  <1>6. CASE Tainted(k)
    <2>1. k \in 0 .. Len(sent)
      BY <1>1, WireTypes
    <2>2. Tainted(k)'
      BY <1>6, <2>1, TaintedKept
    <2> QED  BY <2>2 DEF GoneWell
  <1> QED  BY <1>1, <1>3, <1>4, <1>5, <1>6 DEF GoneWell

\* A header stays in the wire unless it is the element that is read.
LEMMA HeaderStays ==
  ASSUME TypeInv, GetChar, NEW k, HeaderInWire(k)
  PROVE  HeaderInWire(k)' \/ (wire[1].kind = "header" /\ wire[1].packet = k)
  <1>1. /\ Len(wire) \in Nat \ {0} /\ Len(wire') = Len(wire) - 1
        /\ \A i \in 1 .. Len(wire') : wire'[i] = wire[i + 1]
    BY GetCharFacts
  <1>2. PICK i \in 1 .. Len(wire) : wire[i].kind = "header" /\ wire[i].packet = k
    BY DEF HeaderInWire
  <1>3. CASE i = 1
    BY <1>2, <1>3
  <1>4. CASE i # 1
    <2>1. i - 1 \in 1 .. Len(wire') /\ (i - 1) + 1 = i
      BY <1>1, <1>4
    <2>2. wire'[i - 1] = wire[i]
      BY <1>1, <2>1
    <2> QED  BY <1>2, <2>1, <2>2 DEF HeaderInWire
  <1> QED  BY <1>3, <1>4

LEMMA GoneNext == ASSUME IInv, [Next]_vars PROVE GoneInv'
  <1>0. TypeInv /\ StreamInv /\ UrcInv /\ LineInv
    BY DEF IInv
  <1>1. CASE SendPacket
    <2>1. PICK n \in Nat, separated \in BOOLEAN, cut \in Nat, s \in {0, 1} :
              PacketSent(n, separated, cut, s)
      BY <1>0, <1>1, SendPacketFacts
    <2>2. /\ Len(wire') = ((Len(wire) + s) + 1) + cut /\ Len(wire) \in Nat /\ Len(sent) \in Nat
          /\ \A i \in 1 .. Len(wire) : wire'[i] = wire[i]
          /\ wire'[(Len(wire) + s) + 1] = Header(Len(sent) + 1)
          /\ sent' = Append(sent, [size |-> n, separated |-> separated])
      BY <1>0, <2>1, WireTypes DEF PacketSent
    <2>3. [size |-> n, separated |-> separated] \in Packets
      BY DEF Packets
    <2>4. /\ sent' \in Seq(Packets) /\ Len(sent') = Len(sent) + 1
          /\ \A k \in 1 .. Len(sent) : sent'[k] = sent[k]
          /\ \A k \in 1 .. Len(sent') : k \in 1 .. Len(sent) \/ k = Len(sent) + 1
      BY <1>0, <2>2, <2>3, SentAppend
    <2>5. UNCHANGED <<pc, packet>>
      BY <1>1 DEF SendPacket, parserVars
    <2>6. ASSUME NEW k \in 1 .. Len(sent) PROVE GoneWell(k)'
      <3>1. HeaderInWire(k) => HeaderInWire(k)'
        <4> SUFFICES ASSUME NEW i \in 1 .. Len(wire), wire[i].kind = "header", wire[i].packet = k
                     PROVE  HeaderInWire(k)'
          BY DEF HeaderInWire
        <4>1. i \in 1 .. Len(wire') /\ wire'[i] = wire[i]
          BY <2>2
        <4> QED  BY <4>1 DEF HeaderInWire
      <3>2. pc # "line" /\ packet = k => GoneWell(k)'
        BY <2>5 DEF GoneWell
      <3> QED  BY <2>4, <3>1, <3>2, StillWell
    <2>8. ASSUME NEW k \in 1 .. Len(sent'), k = Len(sent) + 1 PROVE GoneWell(k)'
      <3>1. /\ wire'[(Len(wire) + s) + 1].kind = "header"
            /\ wire'[(Len(wire) + s) + 1].packet = k /\ (Len(wire) + s) + 1 \in 1 .. Len(wire')
        BY <2>2, <2>8, ElementFacts
      <3>2. HeaderInWire(k)'
        BY <3>1 DEF HeaderInWire
      <3> QED  BY <3>2 DEF GoneWell
    <2>9. \A k \in DOMAIN sent' : GoneWell(k)'
      BY <2>4, <2>6, <2>8
    <2> QED  BY <2>9 DEF GoneInv, GoneWell
  <1>2. CASE ~SendPacket
    <2>1. sent' = sent /\ DOMAIN sent = 1 .. Len(sent)
      BY <1>0, <1>2, WireTypes DEF vars, streamVars, Next, Parser, Urc, SendText, Restart,
             RespChange, LineByte, LineEnd, UrcHeader, RecvByte, RecvTimeout, RecvDone, recvCb,
             DrainByte, DrainPiece, DrainDone
    <2> SUFFICES ASSUME NEW k \in 1 .. Len(sent) PROVE GoneWell(k)'
      BY <2>1 DEF GoneInv, GoneWell
    <2>2. CASE UNCHANGED vars \/ RespChange \/ Restart \/ RecvDone \/ DrainPiece
      <3>1. UNCHANGED <<wire, packet>> /\ (pc # "line" => pc' # "line")
        BY <2>2 DEF vars, RespChange, Restart, RecvDone, DrainPiece, streamVars, parserVars
      <3>2. HeaderInWire(k) => HeaderInWire(k)'
        BY <3>1 DEF HeaderInWire
      <3>3. pc # "line" /\ packet = k => GoneWell(k)'
        BY <3>1 DEF GoneWell
      <3> QED  BY <2>1, <3>2, <3>3, StillWell
    <2>3. CASE SendText
      <3>1. /\ Len(wire') = Len(wire) + 2 /\ Len(wire) \in Nat
            /\ \A i \in 1 .. Len(wire) : wire'[i] = wire[i]
        BY <1>0, <2>3, SendTextFacts, WireTypes
      <3>2. \A i \in 1 .. Len(wire) : i \in 1 .. Len(wire') /\ wire'[i] = wire[i]
        BY <3>1
      <3>3. HeaderInWire(k) => HeaderInWire(k)'
        BY <3>2 DEF HeaderInWire
      <3>4. pc # "line" /\ packet = k => GoneWell(k)'
        BY <2>3 DEF SendText, parserVars, GoneWell
      <3> QED  BY <2>1, <3>3, <3>4, StillWell
    <2>4. CASE LineByte \/ LineEnd
      <3>1. GetChar /\ pc = "line" /\ Head(wire) = wire[1] /\ broken' = broken
        BY <1>0, <2>4, GetCharFacts DEF LineByte, LineEnd, histVars
      <3>2. wire[1].kind = "header" => LineByte /\ line # <<>>
        BY <1>0, <2>4, <3>1, HeaderAtStart DEF LineByte, LineEnd, LineInv
      <3>3. wire[1].kind = "header" /\ wire[1].packet = k => Tainted(k)
        BY <3>1, <3>2, HeadOfWire
      <3>4. Tainted(k) => GoneWell(k)'
        BY <2>1, <3>1 DEF Tainted, GoneWell
      <3>5. HeaderInWire(k) => HeaderInWire(k)' \/ GoneWell(k)'
        BY <1>0, <3>1, <3>3, <3>4, HeaderStays
      <3> QED  BY <2>1, <3>1, <3>5, StillWell
    <2>5. CASE UrcHeader
      <3>1. GetChar /\ pc = "line" /\ Head(wire) = wire[1]
        BY <2>5, UrcHeaderFacts DEF UrcHeader
      <3>2. wire[1].packet = k => sent[k].size = 0 \/ (pc' # "line" /\ packet' = k)
        BY <2>5, <3>1 DEF UrcHeader
      <3>3. HeaderInWire(k) => HeaderInWire(k)' \/ GoneWell(k)'
        BY <1>0, <2>1, <3>1, <3>2, HeaderStays DEF GoneWell
      <3> QED  BY <2>1, <3>1, <3>3, StillWell
    <2>6. CASE RecvByte \/ DrainByte
      <3>1. GetChar /\ IsPayload(wire[1]) /\ UNCHANGED <<pc, packet>>
        BY <2>6, NextByteUrc DEF RecvByte, DrainByte
      <3>2. HeaderInWire(k) => HeaderInWire(k)'
        BY <1>0, <3>1, HeaderStays DEF IsPayload
      <3>3. pc # "line" /\ packet = k => GoneWell(k)'
        BY <3>1 DEF GoneWell
      <3> QED  BY <2>1, <3>2, <3>3, StillWell
    <2>7. CASE RecvTimeout \/ recvCb \/ DrainDone
      <3>1. wire' = wire
        BY <2>7 DEF RecvTimeout, recvCb, DrainDone, streamVars
      <3>2. HeaderInWire(k) => HeaderInWire(k)'
        BY <3>1 DEF HeaderInWire
      <3>3. ASSUME pc # "line", packet = k PROVE GoneWell(k)'
        <4>1. CASE RecvTimeout
          <5>1. k \in broken' /\ k \in Nat
            BY <1>0, <3>3, <4>1 DEF RecvTimeout, TypeInv
          <5>2. Tainted(k)'
            BY <5>1, BrokenTaintedNext
          <5> QED  BY <5>2 DEF GoneWell
        <4>2. CASE recvCb
          BY <3>3, <4>2 DEF recvCb, GoneWell
        <4>3. CASE DrainDone
          BY <1>0, <3>3, <4>3 DEF DrainDone, UrcInv, GoneWell, histVars
        <4> QED  BY <2>7, <4>1, <4>2, <4>3
      <3> QED  BY <2>1, <3>2, <3>3, StillWell
    <2> QED  BY <1>2, <2>2, <2>3, <2>4, <2>5, <2>6, <2>7 DEF Next, Parser, Urc
  <1> QED  BY <1>1, <1>2

----------------------------------------------------------------------------
(* The theorems                                                             *)

LEMMA InvInit == Init => IInv
  <1> SUFFICES ASSUME Init PROVE IInv
    OBVIOUS
  <1>1. /\ wire = <<>> /\ sent = <<>> /\ line = <<>> /\ recv_buf = <<>> /\ pc = "line"
        /\ packet = 0 /\ bfsz = 0 /\ temp_size = 0 /\ broken = {} /\ polluted = FALSE
    BY DEF Init
  <1>2. /\ Len(wire) = 0 /\ Len(line) = 0 /\ DOMAIN sent = {}
        /\ wire \in Seq(Elements) /\ line \in Seq(Elements) /\ recv_buf \in Seq(Elements)
        /\ sent \in Seq(Packets)
    BY <1>1
  <1>b. silent = FALSE /\ is_full = FALSE /\ resp = FALSE
    BY DEF Init
  <1>3. TypeInv
    BY <1>1, <1>2, <1>b DEF TypeInv
  <1>4. StreamInv /\ UrcInv /\ StrayInv /\ GoneInv
    BY <1>1, <1>2 DEF StreamInv, WireInv, FollowInv, OrderInv, UrcInv, StrayInv, GoneInv
  <1>5. LineInv
    BY <1>1, <1>2 DEF LineInv, HeadInv, get_urc_obj, ResponseClean
  <1> QED  BY <1>3, <1>4, <1>5 DEF IInv

LEMMA InvNext == IInv /\ [Next]_vars => IInv'
  BY TypeNext, StreamNext, UrcNext, LineNext, StrayNext, GoneNext DEF IInv

\* recvCb gets the payload of the packet its header announced, all of it and
\* nothing else, whatever late bytes of earlier packets are in the stream, for
\* payloads and buffers of any size.
THEOREM ParserDeliversIntact == Spec => []DeliveredIntact
  <1>1. IInv => DeliveredIntact
    <2> SUFFICES ASSUME IInv, pc = "recvCb"
                 PROVE  /\ Len(recv_buf) = sent[packet].size
                        /\ \A i \in DOMAIN recv_buf : recv_buf[i].packet = packet
                                                      /\ recv_buf[i].pos = i
      BY DEF DeliveredIntact
    <2>1. DOMAIN recv_buf = 1 .. Len(recv_buf)
      BY DEF IInv, TypeInv
    <2> QED  BY <2>1 DEF IInv, UrcInv
  <1> QED  BY <1>1, InvInit, InvNext, PTL DEF Spec

\* at_recv_readline puts bytes of a payload into the response of a command only
\* after bytes of a packet were late.
THEOREM ParserResponseClean == Spec => []ResponseClean
  <1>1. IInv => ResponseClean
    BY DEF IInv, LineInv
  <1> QED  BY <1>1, InvInit, InvNext, PTL DEF Spec

\* A packet of the WiFi module is lost only because its own bytes were late, there
\* was no memory for it, or bytes of an earlier packet were late and no newline
\* was sent before a header since.
THEOREM ParserLossHasCause == Spec => []LossHasCause
  <1>1. IInv => LossHasCause
    <2> SUFFICES ASSUME IInv, NEW k \in Lost
                 PROVE  \/ k \in broken \cup discarded
                        \/ \E j \in broken : j < k /\ \A i \in j + 1 .. k : ~sent[i].separated
      BY DEF LossHasCause
    <2>1. /\ TypeInv /\ k \in 1 .. Len(sent) /\ k \in DOMAIN sent
          /\ sent[k].size > 0 /\ sent[k].size \in Nat
          /\ ~InWire(k) /\ k \notin delivered /\ (pc = "line" \/ packet # k)
      BY WireTypes DEF Lost, IInv
    <2>2. ~HeaderInWire(k)
      <3>1. DOMAIN wire = 1 .. Len(wire)
        BY <2>1 DEF TypeInv
      <3> QED  BY <2>1, <3>1 DEF HeaderInWire, InWire
    <2>3. k \in discarded \/ Tainted(k)
      BY <2>1, <2>2 DEF IInv, GoneInv
    <2>4. ASSUME Tainted(k), k \notin broken
          PROVE  \E j \in broken : j < k /\ \A i \in j + 1 .. k : ~sent[i].separated
      <3>1. PICK j \in broken : j <= k /\ \A i \in j + 1 .. k : ~sent[i].separated
        BY <2>4 DEF Tainted
      <3>2. j \in Int /\ k \in Int /\ j # k
        BY <2>1, <2>4, WireTypes DEF TypeInv
      <3>3. j < k
        BY <3>1, <3>2
      <3> QED  BY <3>1, <3>3
    <2> QED  BY <2>3, <2>4
  <1> QED  BY <1>1, InvInit, InvNext, PTL DEF Spec

===============================================================================
