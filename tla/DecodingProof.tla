---------------------------- MODULE DecodingProof ----------------------------
(***************************************************************************)
(* Proofs about Decoding.  Headers, for every frame length and both byte   *)
(* orders: each field is made of the bytes of that field of the frame, a   *)
(* little-endian host gets the ports and the length as they were sent, and *)
(* the addresses of a flow lead back to the numbers of its first event.    *)
(* Payloads, for all labels, names and numbers of questions: what a client *)
(* writes is what ParseDNS gives, and it gives nothing else, pointers      *)
(* aside.                                                                  *)
(***************************************************************************)
EXTENDS Decoding, SequenceTheorems, WellFoundedInduction, TLAPS

\* What a stage knows of the frame behind it
Followed ==
  /\ input.kind = "frame" => input.frame \in Frame
  /\ stage \in {"ignored", "record", "event"} => input.kind = "frame"
  /\ stage = "ignored" => ~Accepted(input.frame)
  /\ stage = "record" => /\ Accepted(input.frame)
                         /\ output = Record(input.frame, input.host)
  /\ stage = "event" => /\ Accepted(input.frame)
                        /\ output = parsePacketEvent(Record(input.frame, input.host))
-----------------------------------------------------------------------------
\* Sequences of two and of four bytes, turned around
LEMMA ReverseTwo == \A a, b : Reverse(<<a, b>>) = <<b, a>>
  BY DEF Reverse
LEMMA ReverseFour == \A a, b, c, d : Reverse(<<a, b, c, d>>) = <<d, c, b, a>>
  BY DEF Reverse
LEMMA ConcatTwos == \A a, b, c, d : <<a, b>> \o <<c, d>> = <<a, b, c, d>>
<1> TAKE a, b, c, d
<1> DEFINE S == {a, b, c, d}
           s == <<a, b>>
           t == <<c, d>>
           u == <<a, b, c, d>>
<1>1. /\ s \in Seq(S) /\ Len(s) = 2 /\ s[1] = a /\ s[2] = b
      /\ t \in Seq(S) /\ Len(t) = 2 /\ t[1] = c /\ t[2] = d
      /\ u \in Seq(S) /\ Len(u) = 4
      /\ u[1] = a /\ u[2] = b /\ u[3] = c /\ u[4] = d
  OBVIOUS
<1> HIDE DEF S, s, t, u
<1>2. /\ s \o t \in Seq(S) /\ Len(s \o t) = Len(s) + Len(t)
      /\ \A i \in 1 .. Len(s) + Len(t) :
           (s \o t)[i] = IF i <= Len(s) THEN s[i] ELSE t[i - Len(s)]
  <2>1. s \in Seq(S) /\ t \in Seq(S)
    BY <1>1
  <2> QED BY ONLY <2>1, ConcatProperties
<1>3. Len(s \o t) = 4 /\ \A i \in 1 .. 4 : (s \o t)[i] = u[i]
  BY <1>1, <1>2
<1>4. s \o t = u
  BY <1>1, <1>2, <1>3, SeqEqual
<1> QED BY <1>4 DEF s, t, u

\* Two and four bytes of a frame
LEMMA BytesTwo == \A n \in Int : Bytes(n, n + 1) = <<n, n + 1>>
  BY DEF Bytes
LEMMA BytesFour == \A n \in Int : Bytes(n, n + 3) = <<n, n + 1, n + 2, n + 3>>
  BY DEF Bytes

\* The offset of the transport header is a number.
LEMMA IPEndType ==
  ASSUME NEW f \in Frame
  PROVE  /\ IPEnd(f) \in Nat /\ IPEnd(f) = 14 + 4 * f.ihl
         /\ f.len \in Nat /\ f.ihl \in 0 .. 15
<1>1. f.len \in Lengths /\ f.ihl \in 0 .. 15
  BY DEF Frame
<1>2. f.len \in Nat
  BY <1>1, LengthsAssumption, Zenon
<1>3. f.ihl \in Nat
  BY <1>1
<1>4. IPEnd(f) = 14 + 4 * f.ihl
  BY DEF IPEnd, EthSize
<1> QED BY <1>1, <1>2, <1>3, <1>4

\* The bytes of a port, whether it is there or not
Port(f, at) == IF HasPorts(f) THEN <<at, at + 1>> ELSE <<Zero, Zero>>

\* The fields of a record
LEMMA RecordFields ==
  ASSUME NEW f \in Frame, NEW host
  PROVE  LET r == Record(f, host)
         IN  /\ DOMAIN r = {"saddr", "daddr", "sport", "dport", "len"}
             /\ r.saddr = <<26, 27, 28, 29>> /\ r.daddr = <<30, 31, 32, 33>>
             /\ r.sport = Stored(Port(f, IPEnd(f)), host)
             /\ r.dport = Stored(Port(f, IPEnd(f) + 2), host)
             /\ r.len = Stored(<<Zero, Zero, 16, 17>>, host)
<1> DEFINE r == Record(f, host)
<1>1. Bytes(26, 29) = <<26, 27, 28, 29>> /\ Bytes(30, 33) = <<30, 31, 32, 33>>
  <2>1. 26 + 3 = 29 /\ 30 + 3 = 33
    OBVIOUS
  <2> QED BY <2>1, BytesFour
<1>2. <<Zero, Zero>> \o Bytes(16, 17) = <<Zero, Zero, 16, 17>>
  <2>1. Bytes(16, 17) = <<16, 17>>
    BY BytesTwo
  <2> QED BY <2>1, ConcatTwos
<1>3. /\ Bytes(IPEnd(f), IPEnd(f) + 1) = <<IPEnd(f), IPEnd(f) + 1>>
      /\ Bytes(IPEnd(f) + 2, IPEnd(f) + 2 + 1) = <<IPEnd(f) + 2, IPEnd(f) + 2 + 1>>
  BY BytesTwo, IPEndType
<1>4. DOMAIN r = {"saddr", "daddr", "sport", "dport", "len"}
  BY DEF Record
<1>5. r.saddr = Bytes(26, 29) /\ r.daddr = Bytes(30, 33)
  BY DEF Record, EthSize
<1>6. r.len = Stored(<<Zero, Zero>> \o Bytes(16, 17), host)
  BY DEF Record, EthSize
<1>7. /\ r.sport = Stored(IF HasPorts(f) THEN Bytes(IPEnd(f), IPEnd(f) + 1)
                          ELSE <<Zero, Zero>>, host)
      /\ r.dport = Stored(IF HasPorts(f) THEN Bytes(IPEnd(f) + 2, IPEnd(f) + 2 + 1)
                          ELSE <<Zero, Zero>>, host)
  BY DEF Record
<1> HIDE DEF r
<1>8. r.sport = Stored(Port(f, IPEnd(f)), host) /\ r.dport = Stored(Port(f, IPEnd(f) + 2), host)
  BY <1>3, <1>7 DEF Port
<1> QED BY <1>1, <1>2, <1>4, <1>5, <1>6, <1>8 DEF r

\* The fields of an event: addresses are turned around, and on a little-endian
\* host the numbers are the ones sent.
LEMMA EventFields ==
  ASSUME NEW f \in Frame, NEW host
  PROVE  LET e == parsePacketEvent(Record(f, host))
         IN  /\ e.saddr = <<29, 28, 27, 26>> /\ e.daddr = <<33, 32, 31, 30>>
             /\ host = "little" => /\ e.len = <<Zero, Zero, 16, 17>>
                                   /\ e.sport = Port(f, IPEnd(f))
                                   /\ e.dport = Port(f, IPEnd(f) + 2)
<1> DEFINE r == Record(f, host)
           e == parsePacketEvent(r)
<1>1. /\ DOMAIN r = {"saddr", "daddr", "sport", "dport", "len"}
      /\ r.saddr = <<26, 27, 28, 29>> /\ r.daddr = <<30, 31, 32, 33>>
      /\ r.sport = Stored(Port(f, IPEnd(f)), host)
      /\ r.dport = Stored(Port(f, IPEnd(f) + 2), host)
      /\ r.len = Stored(<<Zero, Zero, 16, 17>>, host)
  BY RecordFields
<1> HIDE DEF r
<1>2. /\ e.saddr = Reverse(r.saddr) /\ e.daddr = Reverse(r.daddr)
      /\ e.sport = Reverse(r.sport) /\ e.dport = Reverse(r.dport)
      /\ e.len = Reverse(r.len)
  BY <1>1 DEF parsePacketEvent, LittleEndian
<1> HIDE DEF e
<1>3. e.saddr = <<29, 28, 27, 26>> /\ e.daddr = <<33, 32, 31, 30>>
  BY <1>1, <1>2, ReverseFour
<1>4. ASSUME host = "little"
      PROVE  /\ e.len = <<Zero, Zero, 16, 17>>
             /\ e.sport = Port(f, IPEnd(f)) /\ e.dport = Port(f, IPEnd(f) + 2)
  <2>1. e.len = Reverse(Reverse(<<Zero, Zero, 16, 17>>))
    BY <1>1, <1>2, <1>4 DEF Stored
  <2>2. e.len = <<Zero, Zero, 16, 17>>
    BY <2>1, ReverseFour
  <2>3. \A at : Reverse(Reverse(Port(f, at))) = Port(f, at)
    BY ReverseTwo DEF Port
  <2>4. /\ e.sport = Reverse(Reverse(Port(f, IPEnd(f))))
        /\ e.dport = Reverse(Reverse(Port(f, IPEnd(f) + 2)))
    BY <1>1, <1>2, <1>4 DEF Stored
  <2> QED BY <2>2, <2>3, <2>4
<1> QED BY <1>3, <1>4 DEF e, r
-----------------------------------------------------------------------------
\* The probe has ports exactly when the transport header is whole, and a record
\* exactly for IPv4 packets; both it judges by lengths within the frame.
LEMMA Judgement ==
  ASSUME NEW f \in Frame
  PROVE  /\ HasPorts(f) <=> IsWhole(f)
         /\ HasPorts(f) => IPEnd(f) + 8 <= f.len
         /\ Accepted(f) <=> IsIPv4(f)
         /\ Accepted(f) => IPEnd(f) >= 34 /\ f.len >= 34
<1>1. /\ IPEnd(f) \in Nat /\ IPEnd(f) = 14 + 4 * f.ihl
      /\ f.len \in Nat /\ f.ihl \in 0 .. 15
  BY IPEndType
<1>2. f.protocol \in {"tcp", "udp", "other"}
  BY DEF Frame
<1>3. /\ DOMAIN TransportSize = {"tcp", "udp"}
      /\ TransportSize["tcp"] = 20 /\ TransportSize["udp"] = 8
  BY DEF TransportSize
<1>4. HasPorts(f) <=> /\ f.protocol # "other"
                      /\ IPEnd(f) + (IF f.protocol = "tcp" THEN 20 ELSE 8) <= f.len
  BY <1>2, <1>3 DEF HasPorts
<1>5. HasPorts(f) <=> IsWhole(f)
  BY <1>1, <1>4 DEF IsWhole
<1>6. HasPorts(f) => IPEnd(f) + 8 <= f.len
  BY <1>1, <1>4
<1>7. Accepted(f) <=> IsIPv4(f)
  BY <1>1 DEF Accepted, IsIPv4, EthSize, IPSize
<1>8. Accepted(f) => IPEnd(f) >= 34 /\ f.len >= 34
  BY <1>1 DEF Accepted, EthSize, IPSize
<1> QED BY <1>5, <1>6, <1>7, <1>8

\* A sequence as it is, or turned around.
Turned(s) == {s, Reverse(s)}

\* Turning two or four bytes around leaves them what they are.
LEMMA TurnedTwo == \A a, b : \A s \in Turned(<<a, b>>) : Reverse(s) \in Turned(<<a, b>>)
                                                      /\ ToSet(s) = {a, b}
<1> SUFFICES ASSUME NEW a, NEW b, NEW s \in Turned(<<a, b>>)
             PROVE  Reverse(s) \in Turned(<<a, b>>) /\ ToSet(s) = {a, b}
  OBVIOUS
<1>1. s = <<a, b>> \/ s = <<b, a>>
  BY ReverseTwo DEF Turned
<1>2. Reverse(s) \in Turned(<<a, b>>)
  BY <1>1, ReverseTwo DEF Turned
<1>3. ToSet(<<a, b>>) = {a, b} /\ ToSet(<<b, a>>) = {a, b}
  BY DEF ToSet
<1> QED BY <1>1, <1>2, <1>3
LEMMA TurnedFour ==
  \A a, b, c, d : \A s \in Turned(<<a, b, c, d>>) : Reverse(s) \in Turned(<<a, b, c, d>>)
                                                 /\ ToSet(s) = {a, b, c, d}
<1> SUFFICES ASSUME NEW a, NEW b, NEW c, NEW d, NEW s \in Turned(<<a, b, c, d>>)
             PROVE  Reverse(s) \in Turned(<<a, b, c, d>>) /\ ToSet(s) = {a, b, c, d}
  OBVIOUS
<1>1. s = <<a, b, c, d>> \/ s = <<d, c, b, a>>
  BY ReverseFour DEF Turned
<1>2. Reverse(s) \in Turned(<<a, b, c, d>>)
  BY <1>1, ReverseFour DEF Turned
<1>3. ToSet(<<a, b, c, d>>) = {a, b, c, d} /\ ToSet(<<d, c, b, a>>) = {a, b, c, d}
  BY DEF ToSet
<1> QED BY <1>1, <1>2, <1>3

\* The fields of a record and of its event are those of the frame, at most turned
\* around, whatever the host.
LEMMA FieldsAreTurned ==
  ASSUME NEW f \in Frame, NEW host,
         NEW o \in {Record(f, host), parsePacketEvent(Record(f, host))}
  PROVE  /\ o.saddr \in Turned(<<26, 27, 28, 29>>) /\ o.daddr \in Turned(<<30, 31, 32, 33>>)
         /\ o.sport \in Turned(Port(f, IPEnd(f))) /\ o.dport \in Turned(Port(f, IPEnd(f) + 2))
         /\ o.len \in Turned(<<Zero, Zero, 16, 17>>)
<1> DEFINE r == Record(f, host)
           p == Port(f, IPEnd(f))
           q == Port(f, IPEnd(f) + 2)
<1>1. /\ DOMAIN r = {"saddr", "daddr", "sport", "dport", "len"}
      /\ r.saddr = <<26, 27, 28, 29>> /\ r.daddr = <<30, 31, 32, 33>>
      /\ r.sport = Stored(p, host) /\ r.dport = Stored(q, host)
      /\ r.len = Stored(<<Zero, Zero, 16, 17>>, host)
  BY RecordFields
<1>2. \A s : s \in Turned(s) /\ Stored(s, host) \in Turned(s)
  BY DEF Stored, Turned
<1>3. \A n, t : t \in Turned(Port(f, n)) => Reverse(t) \in Turned(Port(f, n))
  BY TurnedTwo DEF Port
<1> HIDE DEF r
<1>4. /\ r.saddr \in Turned(<<26, 27, 28, 29>>) /\ r.daddr \in Turned(<<30, 31, 32, 33>>)
      /\ r.sport \in Turned(p) /\ r.dport \in Turned(q)
      /\ r.len \in Turned(<<Zero, Zero, 16, 17>>)
  BY <1>1, <1>2, Zenon
<1>5. CASE o = r
  BY <1>4, <1>5
<1>6. CASE o = parsePacketEvent(r)
  <2>1. /\ o.saddr = Reverse(r.saddr) /\ o.daddr = Reverse(r.daddr)
        /\ o.sport = Reverse(r.sport) /\ o.dport = Reverse(r.dport)
        /\ o.len = Reverse(r.len)
    BY <1>1, <1>6 DEF parsePacketEvent, LittleEndian
  <2>2. /\ o.saddr \in Turned(<<26, 27, 28, 29>>) /\ o.daddr \in Turned(<<30, 31, 32, 33>>)
        /\ o.len \in Turned(<<Zero, Zero, 16, 17>>)
    BY <1>4, <2>1, TurnedFour
  <2>3. o.sport \in Turned(p) /\ o.dport \in Turned(q)
    BY <1>3, <1>4, <2>1
  <2> QED BY <2>2, <2>3
<1> QED BY <1>5, <1>6 DEF r

\* The places of a frame's fields are within it.
LEMMA PlacesAreWithin ==
  ASSUME NEW f \in Frame, Accepted(f), NEW field \in DOMAIN Places(f)
  PROVE  Places(f)[field] \subseteq (0 .. f.len - 1) \cup {Zero}
<1> DEFINE n == IPEnd(f)
<1>1. /\ f.len >= 34 /\ f.len \in Nat /\ n \in Nat /\ n = 14 + 4 * f.ihl
      /\ IsWhole(f) => n + 8 <= f.len
  BY Judgement, IPEndType
<1>2. /\ DOMAIN Places(f) = {"saddr", "daddr", "len", "sport", "dport"}
      /\ Places(f).saddr = 26 .. 29 /\ Places(f).daddr = 30 .. 33
      /\ Places(f).len = {16, 17, Zero}
      /\ Places(f).sport = IF IsWhole(f) THEN {n, n + 1} ELSE {Zero}
      /\ Places(f).dport = IF IsWhole(f) THEN {n + 2, n + 2 + 1} ELSE {Zero}
  BY <1>1 DEF Places
<1> HIDE DEF n
<1>3. CASE field \in {"saddr", "daddr", "len"}
  BY <1>1, <1>2, <1>3
<1>4. CASE field \in {"sport", "dport"}
  BY <1>1, <1>2, <1>4
<1> QED BY <1>2, <1>3, <1>4

\* The fields of a record and of its event have the bytes of the field's places.
LEMMA FieldsAreInPlace ==
  ASSUME NEW f \in Frame, NEW host,
         NEW o \in {Record(f, host), parsePacketEvent(Record(f, host))},
         NEW field \in DOMAIN Places(f)
  PROVE  ToSet(o[field]) = Places(f)[field]
<1> DEFINE n == IPEnd(f)
<1>1. n \in Nat /\ n = 14 + 4 * f.ihl /\ (HasPorts(f) <=> IsWhole(f))
  BY Judgement, IPEndType
<1>2. /\ DOMAIN Places(f) = {"saddr", "daddr", "len", "sport", "dport"}
      /\ Places(f).saddr = 26 .. 29 /\ Places(f).daddr = 30 .. 33
      /\ Places(f).len = {16, 17, Zero}
      /\ Places(f).sport = IF IsWhole(f) THEN {n, n + 1} ELSE {Zero}
      /\ Places(f).dport = IF IsWhole(f) THEN {n + 2, n + 2 + 1} ELSE {Zero}
  BY <1>1 DEF Places
<1> HIDE DEF n
<1>3. ToSet(o.saddr) = 26 .. 29
  <2>1. ToSet(o.saddr) = {26, 27, 28, 29}
    BY FieldsAreTurned, TurnedFour
  <2> QED BY <2>1
<1>4. ToSet(o.daddr) = 30 .. 33
  <2>1. ToSet(o.daddr) = {30, 31, 32, 33}
    BY FieldsAreTurned, TurnedFour
  <2> QED BY <2>1
<1>5. ToSet(o.len) = {16, 17, Zero}
  <2>1. ToSet(o.len) = {Zero, Zero, 16, 17}
    BY FieldsAreTurned, TurnedFour
  <2> QED BY <2>1
<1>6. \A at, s : s \in Turned(Port(f, at)) =>
                 ToSet(s) = IF IsWhole(f) THEN {at, at + 1} ELSE {Zero}
  <2> SUFFICES ASSUME NEW at, NEW s \in Turned(Port(f, at))
               PROVE  ToSet(s) = IF IsWhole(f) THEN {at, at + 1} ELSE {Zero}
    OBVIOUS
  <2>1. CASE IsWhole(f)
    BY <1>1, <2>1, TurnedTwo DEF Port
  <2>2. CASE ~IsWhole(f)
    BY <1>1, <2>2, TurnedTwo DEF Port
  <2> QED BY <2>1, <2>2
<1>7. /\ ToSet(o.sport) = IF IsWhole(f) THEN {n, n + 1} ELSE {Zero}
      /\ ToSet(o.dport) = IF IsWhole(f) THEN {n + 2, n + 2 + 1} ELSE {Zero}
  BY <1>6, FieldsAreTurned DEF n
<1> QED BY <1>2, <1>3, <1>4, <1>5, <1>7
-----------------------------------------------------------------------------
\* Every step follows its frame.
LEMMA FollowedAlways == Spec => []Followed
<1>1. Init => Followed
  <2> SUFFICES ASSUME Init PROVE Followed
    OBVIOUS
  <2>1. input.kind = "frame" => input.frame \in Frame
    BY DEF Init
  <2> QED BY <2>1 DEF Init, Followed
<1>2. Followed /\ [Next]_vars => Followed'
  <2> SUFFICES ASSUME Followed, [Next]_vars PROVE Followed'
    OBVIOUS
  <2>1. CASE Ignore
    BY <2>1 DEF Followed, Ignore, Reads
  <2>2. CASE Probe
    BY <2>2 DEF Followed, Probe, Reads
  <2>3. CASE Parse
    BY <2>3 DEF Followed, Parse
  <2>4. CASE ParsePayload
    BY <2>4 DEF Followed, ParsePayload, Reads
  <2>5. CASE UNCHANGED vars
    BY <2>5 DEF Followed, vars
  <2> QED BY <2>1, <2>2, <2>3, <2>4, <2>5 DEF Next
<1> QED BY <1>1, <1>2, PTL DEF Spec

\* For every frame length, whatever its headers say and whatever the order of the host's
\* bytes, a packet's fields are made of exactly the bytes of those fields, and on a
\* little-endian host length and ports have their values; the addresses, which are
\* reversed, lead back to the numbers they were made of (bpf/packet.c:66-123,
\* monitor.go:271-310, packet.go:128-142).
THEOREM FieldsArrive == Spec => []HeadersAreRead
<1>1. Followed => HeadersAreRead
  <2> SUFFICES ASSUME Followed, input.kind = "frame" PROVE HeadersAreRead
    BY DEF HeadersAreRead
  <2> DEFINE f == input.frame
  <2>1. f \in Frame
    BY DEF Followed
  <2>2. ASSUME input.host = "little" PROVE FieldsAreRead
    <3>1. stage = "ignored" => ~IsIPv4(f)
      BY <2>1, Judgement DEF Followed
    <3>2. stage \in {"record", "event"} => IsIPv4(f)
      BY <2>1, Judgement DEF Followed
    <3>3. ASSUME stage = "event"
          PROVE  /\ output.len = <<Zero, Zero, 16, 17>>
                 /\ output.sport = Port(f, IPEnd(f))
                 /\ output.dport = Port(f, IPEnd(f) + 2)
      BY <2>1, <2>2, <3>3, EventFields DEF Followed
    <3>4. Port(f, IPEnd(f)) \o Port(f, IPEnd(f) + 2) =
            IF IsWhole(f) THEN <<IPEnd(f), IPEnd(f) + 1, IPEnd(f) + 2, IPEnd(f) + 3>>
                          ELSE <<Zero, Zero, Zero, Zero>>
      <4>1. IPEnd(f) + 2 + 1 = IPEnd(f) + 3
        BY <2>1, IPEndType
      <4> QED BY <2>1, <4>1, Judgement, ConcatTwos DEF Port
    <3>5. IPEnd(f) = 14 + 4 * f.ihl
      BY <2>1, IPEndType
    <3> QED BY <3>1, <3>2, <3>3, <3>4, <3>5 DEF FieldsAreRead
  <2>3. BytesAreOfTheField
    <3> SUFFICES ASSUME stage \in {"record", "event"}, NEW field \in DOMAIN Places(f)
                 PROVE  /\ ToSet(output[field]) = Places(f)[field]
                        /\ Places(f)[field] \subseteq (0 .. f.len - 1) \cup {Zero}
      BY DEF BytesAreOfTheField
    <3>1. /\ Accepted(f)
          /\ output \in {Record(f, input.host), parsePacketEvent(Record(f, input.host))}
      BY DEF Followed
    <3> QED BY <2>1, <3>1, FieldsAreInPlace, PlacesAreWithin
  <2>4. AddressesLeadBack
    <3>1. stage = "event" => /\ output.saddr = <<29, 28, 27, 26>>
                             /\ output.daddr = <<33, 32, 31, 30>>
      BY <2>1, EventFields DEF Followed
    <3> QED BY <3>1 DEF AddressesLeadBack, IPToUint32, IPFromUint32, SrcIP, DstIP
  <2> QED BY <2>2, <2>3, <2>4 DEF HeadersAreRead
<1> QED BY <1>1, FollowedAlways, PTL
-----------------------------------------------------------------------------
\* What holds at zero and passes from each number to the next holds at all.
LEMMA Upwards ==
  ASSUME NEW G, 0 \in G, \A n \in Nat : n \in G => n + 1 \in G
  PROVE  \A n \in Nat : n \in G
<1> DEFINE Bad == Nat \ G
           R == {ss \in Nat \X Nat : ss[1] < ss[2]}
<1> SUFFICES ASSUME Bad # {} PROVE FALSE
  OBVIOUS
<1>1. IsWellFoundedOn(R, Nat)
  BY NatLessThanWellFounded DEF OpToRel
<1>2. PICK x \in Bad : \A y \in Bad : <<y, x>> \notin R
  <2>1. Bad \subseteq Nat
    OBVIOUS
  <2> HIDE DEF R, Bad
  <2> QED BY <1>1, <2>1, WFMin
<1>3. x # 0 /\ x - 1 \in Nat
  OBVIOUS
<1>4. x - 1 \in G
  <2>1. <<x - 1, x>> \in R
    BY <1>3
  <2> HIDE DEF R
  <2> QED BY <1>2, <1>3, <2>1
<1> QED BY <1>3, <1>4

\* What holds at a place whenever it holds at all later ones holds at all.
LEMMA Backwards ==
  ASSUME NEW N \in Nat, NEW G,
         \A i \in 1 .. N : (\A j \in i + 1 .. N : j \in G) => i \in G
  PROVE  \A i \in 1 .. N : i \in G
<1> DEFINE H == {n \in Nat : \A j \in N + 1 - n .. N : j >= 1 => j \in G}
<1>1. 0 \in H
  OBVIOUS
<1>2. ASSUME NEW n \in Nat, n \in H PROVE n + 1 \in H
  <2>1. ASSUME N - n \in 1 .. N PROVE N - n \in G
    <3>1. \A j \in (N - n) + 1 .. N : j \in G
      BY <1>2, <2>1
    <3> QED BY <2>1, <3>1
  <2> QED BY <1>2, <2>1
<1>3. N \in H
  <2> HIDE DEF H
  <2> QED BY <1>1, <1>2, Upwards
<1> QED BY <1>3
-----------------------------------------------------------------------------
\* F gives the concatenation of each prefix of ss.
Flattens(F, ss) == /\ F[1] = ss[1]
                   /\ \A i \in 1 .. Len(ss) : i # 1 => F[i] = F[i - 1] \o ss[i]

\* So each of them but the first adds one sequence to the one before.
LEMMA FlattensOn ==
  ASSUME NEW F, NEW ss, Flattens(F, ss), NEW n \in Nat, n # 0, n + 1 \in 1 .. Len(ss)
  PROVE  F[n + 1] = F[n] \o ss[n + 1]
<1> DEFINE m == n + 1
           Follows(i) == F[i] = F[i - 1] \o ss[i]
<1>1. m \in 1 .. Len(ss) /\ m # 1 /\ m - 1 = n
  OBVIOUS
<1>2. \A i \in 1 .. Len(ss) : i # 1 => Follows(i)
  BY DEF Flattens
<1> HIDE DEF m, Follows
<1>3. Follows(m)
  BY <1>1, <1>2
<1> QED BY <1>1, <1>3 DEF Follows, m

\* Flattening a sequence of sequences concatenates them one by one.
LEMMA FlattenIsDefined ==
  ASSUME NEW S, NEW ss \in Seq(Seq(S)), ss # <<>>
  PROVE  \E F : Flattens(F, ss) /\ FlattenSeq(ss) = F[Len(ss)]
<1> DEFINE N == Len(ss)
           Rule(F) == [i \in 1 .. N |-> IF i = 1 THEN ss[i] ELSE F[i - 1] \o ss[i]]
           C == CHOOSE F : F = Rule(F)
           G == {n \in Nat : \E F : \A i \in 1 .. n :
                               F[i] = IF i = 1 THEN ss[i] ELSE F[i - 1] \o ss[i]}
<1>1. N \in Nat \ {0} /\ DOMAIN ss = 1 .. N
  BY LenProperties, EmptySeq
<1>2. 0 \in G
  OBVIOUS
<1>3. ASSUME NEW n \in Nat, n \in G PROVE n + 1 \in G
  <2>1. PICK F : \A i \in 1 .. n : F[i] = IF i = 1 THEN ss[i] ELSE F[i - 1] \o ss[i]
    BY <1>3
  <2> DEFINE H == [i \in 1 .. n + 1 |-> IF i \in 1 .. n THEN F[i]
                                        ELSE IF i = 1 THEN ss[i] ELSE F[i - 1] \o ss[i]]
  <2>2. \A i \in 1 .. n + 1 : H[i] = IF i = 1 THEN ss[i] ELSE H[i - 1] \o ss[i]
    <3> SUFFICES ASSUME NEW i \in 1 .. n + 1
                 PROVE  H[i] = IF i = 1 THEN ss[i] ELSE H[i - 1] \o ss[i]
      OBVIOUS
    <3>1. i # 1 => i - 1 \in 1 .. n /\ H[i - 1] = F[i - 1]
      OBVIOUS
    <3>2. H[i] = IF i = 1 THEN ss[i] ELSE F[i - 1] \o ss[i]
      BY <2>1
    <3> HIDE DEF H
    <3> QED BY <3>1, <3>2
  <2> HIDE DEF H
  <2> QED BY <2>2
<1>4. PICK F : \A i \in 1 .. N : F[i] = IF i = 1 THEN ss[i] ELSE F[i - 1] \o ss[i]
  <2>1. N \in G
    <3> HIDE DEF G
    <3> QED BY <1>1, <1>2, <1>3, Upwards
  <2> QED BY <2>1
<1>5. \E f : f = Rule(f)
  <2> DEFINE f == [i \in 1 .. N |-> F[i]]
  <2>1. \A i \in 1 .. N : i # 1 => f[i - 1] = F[i - 1]
    BY <1>1
  <2>2. f = Rule(f)
    BY <1>4, <2>1
  <2> HIDE DEF Rule, f
  <2> QED BY <2>2
<1>6. C = Rule(C)
  <2> HIDE DEF Rule
  <2> QED BY <1>5
<1>7. FlattenSeq(ss) = C[N]
  BY <1>1 DEF FlattenSeq
<1> HIDE DEF C
<1>8. \A i \in 1 .. N : C[i] = IF i = 1 THEN ss[i] ELSE C[i - 1] \o ss[i]
  BY <1>6
<1>9. Flattens(C, ss)
  <2>1. 1 \in 1 .. N
    BY <1>1
  <2>2. C[1] = ss[1]
    BY <1>8, <2>1
  <2>3. \A i \in 1 .. N : i # 1 => C[i] = C[i - 1] \o ss[i]
    BY <1>8
  <2> QED BY <2>2, <2>3 DEF Flattens
<1> QED BY <1>7, <1>9

\* One sequence more is concatenated last.
LEMMA FlattenAppend ==
  ASSUME NEW S, NEW ss \in Seq(Seq(S)), NEW x \in Seq(S)
  PROVE  FlattenSeq(Append(ss, x)) = FlattenSeq(ss) \o x
<1> DEFINE N == Len(ss)
           tt == Append(ss, x)
<1>1. /\ N \in Nat /\ tt \in Seq(Seq(S)) /\ tt # <<>> /\ Len(tt) = N + 1
      /\ tt[N + 1] = x /\ \A i \in 1 .. N : tt[i] = ss[i]
  BY AppendProperties, LenProperties
<1> HIDE DEF tt
<1>2. PICK F : Flattens(F, tt) /\ FlattenSeq(tt) = F[N + 1]
  BY <1>1, FlattenIsDefined
<1>3. CASE ss = <<>>
  <2>1. N = 0 /\ FlattenSeq(ss) = <<>>
    BY <1>3 DEF FlattenSeq
  <2>2. FlattenSeq(tt) = x
    BY <1>1, <1>2, <2>1 DEF Flattens
  <2>3. <<>> \o x = x
    BY ConcatEmptySeq
  <2> QED BY <2>1, <2>2, <2>3 DEF tt
<1>4. CASE ss # <<>>
  <2>1. PICK E : Flattens(E, ss) /\ FlattenSeq(ss) = E[N]
    BY <1>4, FlattenIsDefined
  <2>2. N # 0
    BY <1>4, EmptySeq
  <2> DEFINE G == {n \in Nat : n + 1 \in 1 .. N => F[n + 1] = E[n + 1]}
  <2>3. 0 \in G
    <3>1. F[1] = tt[1] /\ E[1] = ss[1]
      BY <1>2, <2>1 DEF Flattens
    <3> QED BY <1>1, <2>2, <3>1
  <2>4. ASSUME NEW n \in Nat, n \in G PROVE n + 1 \in G
    <3> DEFINE m == n + 1
    <3> SUFFICES ASSUME m + 1 \in 1 .. N PROVE F[m + 1] = E[m + 1]
      OBVIOUS
    <3>1. m \in Nat /\ m # 0 /\ m \in 1 .. N /\ m + 1 \in 1 .. N + 1
      BY <1>1
    <3>2. F[m] = E[m]
      BY <2>4, <3>1
    <3> HIDE DEF m
    <3>3. F[m + 1] = F[m] \o tt[m + 1]
      BY <1>1, <1>2, <3>1, FlattensOn
    <3>4. E[m + 1] = E[m] \o ss[m + 1]
      BY <2>1, <3>1, FlattensOn
    <3>5. tt[m + 1] = ss[m + 1]
      BY <1>1
    <3> QED BY <3>2, <3>3, <3>4, <3>5
  <2>5. N - 1 \in G
    <3>1. N - 1 \in Nat
      BY <1>1, <2>2
    <3> HIDE DEF G
    <3> QED BY <2>3, <2>4, <3>1, Upwards
  <2>6. F[N] = E[N]
    BY <1>1, <2>2, <2>5
  <2>7. F[N + 1] = F[N] \o x
    <3>1. N \in Nat /\ N + 1 \in 1 .. Len(tt)
      BY <1>1
    <3> HIDE DEF N
    <3> QED BY <1>1, <1>2, <2>2, <3>1, FlattensOn
  <2> QED BY <1>2, <2>1, <2>6, <2>7 DEF tt
<1> QED BY <1>3, <1>4

\* Flattening gives a sequence of elements.
LEMMA FlattenType ==
  ASSUME NEW S, NEW ss \in Seq(Seq(S))
  PROVE  FlattenSeq(ss) \in Seq(S)
<1> DEFINE Holds(s) == FlattenSeq(s) \in Seq(S)
           G == {n \in Nat : \A s \in Seq(Seq(S)) : Len(s) = n => Holds(s)}
<1>1. 0 \in G
  <2>1. \A s \in Seq(Seq(S)) : Len(s) = 0 => s = <<>>
    BY EmptySeq
  <2>2. FlattenSeq(<<>>) = <<>>
    BY DEF FlattenSeq
  <2> QED BY <2>1, <2>2
<1>2. ASSUME NEW n \in Nat, n \in G PROVE n + 1 \in G
  <2> HIDE DEF Holds
  <2> HIDE DEF Holds
  <2> SUFFICES ASSUME NEW s \in Seq(Seq(S)), Len(s) = n + 1 PROVE Holds(s)
    OBVIOUS
  <2> USE DEF Holds
  <2> USE DEF Holds
  <2>1. PICK r \in Seq(Seq(S)) : \E x \in Seq(S) : s = Append(r, x)
    <3>1. s # <<>>
      BY EmptySeq
    <3> QED BY <3>1, SequenceEmptyOrAppend
  <2>2. PICK x \in Seq(S) : s = Append(r, x)
    BY <2>1
  <2>3. Len(r) = n
    BY <2>2, AppendProperties, LenProperties
  <2>4. FlattenSeq(r) \in Seq(S)
    BY <1>2, <2>3
  <2>5. FlattenSeq(s) = FlattenSeq(r) \o x
    BY <2>2, FlattenAppend
  <2> QED BY <2>4, <2>5, ConcatProperties
<1>3. Len(ss) \in Nat
  BY LenProperties
<1>4. Len(ss) \in G
  <2> HIDE DEF G
  <2> QED BY <1>1, <1>2, <1>3, Upwards
<1> QED BY <1>4

\* It does not matter which of three sequences are joined first.
Regroups(S) == \A s, t, u \in Seq(S) : (s \o t) \o u = s \o (t \o u)

\* That is so whatever the sequences are of.
LEMMA Associative == \A S : Regroups(S)
BY ConcatAssociative, Zenon DEF Regroups

\* It is the same whether an element is put in front or at the end first.
LEMMA FirstAndLast ==
  ASSUME NEW T, NEW x \in T, NEW y \in T, NEW r \in Seq(T)
  PROVE  <<x>> \o Append(r, y) = Append(<<x>> \o r, y) /\ <<x>> \o r \in Seq(T)
<1> DEFINE a == <<x>>
           b == <<y>>
<1>1. a \in Seq(T) /\ b \in Seq(T)
  OBVIOUS
<1>2. Append(r, y) = r \o b
  BY AppendIsConcat
<1> HIDE DEF a, b
<1>3. a \o r \in Seq(T)
  BY <1>1, ConcatProperties
<1>4. Append(a \o r, y) = (a \o r) \o b
  BY <1>3, AppendIsConcat DEF b
<1>5. (a \o r) \o b = a \o (r \o b)
  <2>1. Regroups(T)
    BY Associative, Zenon
  <2>2. r \in Seq(T)
    OBVIOUS
  <2> QED BY ONLY <1>1, <2>1, <2>2, Zenon DEF Regroups
<1> QED BY <1>2, <1>3, <1>4, <1>5 DEF a

\* One sequence more in front comes first.
LEMMA FlattenCons ==
  ASSUME NEW S, NEW x \in Seq(S), NEW ss \in Seq(Seq(S))
  PROVE  FlattenSeq(<<x>> \o ss) = x \o FlattenSeq(ss)
<1> DEFINE Holds(s) == FlattenSeq(<<x>> \o s) = x \o FlattenSeq(s)
           G == {n \in Nat : \A s \in Seq(Seq(S)) : Len(s) = n => Holds(s)}
<1>1. <<x>> \in Seq(Seq(S)) /\ <<>> \in Seq(Seq(S))
  OBVIOUS
<1>2. 0 \in G
  <2>1. \A s \in Seq(Seq(S)) : Len(s) = 0 => s = <<>>
    BY EmptySeq
  <2>2. FlattenSeq(<<>>) = <<>>
    BY DEF FlattenSeq
  <2>3. <<x>> \o <<>> = Append(<<>>, x) /\ <<>> \o x = x /\ x \o <<>> = x
    BY ConcatEmptySeq
  <2>4. FlattenSeq(Append(<<>>, x)) = <<>> \o x
    BY <1>1, <2>2, FlattenAppend
  <2>5. Holds(<<>>)
    BY <2>2, <2>3, <2>4
  <2> HIDE DEF Holds
  <2> QED BY <2>1, <2>5
<1>3. ASSUME NEW n \in Nat, n \in G PROVE n + 1 \in G
  <2> HIDE DEF Holds
  <2> SUFFICES ASSUME NEW s \in Seq(Seq(S)), Len(s) = n + 1 PROVE Holds(s)
    OBVIOUS
  <2> USE DEF Holds
  <2>1. PICK r \in Seq(Seq(S)) : \E y \in Seq(S) : s = Append(r, y)
    <3>1. s # <<>>
      BY EmptySeq
    <3> QED BY <3>1, SequenceEmptyOrAppend
  <2>2. PICK y \in Seq(S) : s = Append(r, y)
    BY <2>1
  <2>3. Len(r) = n
    BY <2>2, AppendProperties, LenProperties
  <2>4. FlattenSeq(<<x>> \o r) = x \o FlattenSeq(r)
    BY <1>3, <2>3
  <2>5. <<x>> \o s = Append(<<x>> \o r, y) /\ <<x>> \o r \in Seq(Seq(S))
    BY <2>2, FirstAndLast
  <2>6. FlattenSeq(<<x>> \o s) = (x \o FlattenSeq(r)) \o y
    BY <2>4, <2>5, FlattenAppend
  <2>7. FlattenSeq(s) = FlattenSeq(r) \o y
    BY <2>2, FlattenAppend
  <2>8. (x \o FlattenSeq(r)) \o y = x \o (FlattenSeq(r) \o y)
    <3> DEFINE f == FlattenSeq(r)
    <3>1. f \in Seq(S)
      BY FlattenType
    <3> HIDE DEF f
    <3>2. (x \o f) \o y = x \o (f \o y)
      <4>1. Regroups(S)
        BY Associative, Zenon
      <4>2. x \in Seq(S) /\ y \in Seq(S)
        OBVIOUS
      <4> QED BY ONLY <3>1, <4>1, <4>2, Zenon DEF Regroups
    <3> QED BY <3>2 DEF f
  <2> QED BY <2>6, <2>7, <2>8
<1>4. Len(ss) \in Nat
  BY LenProperties
<1>5. Len(ss) \in G
  <2> HIDE DEF G
  <2> QED BY <1>2, <1>3, <1>4, Upwards
<1> QED BY <1>5
-----------------------------------------------------------------------------
\* A question whose bytes are any numbers
AnyQuestion == [name : Seq(Seq(Nat)), type : Seq(Nat), class : Seq(Nat)]

\* An encoded name is at least the byte that ends it.
LEMMA EncodedNameType ==
  ASSUME NEW name \in Seq(Seq(Nat))
  PROVE  /\ [i \in DOMAIN name |-> EncodedLabel(name[i])] \in Seq(Seq(Nat))
         /\ EncodedName(name) \in Seq(Nat) /\ Len(EncodedName(name)) >= 1
<1> DEFINE ls == [i \in DOMAIN name |-> EncodedLabel(name[i])]
<1>1. Len(name) \in Nat /\ DOMAIN name = 1 .. Len(name)
  BY LenProperties
<1>2. \A i \in 1 .. Len(name) : EncodedLabel(name[i]) \in Seq(Nat)
  <2> SUFFICES ASSUME NEW i \in 1 .. Len(name) PROVE EncodedLabel(name[i]) \in Seq(Nat)
    OBVIOUS
  <2>1. name[i] \in Seq(Nat)
    BY ElementOfSeq
  <2>2. <<Len(name[i])>> \in Seq(Nat)
    BY <2>1, LenProperties
  <2> QED BY <2>1, <2>2, ConcatProperties DEF EncodedLabel
<1>3. ls \in Seq(Seq(Nat))
  BY <1>1, <1>2, IsASeq
<1> HIDE DEF ls
<1>4. FlattenSeq(ls) \in Seq(Nat) /\ <<0>> \in Seq(Nat) /\ Len(<<0>>) = 1
  BY <1>3, FlattenType
<1>5. /\ FlattenSeq(ls) \o <<0>> \in Seq(Nat)
      /\ Len(FlattenSeq(ls) \o <<0>>) = Len(FlattenSeq(ls)) + 1
  BY <1>4, ConcatProperties
<1>6. Len(FlattenSeq(ls)) \in Nat
  BY <1>4, LenProperties
<1> QED BY <1>3, <1>5, <1>6 DEF EncodedName, ls

\* The name of the root
LEMMA EncodedRoot == EncodedName(<<>>) = <<0>>
<1>1. [i \in DOMAIN <<>> |-> EncodedLabel(<<>>[i])] = <<>>
  OBVIOUS
<1>2. FlattenSeq(<<>>) = <<>>
  BY DEF FlattenSeq
<1>3. <<>> \o <<0>> = <<0>>
  BY ConcatEmptySeq
<1> QED BY <1>1, <1>2, <1>3 DEF EncodedName

\* The first label of a name is encoded first.
LEMMA EncodedNameCons ==
  ASSUME NEW label \in Seq(Nat), NEW name \in Seq(Seq(Nat))
  PROVE  /\ <<label>> \o name \in Seq(Seq(Nat)) /\ Len(<<label>> \o name) = Len(name) + 1
         /\ EncodedName(<<label>> \o name) = <<Len(label)>> \o (label \o EncodedName(name))
<1> DEFINE t == <<label>> \o name
           ls == [i \in DOMAIN name |-> EncodedLabel(name[i])]
           lt == [i \in DOMAIN t |-> EncodedLabel(t[i])]
           e == EncodedLabel(label)
<1>1. <<label>> \in Seq(Seq(Nat)) /\ Len(<<label>>) = 1 /\ <<label>>[1] = label
  OBVIOUS
<1>2. /\ t \in Seq(Seq(Nat)) /\ Len(t) = 1 + Len(name)
      /\ \A i \in 1 .. 1 + Len(name) : t[i] = IF i <= 1 THEN label ELSE name[i - 1]
  <2>1. /\ t \in Seq(Seq(Nat)) /\ Len(t) = Len(<<label>>) + Len(name)
        /\ \A i \in 1 .. Len(<<label>>) + Len(name) :
             t[i] = IF i <= Len(<<label>>) THEN <<label>>[i] ELSE name[i - Len(<<label>>)]
    BY <1>1, ConcatProperties
  <2>2. \A i \in 1 .. 1 + Len(name) : i <= 1 => <<label>>[i] = label
    BY LenProperties
  <2> HIDE DEF t
  <2> QED BY <1>1, <2>1, <2>2
<1> HIDE DEF t
<1>3. Len(name) \in Nat /\ DOMAIN name = 1 .. Len(name) /\ DOMAIN t = 1 .. 1 + Len(name)
  BY <1>2, LenProperties
<1>4. ls \in Seq(Seq(Nat)) /\ lt \in Seq(Seq(Nat))
  BY <1>2, EncodedNameType
<1>5. e \in Seq(Nat) /\ <<Len(label)>> \in Seq(Nat)
  <2>1. <<Len(label)>> \in Seq(Nat)
    BY LenProperties
  <2> QED BY <2>1, ConcatProperties DEF EncodedLabel
<1> HIDE DEF e
<1>6. lt = <<e>> \o ls
  <2>1. /\ <<e>> \in Seq(Seq(Nat)) /\ Len(<<e>>) = 1 /\ <<e>>[1] = e
        /\ Len(ls) = Len(name) /\ Len(lt) = 1 + Len(name)
    BY <1>3, <1>5
  <2>2. /\ <<e>> \o ls \in Seq(Seq(Nat)) /\ Len(<<e>> \o ls) = Len(<<e>>) + Len(ls)
        /\ \A i \in 1 .. Len(<<e>>) + Len(ls) :
             (<<e>> \o ls)[i] = IF i <= Len(<<e>>) THEN <<e>>[i] ELSE ls[i - Len(<<e>>)]
    BY <1>4, <2>1, ConcatProperties
  <2>3. ASSUME NEW i \in 1 .. 1 + Len(name) PROVE lt[i] = (<<e>> \o ls)[i]
    <3>1. lt[i] = EncodedLabel(t[i])
      BY <1>3
    <3>2. CASE i = 1
      <4>1. t[i] = label
        BY <1>2, <3>2
      <4> HIDE DEF lt
      <4> QED BY <2>1, <2>2, <3>1, <3>2, <4>1 DEF e
    <3>3. CASE i # 1
      <4>1. t[i] = name[i - 1] /\ i - 1 \in 1 .. Len(name)
        BY <1>2, <1>3, <3>3
      <4>2. ls[i - 1] = EncodedLabel(name[i - 1])
        BY <1>3, <4>1
      <4> HIDE DEF lt, ls
      <4> QED BY <1>3, <2>1, <2>2, <3>1, <3>3, <4>1, <4>2
    <3> QED BY <3>2, <3>3
  <2> HIDE DEF lt, ls
  <2>4. Len(lt) = Len(<<e>> \o ls) /\ \A i \in 1 .. Len(lt) : lt[i] = (<<e>> \o ls)[i]
    BY <2>1, <2>2, <2>3
  <2> QED BY ONLY <1>4, <2>2, <2>4, SeqEqual
<1>7. FlattenSeq(lt) = e \o FlattenSeq(ls)
  <2> HIDE DEF lt, ls
  <2> QED BY <1>4, <1>5, <1>6, FlattenCons
<1>8. EncodedName(t) = FlattenSeq(lt) \o <<0>> /\ EncodedName(name) = FlattenSeq(ls) \o <<0>>
  BY DEF EncodedName
<1>9. EncodedName(t) = e \o EncodedName(name)
  <2> HIDE DEF lt, ls
  <2>1. FlattenSeq(ls) \in Seq(Nat) /\ <<0>> \in Seq(Nat)
    BY <1>4, FlattenType
  <2>2. (e \o FlattenSeq(ls)) \o <<0>> = e \o (FlattenSeq(ls) \o <<0>>)
    <3> DEFINE f == FlattenSeq(ls)
               root == <<0>>
    <3> HIDE DEF e, f, root
    <3>1. e \in Seq(Nat) /\ f \in Seq(Nat) /\ root \in Seq(Nat)
      BY <1>5, <2>1 DEF f, root
    <3>2. Regroups(Nat)
      BY Associative, Zenon
    <3>3. (e \o f) \o root = e \o (f \o root)
      BY ONLY <3>1, <3>2, Zenon DEF Regroups
    <3> QED BY <3>3 DEF f, root
  <2> QED BY <1>7, <1>8, <2>2
<1>10. EncodedName(t) = <<Len(label)>> \o (label \o EncodedName(name))
  <2>1. EncodedName(name) \in Seq(Nat)
    BY EncodedNameType
  <2>2. (<<Len(label)>> \o label) \o EncodedName(name)
          = <<Len(label)>> \o (label \o EncodedName(name))
    <3> DEFINE a == <<Len(label)>>
               f == EncodedName(name)
    <3>1. a \in Seq(Nat) /\ label \in Seq(Nat) /\ f \in Seq(Nat)
      BY <1>5, <2>1
    <3> HIDE DEF a, f
    <3>2. Regroups(Nat)
      BY Associative, Zenon
    <3>3. (a \o label) \o f = a \o (label \o f)
      BY ONLY <3>1, <3>2, Zenon DEF Regroups
    <3> QED BY <3>3 DEF a, f
  <2> QED BY <1>9, <2>2 DEF e, EncodedLabel
<1>11. Len(t) = Len(name) + 1
  BY <1>2, <1>3
<1> QED BY <1>2, <1>10, <1>11 DEF t

\* A name that is not the root's has a first label.
LEMMA FirstLabel ==
  ASSUME NEW S, NEW name \in Seq(S), Len(name) # 0
  PROVE  /\ Head(name) \in S /\ Tail(name) \in Seq(S) /\ Len(Tail(name)) = Len(name) - 1
         /\ name = <<Head(name)>> \o Tail(name)
<1>1. name # <<>> /\ Len(name) \in Nat
  BY LenProperties
<1>2. Head(name) \in S /\ Tail(name) \in Seq(S) /\ Len(Tail(name)) = Len(name) - 1
  BY <1>1, HeadTailProperties
<1>3. Tail(name) = SubSeq(name, 2, Len(name)) /\ Head(name) = name[1]
  BY <1>1, TailIsSubSeq
<1>4. SubSeq(name, 1, Len(name)) = <<name[1]>> \o SubSeq(name, 1 + 1, Len(name))
  <2>1. 1 \in 1 .. Len(name) /\ Len(name) \in 1 .. Len(name)
    BY <1>1
  <2> QED BY <2>1, SubSeqRecursiveFirst
<1>5. SubSeq(name, 1, Len(name)) = name
  BY SubSeqFull
<1> QED BY <1>2, <1>3, <1>4, <1>5

\* The encoding of a question is a sequence of numbers.
LEMMA EncodedQuestionType ==
  ASSUME NEW q \in AnyQuestion
  PROVE  /\ q.type \o q.class \in Seq(Nat) /\ EncodedQuestion(q) \in Seq(Nat)
         /\ Len(q.type \o q.class) = Len(q.type) + Len(q.class)
         /\ Len(EncodedQuestion(q)) = Len(EncodedName(q.name)) + Len(q.type \o q.class)
<1>1. q.name \in Seq(Seq(Nat)) /\ q.type \in Seq(Nat) /\ q.class \in Seq(Nat)
  BY DEF AnyQuestion
<1>2. q.type \o q.class \in Seq(Nat) /\ Len(q.type \o q.class) = Len(q.type) + Len(q.class)
  BY <1>1, ConcatProperties
<1>3. EncodedName(q.name) \in Seq(Nat)
  BY <1>1, EncodedNameType
<1> QED BY <1>2, <1>3, ConcatProperties DEF EncodedQuestion

\* The encodings of questions are a sequence of sequences of numbers.
LEMMA EncodedType ==
  ASSUME NEW qs \in Seq(AnyQuestion)
  PROVE  /\ [i \in DOMAIN qs |-> EncodedQuestion(qs[i])] \in Seq(Seq(Nat))
         /\ Encoded(qs) \in Seq(Nat) /\ Len(Encoded(qs)) \in Nat
<1> DEFINE es == [i \in DOMAIN qs |-> EncodedQuestion(qs[i])]
<1>1. Len(qs) \in Nat /\ DOMAIN qs = 1 .. Len(qs)
  BY LenProperties
<1>2. \A i \in 1 .. Len(qs) : EncodedQuestion(qs[i]) \in Seq(Nat)
  BY ElementOfSeq, EncodedQuestionType
<1>3. es \in Seq(Seq(Nat))
  BY <1>1, <1>2, IsASeq
<1> HIDE DEF es
<1>4. FlattenSeq(es) \in Seq(Nat)
  BY <1>3, FlattenType
<1>5. Len(FlattenSeq(es)) \in Nat
  BY <1>4, LenProperties
<1> QED BY <1>3, <1>4, <1>5 DEF Encoded, es

\* One question more is encoded last.
LEMMA EncodedAppend ==
  ASSUME NEW qs \in Seq(AnyQuestion), NEW q \in AnyQuestion
  PROVE  Encoded(Append(qs, q)) = Encoded(qs) \o EncodedQuestion(q)
<1> DEFINE t == Append(qs, q)
           es == [i \in DOMAIN qs |-> EncodedQuestion(qs[i])]
           et == [i \in DOMAIN t |-> EncodedQuestion(t[i])]
           e == EncodedQuestion(q)
<1>1. /\ t \in Seq(AnyQuestion) /\ Len(t) = Len(qs) + 1 /\ t[Len(qs) + 1] = q
      /\ \A i \in 1 .. Len(qs) : t[i] = qs[i]
  BY AppendProperties
<1> HIDE DEF t
<1>2. Len(qs) \in Nat /\ DOMAIN qs = 1 .. Len(qs) /\ DOMAIN t = 1 .. Len(qs) + 1
  BY <1>1, LenProperties
<1>3. es \in Seq(Seq(Nat)) /\ et \in Seq(Seq(Nat)) /\ e \in Seq(Nat)
  BY <1>1, EncodedType, EncodedQuestionType
<1> HIDE DEF e
<1>4. et = Append(es, e)
  <2>1. Len(es) = Len(qs) /\ Len(et) = Len(qs) + 1
    BY <1>2
  <2>2. /\ Append(es, e) \in Seq(Seq(Nat)) /\ Len(Append(es, e)) = Len(es) + 1
        /\ \A i \in 1 .. Len(es) : Append(es, e)[i] = es[i]
        /\ Append(es, e)[Len(es) + 1] = e
    <3> HIDE DEF es
    <3> QED BY <1>3, AppendProperties
  <2>3. ASSUME NEW i \in 1 .. Len(qs) + 1 PROVE et[i] = Append(es, e)[i]
    <3>1. et[i] = EncodedQuestion(t[i])
      BY <1>2
    <3>2. CASE i = Len(qs) + 1
      <4>1. t[i] = q
        BY <1>1, <3>2
      <4> HIDE DEF et
      <4> QED BY <2>1, <2>2, <3>1, <3>2, <4>1 DEF e
    <3>3. CASE i # Len(qs) + 1
      <4>1. t[i] = qs[i] /\ i \in 1 .. Len(qs)
        BY <1>1, <1>2, <3>3
      <4>2. es[i] = EncodedQuestion(qs[i])
        BY <1>2, <4>1
      <4> HIDE DEF et, es
      <4> QED BY <2>1, <2>2, <3>1, <4>1, <4>2
    <3> QED BY <3>2, <3>3
  <2> HIDE DEF et, es
  <2>4. /\ Len(et) = Len(Append(es, e))
        /\ \A i \in 1 .. Len(et) : et[i] = Append(es, e)[i]
    BY <2>1, <2>2, <2>3
  <2> QED BY ONLY <1>3, <2>2, <2>4, SeqEqual
<1>5. FlattenSeq(et) = FlattenSeq(es) \o e
  <2> HIDE DEF et, es
  <2> QED BY <1>3, <1>4, FlattenAppend
<1> QED BY <1>5 DEF Encoded, t, e
-----------------------------------------------------------------------------
\* What parseDomainName gives for a body of n bytes
NameIn(n) == [labels : Seq(Seq(Nat)), next : {-1} \cup 1 .. n + 1]

\* What it gives for a place, when f says what it gives for the places behind
NameAt(body, f, at) ==
  IF at > Len(body) THEN [labels |-> <<>>, next |-> at] ELSE Read(body, f, at)

\* Only the places behind matter, and if they have names the place has one.
LEMMA NameAtType ==
  ASSUME NEW body \in Seq(Nat), NEW at \in 1 .. Len(body) + 1, NEW f,
         \A j \in at + 1 .. Len(body) + 1 : f[j] \in NameIn(Len(body))
  PROVE  /\ NameAt(body, f, at) \in NameIn(Len(body))
         /\ \A g : (\A j \in at + 1 .. Len(body) + 1 : g[j] = f[j]) =>
                      NameAt(body, g, at) = NameAt(body, f, at)
<1> DEFINE L == Len(body)
           length == body[at]
           end == at + length
<1>1. L \in Nat /\ <<>> \in Seq(Seq(Nat))
  BY LenProperties
<1>2. CASE at > L
  BY <1>1, <1>2 DEF NameAt, Read, NameIn
<1>3. CASE at <= L /\ IsPointer(length)
  BY <1>1, <1>3 DEF NameAt, Read, NameIn, Failed
<1>4. CASE at <= L /\ ~IsPointer(length)
  <2>1. length \in Nat /\ ~(at > L)
    BY <1>1, <1>4, ElementOfSeq
  <2>2. CASE length = 0
    BY <1>1, <1>4, <2>1, <2>2 DEF NameAt, Read, NameIn
  <2>3. CASE length # 0 /\ end > L
    BY <1>1, <1>4, <2>1, <2>3 DEF NameAt, Read, NameIn, Failed
  <2>4. CASE length # 0 /\ ~(end > L)
    <3> DEFINE n == f[end + 1]
               label == SubSeq(body, at + 1, end)
    <3>0. end \in at + 1 .. L /\ end + 1 \in at + 1 .. L + 1
      <4>1. L \in Nat /\ at \in 1 .. L + 1 /\ length \in Nat /\ length # 0 /\ ~(end > L)
        BY <1>1, <2>1, <2>4
      <4> HIDE DEF L, length
      <4> QED BY ONLY <4>1 DEF end
    <3>1. end + 1 \in at + 1 .. L + 1 /\ n \in NameIn(L)
      <4> HIDE DEF end
      <4> QED BY <1>1, <3>0
    <3>2. label \in Seq(Nat)
      <4>1. \A i \in at + 1 .. end : body[i] \in Nat
        <5> HIDE DEF end
        <5> QED BY <1>1, <3>0, ElementOfSeq
      <4>2. at + 1 \in Int /\ end \in Int
        BY <1>1, <2>1
      <4> QED BY <4>1, <4>2, SubSeqProperties
    <3>3. <<label>> \o n.labels \in Seq(Seq(Nat))
      <4> HIDE DEF label, n
      <4>1. <<label>> \in Seq(Seq(Nat)) /\ n.labels \in Seq(Seq(Nat))
        BY <3>1, <3>2 DEF NameIn
      <4> QED BY <4>1, ConcatProperties
    <3>4. ~IsPointer(length) /\ length > 0
      BY <1>4, <2>1, <2>4
    <3>5. ASSUME NEW g, g[end + 1] = n
          PROVE  NameAt(body, g, at) = IF n.next = -1 THEN Failed
                                     ELSE [labels |-> <<label>> \o n.labels, next |-> n.next]
      BY <2>1, <2>4, <3>4, <3>5 DEF NameAt, Read
    <3>6. NameAt(body, f, at) \in NameIn(L)
      <4>1. n.next \in {-1} \cup 1 .. L + 1
        BY <3>1 DEF NameIn
      <4>2. NameAt(body, f, at) = IF n.next = -1 THEN Failed
                                ELSE [labels |-> <<label>> \o n.labels, next |-> n.next]
        BY <3>5
      <4> HIDE DEF n, label
      <4> QED BY <1>1, <3>3, <4>1, <4>2 DEF NameIn, Failed
    <3>7. ASSUME NEW g, \A j \in at + 1 .. L + 1 : g[j] = f[j]
          PROVE  NameAt(body, g, at) = NameAt(body, f, at)
      <4>1. g[end + 1] = n /\ f[end + 1] = n
        BY <3>1, <3>7
      <4> DEFINE R == IF n.next = -1 THEN Failed
                      ELSE [labels |-> <<label>> \o n.labels, next |-> n.next]
      <4>2. NameAt(body, g, at) = R
        BY <3>5, <4>1
      <4>3. NameAt(body, f, at) = R
        BY <3>5, <4>1
      <4> HIDE DEF R
      <4> QED BY <4>2, <4>3
    <3> HIDE DEF n, label, end, length
    <3> QED BY <3>6, <3>7
  <2> QED BY <2>1, <2>2, <2>3, <2>4
<1> QED BY <1>1, <1>2, <1>3, <1>4

\* parseDomainName gives a name for every place, and for each it reads the byte
\* there.
LEMMA NameIsRead ==
  ASSUME NEW body \in Seq(Nat)
  PROVE  \E P : \A at \in 1 .. Len(body) + 1 :
           /\ P[at] = parseDomainName(body, at)
           /\ P[at] \in NameIn(Len(body)) /\ P[at] = NameAt(body, P, at)
<1> DEFINE L == Len(body)
           Rule(f) == [at \in 1 .. L + 1 |-> NameAt(body, f, at)]
           C == CHOOSE f : f = Rule(f)
           G == {n \in Nat : \E f : \A at \in 1 .. L + 1 :
                    at >= L + 2 - n => f[at] \in NameIn(L) /\ f[at] = NameAt(body, f, at)}
<1>1. L \in Nat
  BY LenProperties
<1>2. 0 \in G
  <2>1. \A at \in 1 .. L + 1 : ~(at >= L + 2 - 0)
    BY <1>1
  <2> QED BY <2>1
<1>3. ASSUME NEW n \in Nat, n \in G PROVE n + 1 \in G
  <2>1. PICK f : \A at \in 1 .. L + 1 :
                   at >= L + 2 - n => f[at] \in NameIn(L) /\ f[at] = NameAt(body, f, at)
    BY <1>3
  <2> DEFINE k == L + 2 - (n + 1)
             g == [at \in 1 .. L + 1 |-> IF at = k THEN NameAt(body, f, at) ELSE f[at]]
  <2>2. \A at \in 1 .. L + 1 : at # k => g[at] = f[at]
    OBVIOUS
  <2>3. k \in 1 .. L + 1 => g[k] = NameAt(body, f, k)
    OBVIOUS
  <2>4. k \in Int /\ \A at \in 1 .. L + 1 : at > k => at >= L + 2 - n
    BY <1>1
  <2> HIDE DEF g, k
  <2>5. ASSUME NEW at \in 1 .. L + 1, at >= k PROVE g[at] \in NameIn(L) /\ g[at] = NameAt(body, g, at)
    <3>1. \A j \in at + 1 .. L + 1 : j \in 1 .. L + 1 /\ j # k /\ j > k
      BY <1>1, <2>4, <2>5
    <3>2. \A j \in at + 1 .. L + 1 : f[j] \in NameIn(L) /\ g[j] = f[j]
      BY <2>1, <2>2, <2>4, <3>1
    <3>3. NameAt(body, f, at) \in NameIn(L) /\ NameAt(body, g, at) = NameAt(body, f, at)
      BY <3>2, NameAtType
    <3>4. CASE at = k
      BY <2>3, <3>3, <3>4
    <3>5. CASE at # k
      <4>1. at > k
        BY <1>1, <2>4, <2>5, <3>5
      <4> QED BY <2>1, <2>2, <2>4, <3>3, <3>5, <4>1
    <3> QED BY <3>4, <3>5
  <2>6. \A at \in 1 .. L + 1 : at >= k => g[at] \in NameIn(L) /\ g[at] = NameAt(body, g, at)
    BY <2>5
  <2> QED BY <2>6 DEF k
<1>4. PICK f : \A at \in 1 .. L + 1 : f[at] \in NameIn(L) /\ f[at] = NameAt(body, f, at)
  <2>1. L + 1 \in G
    <3> HIDE DEF G
    <3> QED BY <1>1, <1>2, <1>3, Upwards
  <2>2. \A at \in 1 .. L + 1 : at >= L + 2 - (L + 1)
    BY <1>1
  <2> QED BY <2>1, <2>2
<1>5. \E h : h = Rule(h)
  <2> DEFINE h == [at \in 1 .. L + 1 |-> f[at]]
  <2>1. ASSUME NEW at \in 1 .. L + 1 PROVE h[at] = NameAt(body, h, at)
    <3>1. \A j \in at + 1 .. L + 1 : j \in 1 .. L + 1 /\ h[j] = f[j]
      BY <1>1
    <3>2. h[at] = f[at]
      OBVIOUS
    <3> HIDE DEF h
    <3>3. NameAt(body, h, at) = NameAt(body, f, at)
      BY <1>4, <3>1, NameAtType
    <3> QED BY <1>4, <3>2, <3>3
  <2>2. h = Rule(h)
    BY <2>1
  <2> HIDE DEF Rule, h
  <2> QED BY <2>2
<1>6. C = Rule(C)
  <2> HIDE DEF Rule
  <2> QED BY <1>5
<1>7. ASSUME NEW at PROVE parseDomainName(body, at) = C[at]
  BY DEF parseDomainName, NameAt
<1> HIDE DEF C
<1>8. \A at \in 1 .. L + 1 : C[at] = NameAt(body, C, at)
  BY <1>6
<1>9. \A at \in 1 .. L + 1 : C[at] \in NameIn(L)
  <2> DEFINE N == L + 1
             H == {at \in 1 .. N : C[at] \in NameIn(L)}
  <2>1. ASSUME NEW at \in 1 .. N, \A j \in at + 1 .. N : j \in H PROVE at \in H
    <3>1. \A j \in at + 1 .. L + 1 : C[j] \in NameIn(L)
      BY <2>1
    <3>2. NameAt(body, C, at) \in NameIn(L)
      BY <3>1, NameAtType
    <3> QED BY <1>8, <3>2
  <2>2. N \in Nat
    BY <1>1
  <2> HIDE DEF H, N
  <2>3. \A at \in 1 .. N : at \in H
    BY <2>1, <2>2, Backwards
  <2> QED BY <2>3 DEF H, N
<1> QED BY <1>7, <1>8, <1>9

\* The loop of ParseDNS: A is where it is after each question.
Loop(A, msg) == /\ A[0] = Begun
                /\ \A n \in Nat : n < msg.qdcount => A[n + 1] = NextQuestion(msg.body, A[n])

\* ParseDNS runs its loop once for each question announced.
LEMMA LoopIsRun ==
  ASSUME NEW msg, msg.qdcount \in Nat
  PROVE  \E A : /\ Loop(A, msg)
                /\ ParseDNS(msg) = IF \/ msg.head < HeaderSize \/ msg.qdcount = 0
                                      \/ A[msg.qdcount].next = -1
                                   THEN Nil ELSE A[msg.qdcount].questions
<1> DEFINE N == msg.qdcount
           body == msg.body
           Rule(f) == [n \in 0 .. N |-> IF n = 0 THEN Begun ELSE NextQuestion(body, f[n - 1])]
           C == CHOOSE f : f = Rule(f)
           G == {n \in Nat : \E f : f[0] = Begun /\ \A i \in 1 .. n :
                                      f[i] = NextQuestion(body, f[i - 1])}
<1>1. 0 \in G
  <2> DEFINE f == [i \in 0 .. 0 |-> Begun]
  <2>1. f[0] = Begun /\ \A i \in 1 .. 0 : f[i] = NextQuestion(body, f[i - 1])
    OBVIOUS
  <2> HIDE DEF f
  <2> QED BY <2>1
<1>2. ASSUME NEW n \in Nat, n \in G PROVE n + 1 \in G
  <2>1. PICK f : f[0] = Begun /\ \A i \in 1 .. n : f[i] = NextQuestion(body, f[i - 1])
    BY <1>2
  <2> DEFINE g == [i \in 0 .. n + 1 |-> IF i <= n THEN f[i] ELSE NextQuestion(body, f[i - 1])]
  <2>2. g[0] = Begun
    BY <2>1
  <2>3. ASSUME NEW i \in 1 .. n + 1 PROVE g[i] = NextQuestion(body, g[i - 1])
    <3>1. g[i - 1] = f[i - 1]
      OBVIOUS
    <3>2. g[i] = NextQuestion(body, f[i - 1])
      BY <2>1
    <3> HIDE DEF g
    <3> QED BY <3>1, <3>2
  <2> HIDE DEF g
  <2> QED BY <2>2, <2>3
<1>3. PICK f : f[0] = Begun /\ \A i \in 1 .. N : f[i] = NextQuestion(body, f[i - 1])
  <2>1. N \in G
    <3> HIDE DEF G
    <3> QED BY <1>1, <1>2, Upwards
  <2> QED BY <2>1
<1>4. \E h : h = Rule(h)
  <2> DEFINE h == [n \in 0 .. N |-> f[n]]
  <2>1. \A n \in 0 .. N : n # 0 => h[n - 1] = f[n - 1]
    OBVIOUS
  <2>2. h = Rule(h)
    BY <1>3, <2>1
  <2> HIDE DEF Rule, h
  <2> QED BY <2>2
<1>5. C = Rule(C)
  <2> HIDE DEF Rule
  <2> QED BY <1>4
<1>6. ParseDNS(msg) = IF msg.head < HeaderSize \/ N = 0 \/ C[N].next = -1
                      THEN Nil ELSE C[N].questions
  BY DEF ParseDNS
<1> HIDE DEF C
<1>7. \A n \in 0 .. N : C[n] = IF n = 0 THEN Begun ELSE NextQuestion(body, C[n - 1])
  BY <1>5
<1>8. Loop(C, msg)
  <2>1. C[0] = Begun
    BY <1>7
  <2>2. ASSUME NEW n \in Nat, n < N PROVE C[n + 1] = NextQuestion(body, C[n])
    <3>1. n + 1 \in 0 .. N /\ n + 1 # 0 /\ n + 1 - 1 = n
      BY <2>2
    <3> QED BY <1>7, <3>1
  <2> QED BY <2>1, <2>2 DEF Loop
<1> QED BY <1>6, <1>8
-----------------------------------------------------------------------------
\* The body begins with the code, but for pointers: the parser takes the first byte of
\* one for the end of a name.
BeginsNearly(body, code) ==
  /\ Len(code) <= Len(body)
  /\ \A i \in DOMAIN code : body[i] = code[i] \/ (IsPointer(body[i]) /\ code[i] = 0)

\* The bytes are the code, but for pointers.
StandsFor(bytes, code) == Len(bytes) = Len(code) /\ BeginsNearly(bytes, code)

\* Bytes stand for themselves.
LEMMA StandsForItself == ASSUME NEW s \in Seq(Nat) PROVE StandsFor(s, s)
<1>1. Len(s) \in Nat
  BY LenProperties
<1> QED BY <1>1 DEF StandsFor, BeginsNearly

\* Bytes in two parts stand for the two parts of a code.
LEMMA StandsInParts ==
  ASSUME NEW a \in Seq(Nat), NEW b \in Seq(Nat), NEW c \in Seq(Nat), NEW d \in Seq(Nat),
         StandsFor(a, c), StandsFor(b, d)
  PROVE  StandsFor(a \o b, c \o d)
<1> DEFINE m == Len(a)
           n == Len(b)
<1>1. m \in Nat /\ n \in Nat /\ Len(c) = m /\ Len(d) = n
  BY LenProperties DEF StandsFor
<1>2. /\ Len(a \o b) = m + n /\ Len(c \o d) = m + n
      /\ DOMAIN (c \o d) = 1 .. m + n
      /\ \A i \in 1 .. m + n : /\ (a \o b)[i] = IF i <= m THEN a[i] ELSE b[i - m]
                               /\ (c \o d)[i] = IF i <= m THEN c[i] ELSE d[i - m]
  <2>1. /\ Len(a \o b) = m + n
        /\ \A i \in 1 .. m + n : (a \o b)[i] = IF i <= m THEN a[i] ELSE b[i - m]
    BY ConcatProperties
  <2>2. /\ c \o d \in Seq(Nat) /\ Len(c \o d) = Len(c) + Len(d)
        /\ \A i \in 1 .. Len(c) + Len(d) :
             (c \o d)[i] = IF i <= Len(c) THEN c[i] ELSE d[i - Len(c)]
    BY ConcatProperties
  <2>3. DOMAIN (c \o d) = 1 .. Len(c \o d)
    BY <2>2, LenProperties
  <2> HIDE DEF m, n
  <2> QED BY <1>1, <2>1, <2>2, <2>3, Zenon
<1>3. /\ \A i \in 1 .. m : a[i] = c[i] \/ (IsPointer(a[i]) /\ c[i] = 0)
      /\ \A i \in 1 .. n : b[i] = d[i] \/ (IsPointer(b[i]) /\ d[i] = 0)
  <2>1. DOMAIN c = 1 .. m /\ DOMAIN d = 1 .. n
    BY <1>1, LenProperties
  <2> QED BY <2>1 DEF StandsFor, BeginsNearly
<1>4. ASSUME NEW i \in 1 .. m + n
      PROVE  (a \o b)[i] = (c \o d)[i] \/ (IsPointer((a \o b)[i]) /\ (c \o d)[i] = 0)
  <2>1. CASE i <= m
    <3>1. i \in 1 .. m
      BY <1>1, <2>1
    <3> HIDE DEF m, n
    <3> QED BY <1>2, <1>3, <2>1, <3>1
  <2>2. CASE ~(i <= m)
    <3>1. i - m \in 1 .. n
      BY <1>1, <2>2
    <3> HIDE DEF m, n
    <3> QED BY <1>2, <1>3, <2>2, <3>1
  <2> QED BY <2>1, <2>2
<1>5. m + n <= m + n
  BY <1>1
<1> HIDE DEF m, n
<1> QED BY <1>2, <1>4, <1>5 DEF StandsFor, BeginsNearly

\* A name that ends within the body is taken as it was encoded, or as its labels
\* up to a pointer were.
LEMMA NamesAreNames ==
  ASSUME NEW body \in Seq(Nat), NEW start \in 1 .. Len(body) + 1
  PROVE  LET name == parseDomainName(body, start)
         IN  name.next # -1 /\ name.next <= Len(body) =>
               /\ name.next > start
               /\ StandsFor(SubSeq(body, start, name.next - 1), EncodedName(name.labels))
<1> DEFINE L == Len(body)
<1>1. L \in Nat /\ DOMAIN body = 1 .. L
  BY LenProperties
<1>2. PICK P : \A at \in 1 .. L + 1 :
        P[at] = parseDomainName(body, at) /\ P[at] \in NameIn(L) /\ P[at] = NameAt(body, P, at)
  BY NameIsRead
<1> DEFINE Taken(at) == P[at].next # -1 /\ P[at].next <= L =>
                          /\ P[at].next > at
                          /\ StandsFor(SubSeq(body, at, P[at].next - 1),
                                       EncodedName(P[at].labels))
           N == L + 1
           G == {at \in 1 .. N : Taken(at)}
<1>3. ASSUME NEW at \in 1 .. N, \A j \in at + 1 .. N : j \in G PROVE Taken(at)
  <2> SUFFICES ASSUME P[at].next # -1, P[at].next <= L
               PROVE  /\ P[at].next > at
                      /\ StandsFor(SubSeq(body, at, P[at].next - 1), EncodedName(P[at].labels))
    OBVIOUS
  <2> DEFINE length == body[at]
             end == at + length
             n == P[end + 1]
             label == SubSeq(body, at + 1, end)
  <2>0. P[at] = NameAt(body, P, at)
    BY <1>2
  <2>1. at \in 1 .. L
    <3>1. at > L => P[at].next = at
      BY <2>0 DEF NameAt
    <3> QED BY <1>1, <3>1
  <2>2. length \in Nat /\ ~(at > L)
    BY <1>1, <2>1, ElementOfSeq
  <2>3. CASE IsPointer(length) \/ length = 0
    <3>1. P[at].labels = <<>> /\ P[at].next = at + 1
      <4>1. Failed.next = -1 /\ ~IsPointer(0)
        BY DEF Failed, IsPointer
      <4>2. P[at] = Read(body, P, at) /\ P[at].next # -1
        BY <2>0, <2>2 DEF NameAt
      <4>3. Read(body, P, at) = [labels |-> <<>>, next |-> at + 1]
        <5>1. CASE IsPointer(length)
          <6>1. IsPointer(length) /\ length # 0
            BY <4>1, <5>1
          <6>2. Read(body, P, at) = IF at = Len(body) THEN Failed
                                    ELSE [labels |-> <<>>, next |-> at + 1]
            BY ONLY <2>1, <6>1 DEF Read
          <6> QED BY <4>1, <4>2, <6>2
        <5>2. CASE length = 0
          <6>1. ~IsPointer(length) /\ length = 0 /\ ~(length > 0)
            BY <4>1, <5>2
          <6> QED BY ONLY <2>1, <6>1 DEF Read
        <5> QED BY <2>3, <5>1, <5>2
      <4> QED BY <4>2, <4>3
    <3>2. SubSeq(body, at, at) = <<body[at]>>
      <4>1. SubSeq(body, at, at) = <<body[at]>> \o SubSeq(body, at + 1, at)
        BY <2>1, SubSeqRecursiveFirst
      <4>2. SubSeq(body, at + 1, at) = <<>>
        BY SubSeqEmpty
      <4>3. <<body[at]>> \in Seq(Nat)
        BY <2>2
      <4> QED BY <4>1, <4>2, <4>3, ConcatEmptySeq
    <3>3. at + 1 - 1 = at
      BY <2>1
    <3>4. StandsFor(<<length>>, <<0>>)
      <4>1. /\ Len(<<length>>) = 1 /\ Len(<<0>>) = 1 /\ 1 <= 1
            /\ \A i \in DOMAIN <<0>> : <<length>>[i] = length /\ <<0>>[i] = 0
        OBVIOUS
      <4> HIDE DEF length
      <4> QED BY <2>3, <4>1 DEF StandsFor, BeginsNearly
    <3>5. at + 1 > at
      BY <2>1
    <3>6. SubSeq(body, at, P[at].next - 1) = <<length>>
      <4>1. P[at].next - 1 = at
        BY <3>1, <3>3
      <4> QED BY <3>2, <4>1
    <3>7. StandsFor(SubSeq(body, at, P[at].next - 1), EncodedName(P[at].labels))
      <4>1. EncodedName(P[at].labels) = <<0>>
        BY <3>1, EncodedRoot
      <4> HIDE DEF length
      <4> QED BY <3>4, <3>6, <4>1
    <3> QED BY <3>1, <3>5, <3>7
  <2>4. CASE ~IsPointer(length) /\ length # 0
    <3>1. P[at] = IF end > L \/ n.next = -1 THEN Failed
                  ELSE [labels |-> <<label>> \o n.labels, next |-> n.next]
      BY <2>0, <2>2, <2>4 DEF NameAt, Read
    <3>2. Failed.next = -1
      BY DEF Failed
    <3>3. /\ ~(end > L) /\ n.next # -1
          /\ P[at].labels = <<label>> \o n.labels /\ P[at].next = n.next
      <4> HIDE DEF n, label, end
      <4> QED BY <3>1, <3>2
    <3>4. end \in at + 1 .. L /\ end + 1 \in at + 1 .. N
      <4>1. ~(end > L)
        BY <3>3
      <4>2. L \in Nat /\ at \in 1 .. L /\ length \in Nat /\ length # 0
        BY <1>1, <2>1, <2>2, <2>4
      <4> HIDE DEF length, L
      <4> QED BY ONLY <4>1, <4>2, SMTT(30) DEF N, end
    <3> HIDE DEF end
    <3>5. Taken(end + 1)
      BY <1>3, <3>4
    <3>6. n \in NameIn(L)
      <4>1. end + 1 \in 1 .. L + 1
        <5>1. L \in Nat /\ at \in 1 .. L /\ end \in at + 1 .. L
          BY <1>1, <2>1, <3>4
        <5> HIDE DEF L
        <5> QED BY ONLY <5>1
      <4> QED BY <1>2, <4>1
    <3>7. /\ n.next > end + 1 /\ n.next \in Nat /\ n.next <= L
          /\ StandsFor(SubSeq(body, end + 1, n.next - 1), EncodedName(n.labels))
      <4>1. n.next \in {-1} \cup 1 .. L + 1
        BY <3>6 DEF NameIn
      <4>2. n.next <= L /\ n.next # -1
        BY <3>3
      <4>3. /\ n.next > end + 1
            /\ StandsFor(SubSeq(body, end + 1, n.next - 1), EncodedName(n.labels))
        BY <3>5, <4>2
      <4>4. n.next \in Nat /\ n.next <= L
        BY <1>1, <4>1, <4>2
      <4> QED BY <4>3, <4>4
    <3> DEFINE k == n.next - 1
    <3>8. /\ k \in end .. L /\ n.next = k + 1
          /\ StandsFor(SubSeq(body, end + 1, k), EncodedName(n.labels))
      <4> DEFINE m == n.next
                 b == end
      <4>1. L \in Nat /\ b \in Nat /\ m \in Nat /\ m > b + 1 /\ m <= L
        BY <1>1, <2>1, <3>4, <3>7
      <4> HIDE DEF m, b, L
      <4>2. m - 1 \in b .. L /\ m = m - 1 + 1
        BY ONLY <4>1, SMTT(30)
      <4> QED BY <3>7, <4>2 DEF m, b
    <3>9. label \in Seq(Nat) /\ Len(label) = length /\ n.labels \in Seq(Seq(Nat))
      <4>1. \A i \in at + 1 .. end : body[i] \in Nat
        BY <1>1, <2>1, <3>4, ElementOfSeq
      <4>2. at + 1 \in Int /\ end \in Int /\ at + 1 <= end /\ end - (at + 1) + 1 = length
        <5>1. at \in 1 .. L /\ length \in Nat /\ end \in at + 1 .. L /\ end = at + length
          BY <2>1, <2>2, <3>4 DEF end
        <5> HIDE DEF length, L
        <5> QED BY ONLY <5>1
      <4> HIDE DEF length
      <4>3. label \in Seq(Nat) /\ Len(label) = length
        BY <4>1, <4>2, SubSeqProperties DEF label
      <4> QED BY <3>6, <4>3 DEF NameIn
    <3>10. SubSeq(body, at, k) = <<length>> \o (label \o SubSeq(body, end + 1, k))
      <4>1. SubSeq(body, at + 1, end) \o SubSeq(body, end + 1, k) = SubSeq(body, at + 1, k)
        <5>1. /\ at + 1 \in 1 .. Len(body) + 1 /\ end \in (at + 1) - 1 .. Len(body)
              /\ k \in end .. Len(body)
          <6>1. L \in Nat /\ at \in 1 .. L /\ end \in at + 1 .. L /\ k \in end .. L
            BY <1>1, <2>1, <3>4, <3>8
          <6> HIDE DEF k
          <6> QED BY ONLY <6>1
        <5> HIDE DEF k
        <5> QED BY <5>1, ConcatAdjacentSubSeq
      <4>2. SubSeq(body, at, k) = <<body[at]>> \o SubSeq(body, at + 1, k)
        <5>1. k \in at .. Len(body)
          BY <1>1, <2>1, <3>4, <3>8
        <5> HIDE DEF k
        <5> QED BY <2>1, <5>1, SubSeqRecursiveFirst
      <4>3. SubSeq(body, at, k) = <<length>> \o SubSeq(body, at + 1, k)
        BY <4>2
      <4> HIDE DEF k, length
      <4> QED BY ONLY <4>1, <4>3 DEF label
    <3>11. EncodedName(<<label>> \o n.labels) = <<Len(label)>> \o (label \o EncodedName(n.labels))
      <4> DEFINE rest == n.labels
      <4>1. label \in Seq(Nat) /\ rest \in Seq(Seq(Nat))
        BY <3>9
      <4> HIDE DEF label, n, rest
      <4>2. EncodedName(<<label>> \o rest) = <<Len(label)>> \o (label \o EncodedName(rest))
        BY <4>1, EncodedNameCons, Zenon
      <4> QED BY <4>2 DEF rest
    <3>12. n.next > at
      <4> DEFINE m == n.next
                 b == end
      <4>1. m > b + 1 /\ m \in Nat /\ b \in at + 1 .. L /\ at \in 1 .. L /\ L \in Nat
        BY <1>1, <2>1, <3>4, <3>7
      <4> HIDE DEF m, b, L
      <4>2. m > at
        BY ONLY <4>1
      <4> QED BY <4>2 DEF m
    <3>13. SubSeq(body, end + 1, k) \in Seq(Nat)
      <4>1. L \in Nat /\ at \in 1 .. L /\ end \in at + 1 .. L /\ k \in end .. L
        BY <1>1, <2>1, <3>4, <3>8
      <4> HIDE DEF k
      <4>2. end + 1 \in Int /\ k \in Int /\ \A i \in end + 1 .. k : i \in 1 .. L
        <5> HIDE DEF L
        <5> QED BY ONLY <4>1
      <4>3. \A i \in end + 1 .. k : body[i] \in Nat
        BY <4>2, ElementOfSeq
      <4> QED BY <4>2, <4>3, SubSeqProperties
    <3> DEFINE rest == SubSeq(body, end + 1, k)
               code == EncodedName(n.labels)
    <3>14. StandsFor(<<length>> \o (label \o rest), <<length>> \o (label \o code))
      <4>1. /\ label \in Seq(Nat) /\ rest \in Seq(Nat) /\ code \in Seq(Nat)
            /\ <<length>> \in Seq(Nat) /\ StandsFor(rest, code)
        <5>1. label \in Seq(Nat) /\ n.labels \in Seq(Seq(Nat))
          BY <3>9
        <5>2. code \in Seq(Nat)
          BY <5>1, EncodedNameType
        <5>3. <<length>> \in Seq(Nat)
          <6>1. length \in Nat
            BY <2>2
          <6> HIDE DEF length
          <6> QED BY ONLY <6>1
        <5>4. StandsFor(rest, code)
          BY <3>8
        <5> HIDE DEF label, rest, code, length
        <5> QED BY <3>13, <5>1, <5>2, <5>3, <5>4 DEF rest
      <4> HIDE DEF label, rest, code, length
      <4>2. StandsFor(label \o rest, label \o code)
        BY <4>1, StandsForItself, StandsInParts
      <4>3. label \o rest \in Seq(Nat) /\ label \o code \in Seq(Nat)
        BY <4>1, ConcatProperties
      <4> QED BY <4>1, <4>2, <4>3, StandsForItself, StandsInParts
    <3>15. P[at].next - 1 = k
      BY <3>3, <3>8
    <3>16. EncodedName(P[at].labels) = <<length>> \o (label \o code)
      BY <3>3, <3>9, <3>11
    <3> HIDE DEF n, label, k, end, length, rest, code
    <3>17. SubSeq(body, at, k) = <<length>> \o (label \o rest)
      BY <3>10 DEF rest
    <3> QED BY <3>3, <3>12, <3>14, <3>15, <3>16, <3>17
  <2> QED BY <2>3, <2>4
<1>4. \A at \in 1 .. N : at \in G
  <2>1. N \in Nat
    BY <1>1
  <2>2. \A at \in 1 .. N : (\A j \in at + 1 .. N : j \in G) => at \in G
    <3> HIDE DEF Taken
    <3> QED BY <1>3
  <2> HIDE DEF G, N
  <2> QED BY <2>1, <2>2, Backwards
<1>5. Taken(start)
  BY <1>4
<1> QED BY <1>2, <1>5

\* The question that Found appends
Asked(body, name) == [name |-> name.labels, type |-> Pair(body, name.next),
                      class |-> Pair(body, name.next + 2)]

\* Two bytes in a row
LEMMA PairsAreParts ==
  ASSUME NEW body \in Seq(Nat), NEW i \in 1 .. Len(body), i + 3 <= Len(body)
  PROVE  /\ Pair(body, i) \in Seq(Nat) /\ Pair(body, i + 2) \in Seq(Nat)
         /\ Len(Pair(body, i)) = 2 /\ Len(Pair(body, i + 2)) = 2
         /\ Pair(body, i) \o Pair(body, i + 2) = SubSeq(body, i, i + 3)
<1> DEFINE a == body[i]
           b == body[i + 1]
           c == body[i + 2]
           d == body[i + 3]
           t == SubSeq(body, i, i + 3)
           u == <<a, b, c, d>>
<1>1. Len(body) \in Nat /\ \A j \in i .. i + 3 : body[j] \in Nat
  <2>1. Len(body) \in Nat
    BY LenProperties
  <2> QED BY <2>1, ElementOfSeq
<1>2. /\ i \in i .. i + 3 /\ i + 1 \in i .. i + 3 /\ i + 2 \in i .. i + 3 /\ i + 3 \in i .. i + 3
      /\ i + 2 + 1 = i + 3
  BY <1>1
<1>3. a \in Nat /\ b \in Nat /\ c \in Nat /\ d \in Nat
  BY <1>1, <1>2
<1>4. /\ t \in Seq(Nat) /\ Len(t) = 4
      /\ \A j \in 1 .. 4 : t[j] = body[i + j - 1]
  <2> DEFINE m == i + 3
  <2>1. /\ i \in Int /\ m \in Int /\ i <= m /\ m - i + 1 = 4
        /\ \A j \in i .. m : body[j] \in Nat
    BY <1>1
  <2> HIDE DEF m
  <2>2. /\ SubSeq(body, i, m) \in Seq(Nat)
        /\ Len(SubSeq(body, i, m)) = IF i <= m THEN m - i + 1 ELSE 0
        /\ \A j \in 1 .. m - i + 1 : SubSeq(body, i, m)[j] = body[i + j - 1]
    BY <2>1, SubSeqProperties
  <2> QED BY <2>1, <2>2 DEF m
<1>5. t[1] = a /\ t[2] = b /\ t[3] = c /\ t[4] = d
  <2>1. i + 1 - 1 = i /\ i + 2 - 1 = i + 1 /\ i + 3 - 1 = i + 2 /\ i + 4 - 1 = i + 3
    BY <1>1
  <2> HIDE DEF t
  <2> QED BY <1>4, <2>1
<1>6. Pair(body, i) = <<a, b>> /\ Pair(body, i + 2) = <<c, d>>
  BY <1>2 DEF Pair
<1> HIDE DEF a, b, c, d, t
<1>7. /\ u \in Seq(Nat) /\ Len(u) = 4 /\ u[1] = a /\ u[2] = b /\ u[3] = c /\ u[4] = d
      /\ <<a, b>> \in Seq(Nat) /\ <<c, d>> \in Seq(Nat)
      /\ Len(<<a, b>>) = 2 /\ Len(<<c, d>>) = 2
  BY <1>3
<1>8. t = u
  <2>1. Len(t) = Len(u) /\ \A j \in 1 .. Len(t) : t[j] = u[j]
    <3> HIDE DEF u
    <3> QED BY <1>4, <1>5, <1>7
  <2> HIDE DEF u
  <2> QED BY <1>4, <1>7, <2>1, SeqEqual
<1>9. <<a, b>> \o <<c, d>> = t
  BY <1>8, ConcatTwos
<1> QED BY <1>6, <1>7, <1>9 DEF t

\* A question that ends within the body is taken as it was encoded.
LEMMA QuestionsAreQuestions ==
  ASSUME NEW body \in Seq(Nat), NEW start \in 1 .. Len(body) + 1,
         Complete(body, parseDomainName(body, start))
  PROVE  LET name == parseDomainName(body, start)
         IN  /\ Asked(body, name) \in AnyQuestion
             /\ name.next \in Nat /\ name.next + 4 \in 1 .. Len(body) + 1
             /\ name.next + 3 >= start
             /\ StandsFor(SubSeq(body, start, name.next + 3),
                          EncodedQuestion(Asked(body, name)))
<1> DEFINE L == Len(body)
           name == parseDomainName(body, start)
           n == name.next
           q == Asked(body, name)
<1>1. L \in Nat
  BY LenProperties
<1>2. name \in NameIn(L)
  BY NameIsRead
<1>3. n # -1 /\ n + 3 <= L
  BY DEF Complete
<1>4. n \in 1 .. L /\ n + 3 <= L
  <2>1. n \in {-1} \cup 1 .. L + 1
    BY <1>2 DEF NameIn
  <2> HIDE DEF n
  <2> QED BY <1>1, <1>3, <2>1
<1>5. n > start /\ StandsFor(SubSeq(body, start, n - 1), EncodedName(name.labels))
  <2>1. n <= Len(body) /\ n # -1
    BY <1>1, <1>3, <1>4
  <2> QED BY <2>1, NamesAreNames
<1>6. name.labels \in Seq(Seq(Nat))
  BY <1>2 DEF NameIn
<1> HIDE DEF name
<1>7. /\ Pair(body, n) \in Seq(Nat) /\ Pair(body, n + 2) \in Seq(Nat)
      /\ Pair(body, n) \o Pair(body, n + 2) = SubSeq(body, n, n + 3)
  <2> HIDE DEF n
  <2> QED BY <1>4, PairsAreParts
<1>8. q \in AnyQuestion
  BY <1>6, <1>7 DEF Asked, AnyQuestion
<1>9. StandsFor(SubSeq(body, start, n - 1) \o SubSeq(body, n, n + 3), EncodedQuestion(q))
  <2> DEFINE a == SubSeq(body, start, n - 1)
             b == SubSeq(body, n, n + 3)
             c == EncodedName(name.labels)
  <2>1. EncodedQuestion(q) = c \o b
    BY <1>7 DEF EncodedQuestion, Asked
  <2>2. a \in Seq(Nat)
    <3>1. n \in 1 .. L /\ n > start
      BY <1>4, <1>5
    <3> HIDE DEF n
    <3>2. n - 1 \in Int /\ start \in Int /\ \A i \in start .. n - 1 : i \in 1 .. Len(body)
      BY <1>1, <3>1
    <3>3. \A i \in start .. n - 1 : body[i] \in Nat
      BY <3>2, ElementOfSeq
    <3> QED BY <3>2, <3>3, SubSeqProperties
  <2>3. c \in Seq(Nat)
    BY <1>6, EncodedNameType
  <2>4. b \in Seq(Nat)
    BY <1>7, ConcatProperties
  <2>5. StandsFor(a, c)
    BY <1>5
  <2> HIDE DEF a, b, c, q
  <2>6. StandsFor(a \o b, c \o b)
    BY <2>2, <2>3, <2>4, <2>5, StandsForItself, StandsInParts
  <2> QED BY <2>1, <2>6 DEF a, b
<1>10. SubSeq(body, start, n - 1) \o SubSeq(body, n, n + 3) = SubSeq(body, start, n + 3)
  <2> DEFINE k == n - 1
             m == n + 3
  <2>1. start \in 1 .. Len(body) + 1 /\ k \in start - 1 .. Len(body) /\ m \in k .. Len(body)
    <3> HIDE DEF n
    <3> QED BY <1>1, <1>4, <1>5
  <2>2. n = k + 1
    <3> HIDE DEF n
    <3> QED BY <1>4
  <2> HIDE DEF k, m
  <2>3. SubSeq(body, start, k) \o SubSeq(body, k + 1, m) = SubSeq(body, start, m)
    BY <2>1, ConcatAdjacentSubSeq
  <2> QED BY <2>2, <2>3 DEF k, m
<1>11. n \in Nat /\ n + 4 \in 1 .. L + 1 /\ n + 3 >= start
  <2> HIDE DEF n
  <2> QED BY <1>1, <1>4, <1>5
<1> QED BY <1>8, <1>9, <1>10, <1>11 DEF name

\* What ParseDNS gives is a message that the body begins with.
LEMMA MessagesAreMessages ==
  ASSUME NEW msg, msg.body \in Seq(Nat), msg.qdcount \in Nat, ParseDNS(msg) # Nil
  PROVE  /\ ~(msg.head < HeaderSize)
         /\ Len(ParseDNS(msg)) = msg.qdcount
         /\ ParseDNS(msg) \in Seq(AnyQuestion)
         /\ BeginsNearly(msg.body, Encoded(ParseDNS(msg)))
<1> DEFINE body == msg.body
           N == msg.qdcount
           L == Len(body)
<1>1. L \in Nat
  BY LenProperties
<1>2. PICK A : /\ Loop(A, msg)
               /\ ParseDNS(msg) = IF msg.head < HeaderSize \/ N = 0 \/ A[N].next = -1
                                  THEN Nil ELSE A[N].questions
  BY LoopIsRun
<1> DEFINE Sound(n) == A[n].next = -1 \/
                         /\ A[n].questions \in Seq(AnyQuestion) /\ Len(A[n].questions) = n
                         /\ A[n].next \in 1 .. L + 1
                         /\ StandsFor(SubSeq(body, 1, A[n].next - 1),
                                      Encoded(A[n].questions))
           G == {n \in Nat : n <= N => Sound(n)}
<1>3. 0 \in G
  <2>1. A[0] = Begun
    BY <1>2 DEF Loop
  <2>2. A[0].questions = <<>> /\ A[0].next = 1
    BY <2>1 DEF Begun
  <2>3. A[0].next - 1 = 0 /\ SubSeq(body, 1, 0) = <<>>
    BY <2>2, SubSeqEmpty
  <2>4. Encoded(<<>>) = <<>>
    <3>1. [i \in DOMAIN <<>> |-> EncodedQuestion(<<>>[i])] = <<>>
      OBVIOUS
    <3>2. FlattenSeq(<<>>) = <<>>
      BY DEF FlattenSeq
    <3> QED BY <3>1, <3>2 DEF Encoded
  <2>5. <<>> \in Seq(AnyQuestion) /\ Len(<<>>) = 0
    OBVIOUS
  <2>6. A[0].next \in 1 .. L + 1
    BY <1>1, <2>2
  <2>7. StandsFor(<<>>, <<>>)
    <3>1. <<>> \in Seq(Nat)
      OBVIOUS
    <3> QED BY <3>1, StandsForItself
  <2>8. Sound(0)
    BY <2>2, <2>3, <2>4, <2>5, <2>6, <2>7
  <2> HIDE DEF Sound
  <2> QED BY <2>8
<1>4. ASSUME NEW n \in Nat, n < N, Sound(n) PROVE Sound(n + 1)
  <2> DEFINE done == A[n]
             name == parseDomainName(body, done.next)
  <2>1. A[n + 1] = NextQuestion(body, done)
    BY <1>2, <1>4 DEF Loop
  <2>2. CASE done.next = -1 \/ ~Complete(body, name)
    <3>1. NextQuestion(body, done) = GivenUp
      BY <2>2 DEF NextQuestion
    <3>2. A[n + 1].next = -1
      BY <2>1, <3>1 DEF GivenUp
    <3> QED BY <3>2
  <2>3. CASE ~(done.next = -1 \/ ~Complete(body, name))
    <3> DEFINE qs == done.questions
               start == done.next
               q == Asked(body, name)
    <3>1. /\ qs \in Seq(AnyQuestion) /\ Len(qs) = n /\ start \in 1 .. L + 1
          /\ StandsFor(SubSeq(body, 1, start - 1), Encoded(qs))
      BY <1>4, <2>3
    <3>2. A[n + 1] = [questions |-> Append(qs, q), next |-> name.next + 4]
      BY <2>1, <2>3 DEF NextQuestion, Found, Asked
    <3>3. Complete(body, name)
      BY <2>3
    <3> HIDE DEF qs, start
    <3>4. /\ q \in AnyQuestion /\ name.next \in Nat /\ name.next + 4 \in 1 .. L + 1
          /\ name.next + 3 >= start
          /\ StandsFor(SubSeq(body, start, name.next + 3), EncodedQuestion(q))
      BY <3>1, <3>3, QuestionsAreQuestions DEF start
    <3> HIDE DEF q
    <3>5. /\ Append(qs, q) \in Seq(AnyQuestion) /\ Len(Append(qs, q)) = n + 1
          /\ Encoded(Append(qs, q)) = Encoded(qs) \o EncodedQuestion(q)
      BY <3>1, <3>4, AppendProperties, EncodedAppend
    <3> DEFINE k == start - 1
               m == name.next + 3
    <3>6. SubSeq(body, 1, k) \o SubSeq(body, k + 1, m) = SubSeq(body, 1, m)
      <4>1. 1 \in 1 .. Len(body) + 1 /\ k \in 1 - 1 .. Len(body) /\ m \in k .. Len(body)
        <5> HIDE DEF name
        <5>1. k \in 0 .. L /\ k <= m /\ m <= L /\ k \in Int /\ m \in Int
          <6>1. L \in Nat /\ start \in 1 .. L + 1 /\ name.next \in Nat
            BY <1>1, <3>1, <3>4
          <6>2. name.next + 4 \in 1 .. L + 1 /\ name.next + 3 >= start
            BY <3>4
          <6> HIDE DEF L
          <6> QED BY ONLY <6>1, <6>2 DEF k, m
        <5> HIDE DEF k, m
        <5> QED BY <1>1, <5>1
      <4> HIDE DEF k, m
      <4> QED BY <4>1, ConcatAdjacentSubSeq
    <3>7. k + 1 = start
      BY <3>1
    <3>8. StandsFor(SubSeq(body, 1, m), Encoded(Append(qs, q)))
      <4> DEFINE a == SubSeq(body, 1, k)
                 b == SubSeq(body, k + 1, m)
      <4>1. StandsFor(a, Encoded(qs)) /\ StandsFor(b, EncodedQuestion(q))
        BY <3>1, <3>4, <3>7
      <4>2. /\ k \in Int /\ m \in Int /\ k + 1 \in Int
            /\ \A i \in 1 .. k : body[i] \in Nat
            /\ \A i \in k + 1 .. m : body[i] \in Nat
        <5>1. /\ L \in Nat /\ start \in 1 .. L + 1 /\ name.next \in Nat
              /\ name.next + 4 \in 1 .. L + 1
          BY <1>1, <3>1, <3>4
        <5>2. /\ k \in Int /\ m \in Int /\ k + 1 \in Int
              /\ \A i \in 1 .. k : i \in 1 .. L
              /\ \A i \in k + 1 .. m : i \in 1 .. L
          <6> HIDE DEF L, name
          <6> QED BY ONLY <5>1 DEF k, m
        <5> QED BY <5>2, ElementOfSeq
      <4>3. a \in Seq(Nat) /\ b \in Seq(Nat)
        <5> HIDE DEF k, m
        <5> QED BY <4>2, SubSeqProperties
      <4>4. Encoded(qs) \in Seq(Nat) /\ EncodedQuestion(q) \in Seq(Nat)
        BY <3>1, <3>4, EncodedType, EncodedQuestionType
      <4> HIDE DEF a, b
      <4>5. StandsFor(a \o b, Encoded(qs) \o EncodedQuestion(q))
        BY <4>1, <4>3, <4>4, StandsInParts
      <4>6. a \o b = SubSeq(body, 1, m)
        BY <3>6 DEF a, b
      <4> QED BY <3>5, <4>5, <4>6
    <3>9. A[n + 1].questions = Append(qs, q) /\ A[n + 1].next = name.next + 4
      BY <3>2
    <3>10. A[n + 1].next - 1 = m
      <4> HIDE DEF name
      <4> QED BY <3>4, <3>9
    <3> HIDE DEF name, m
    <3> QED BY <3>4, <3>5, <3>8, <3>9, <3>10
  <2> QED BY <2>2, <2>3
<1>5. Sound(N)
  <2>1. \A n \in Nat : n \in G => n + 1 \in G
    <3> HIDE DEF Sound
    <3> QED BY <1>4
  <2>2. N \in G
    <3> HIDE DEF G, N
    <3> QED BY <1>3, <2>1, Upwards DEF N
  <2> HIDE DEF Sound, N
  <2> QED BY <2>2
<1>6. ~(msg.head < HeaderSize) /\ A[N].next # -1 /\ ParseDNS(msg) = A[N].questions
  BY <1>2
<1> DEFINE t == A[N].questions
           k == A[N].next - 1
<1>7. /\ t \in Seq(AnyQuestion) /\ Len(t) = N /\ A[N].next \in 1 .. L + 1
      /\ StandsFor(SubSeq(body, 1, k), Encoded(t))
  BY <1>5, <1>6
<1>8. k \in 0 .. L
  BY <1>1, <1>7
<1>9. /\ Len(SubSeq(body, 1, k)) = k
      /\ \A i \in 1 .. k : SubSeq(body, 1, k)[i] = body[i]
  <2>1. \A i \in 1 .. k : body[i] \in Nat
    BY <1>1, <1>8, ElementOfSeq
  <2>2. /\ 1 \in Int /\ k \in Int /\ (IF 1 <= k THEN k - 1 + 1 ELSE 0) = k
        /\ k - 1 + 1 = k /\ \A i \in 1 .. k : 1 + i - 1 = i
    BY <1>8
  <2> HIDE DEF k
  <2> QED BY <2>1, <2>2, SubSeqProperties
<1>10. BeginsNearly(body, Encoded(t))
  <2>1. Len(Encoded(t)) = k /\ Encoded(t) \in Seq(Nat)
    BY <1>7, <1>9, EncodedType DEF StandsFor
  <2>2. DOMAIN Encoded(t) = 1 .. k
    BY <2>1, LenProperties
  <2>3. k <= L
    BY <1>1, <1>8
  <2> HIDE DEF k, t
  <2> QED BY <1>7, <1>9, <2>1, <2>2, <2>3 DEF StandsFor, BeginsNearly
<1> QED BY <1>6, <1>7, <1>10
-----------------------------------------------------------------------------
\* As far as the body goes, s is what stands there from a place on.
Agrees(body, at, s) == \A i \in 1 .. Len(s) : at + i - 1 <= Len(body) => body[at + i - 1] = s[i]

\* What stands there is made of parts one behind the other.
LEMMA AgreesInParts ==
  ASSUME NEW body \in Seq(Nat), NEW at \in Nat, NEW s \in Seq(Nat), NEW t \in Seq(Nat),
         Agrees(body, at, s \o t)
  PROVE  Agrees(body, at, s) /\ Agrees(body, at + Len(s), t)
<1> DEFINE u == s \o t
           L == Len(body)
<1>1. /\ Len(u) = Len(s) + Len(t) /\ Len(s) \in Nat /\ Len(t) \in Nat /\ L \in Nat
      /\ \A i \in 1 .. Len(s) + Len(t) : u[i] = IF i <= Len(s) THEN s[i] ELSE t[i - Len(s)]
  BY ConcatProperties, LenProperties
<1>2. \A i \in 1 .. Len(u) : at + i - 1 <= L => body[at + i - 1] = u[i]
  BY DEF Agrees
<1> HIDE DEF u, L
<1>3. ASSUME NEW i \in 1 .. Len(s), at + i - 1 <= L PROVE body[at + i - 1] = s[i]
  <2>1. i \in 1 .. Len(u) /\ i \in 1 .. Len(s) + Len(t) /\ i <= Len(s)
    BY <1>1
  <2> QED BY <1>1, <1>2, <1>3, <2>1
<1>4. ASSUME NEW i \in 1 .. Len(t), at + Len(s) + i - 1 <= L
      PROVE  body[at + Len(s) + i - 1] = t[i]
  <2> DEFINE j == Len(s) + i
  <2>1. /\ j \in 1 .. Len(u) /\ j \in 1 .. Len(s) + Len(t) /\ ~(j <= Len(s))
        /\ j - Len(s) = i /\ at + j - 1 = at + Len(s) + i - 1
    BY <1>1
  <2> HIDE DEF j
  <2>2. body[at + j - 1] = u[j]
    BY <1>2, <1>4, <2>1
  <2>3. u[j] = t[j - Len(s)]
    BY <1>1, <2>1
  <2> QED BY <2>1, <2>2, <2>3
<1> QED BY <1>3, <1>4 DEF Agrees, L

\* What stands within the body is a part of it.
LEMMA AgreesWithin ==
  ASSUME NEW body \in Seq(Nat), NEW at \in 1 .. Len(body) + 1, NEW s \in Seq(Nat),
         Agrees(body, at, s), at + Len(s) <= Len(body) + 1
  PROVE  SubSeq(body, at, at + Len(s) - 1) = s
<1> DEFINE L == Len(body)
           n == at + Len(s) - 1
           t == SubSeq(body, at, n)
<1>1. L \in Nat /\ Len(s) \in Nat
  BY LenProperties
<1>2. n \in Int /\ n <= L /\ at \in Int /\ n - at + 1 = Len(s)
  BY <1>1
<1> HIDE DEF n
<1>3. \A i \in at .. n : body[i] \in Nat
  BY <1>1, <1>2, ElementOfSeq
<1>4. /\ t \in Seq(Nat) /\ Len(t) = IF at <= n THEN n - at + 1 ELSE 0
      /\ \A i \in 1 .. n - at + 1 : t[i] = body[at + i - 1]
  BY <1>2, <1>3, SubSeqProperties
<1>5. Len(t) = Len(s)
  BY <1>1, <1>2, <1>4
<1>6. \A i \in 1 .. Len(s) : t[i] = s[i]
  <2>1. \A i \in 1 .. Len(s) : at + i - 1 <= L
    BY <1>1, <1>2
  <2>2. \A i \in 1 .. Len(s) : t[i] = body[at + i - 1]
    BY <1>2, <1>4
  <2> HIDE DEF t
  <2> QED BY <2>1, <2>2 DEF Agrees
<1> HIDE DEF t
<1>7. t = s
  BY <1>4, <1>5, <1>6, SeqEqual
<1> QED BY <1>7 DEF t, n

\* The labels that a name may have
ShortLabel == {label \in Seq(Nat) : Len(label) \in 1 .. 63}

\* What the parser gives where a name stands: the name, or nothing useful if the
\* body ends within it.
Parsed(body, at, name) ==
  LET e == Len(EncodedName(name))
  IN  IF at + e <= Len(body) + 1
      THEN parseDomainName(body, at) = [labels |-> name, next |-> at + e]
      ELSE parseDomainName(body, at).next \in {-1, Len(body) + 1}

\* A name with one label more in front
LEMMA LabelComesBack ==
  ASSUME NEW body \in Seq(Nat), NEW at \in 1 .. Len(body) + 1,
         NEW label \in ShortLabel, NEW name \in Seq(Seq(Nat)),
         Agrees(body, at, EncodedName(<<label>> \o name)),
         \A i \in 1 .. Len(body) + 1 : Agrees(body, i, EncodedName(name)) => Parsed(body, i, name)
  PROVE  Parsed(body, at, <<label>> \o name)
<1> DEFINE L == Len(body)
           full == <<label>> \o name
           e == Len(EncodedName(name))
           k == Len(label)
           end == at + k
           r == parseDomainName(body, at)
           n == parseDomainName(body, end + 1)
<1>1. /\ L \in Nat /\ label \in Seq(Nat) /\ k \in 1 .. 63
      /\ EncodedName(name) \in Seq(Nat) /\ e \in Nat /\ e >= 1
  BY LenProperties, EncodedNameType DEF ShortLabel
<1>2. EncodedName(full) = <<k>> \o (label \o EncodedName(name))
  BY <1>1, EncodedNameCons
<1>3. /\ <<k>> \in Seq(Nat) /\ Len(<<k>>) = 1 /\ <<k>>[1] = k
      /\ label \o EncodedName(name) \in Seq(Nat)
      /\ Len(label \o EncodedName(name)) = k + e
  <2>1. k \in Nat
    BY <1>1
  <2> QED BY <1>1, <2>1, ConcatProperties
<1>4. Len(EncodedName(full)) = k + e + 1
  <2>1. Len(<<k>> \o (label \o EncodedName(name))) = Len(<<k>>) + Len(label \o EncodedName(name))
    BY <1>3, ConcatProperties
  <2> QED BY <1>1, <1>2, <1>3, <2>1
<1>5. /\ Agrees(body, at, <<k>>) /\ Agrees(body, at + 1, label)
      /\ Agrees(body, end + 1, EncodedName(name))
  <2>1. at \in Nat /\ at + 1 \in Nat /\ at + 1 + k = end + 1
    BY <1>1
  <2>2. Agrees(body, at, <<k>>) /\ Agrees(body, at + Len(<<k>>), label \o EncodedName(name))
    BY <1>2, <1>3, <2>1, AgreesInParts
  <2>3. Agrees(body, at + 1, label) /\ Agrees(body, at + 1 + k, EncodedName(name))
    BY <1>1, <1>3, <2>1, <2>2, AgreesInParts
  <2> QED BY <2>1, <2>2, <2>3
<1>6. PICK P : \A i \in 1 .. L + 1 :
        P[i] = parseDomainName(body, i) /\ P[i] \in NameIn(L) /\ P[i] = NameAt(body, P, i)
  BY NameIsRead
<1>7. r = NameAt(body, P, at)
  BY <1>6
<1> DEFINE Goal == IF at + (k + e + 1) <= L + 1
                   THEN r = [labels |-> full, next |-> at + (k + e + 1)]
                   ELSE r.next \in {-1, L + 1}
<1>8. CASE at > L
  <2>1. r.next = at
    BY <1>7, <1>8 DEF NameAt
  <2>2. at = L + 1 /\ ~(at + (k + e + 1) <= L + 1)
    BY <1>1, <1>8
  <2>3. Goal
    BY <2>1, <2>2
  <2> QED BY <1>4, <2>3 DEF Parsed
<1>9. CASE ~(at > L)
  <2>1. body[at] = k /\ ~IsPointer(k) /\ k > 0 /\ k # 0
    <3>1. at + 1 - 1 <= L /\ at + 1 - 1 = at
      BY <1>1, <1>9
    <3>2. 1 \in 1 .. Len(<<k>>)
      BY <1>3
    <3>3. body[at] = k
      BY <1>3, <1>5, <3>1, <3>2 DEF Agrees
    <3>4. \A i \in 1 .. 63 : ~IsPointer(i) /\ i > 0 /\ i # 0
      BY DEF IsPointer
    <3> QED BY <1>1, <3>3, <3>4
  <2> DEFINE sub == SubSeq(body, at + 1, end)
             f == P[end + 1]
  <2>2. r = IF end > L \/ f.next = -1 THEN Failed
            ELSE [labels |-> <<sub>> \o f.labels, next |-> f.next]
    BY <1>7, <1>9, <2>1 DEF NameAt, Read
  <2> HIDE DEF r, f, sub
  <2>3. Failed.next = -1
    BY DEF Failed
  <2>4. CASE end > L
    <3>1. r.next = -1
      BY <2>2, <2>3, <2>4
    <3>2. ~(at + (k + e + 1) <= L + 1)
      BY <1>1, <2>4
    <3>3. Goal
      BY <3>1, <3>2
    <3> QED BY <1>4, <3>3 DEF Parsed, r
  <2>5. CASE ~(end > L)
    <3>1. end + 1 \in 1 .. L + 1 /\ end + 1 + e = at + (k + e + 1)
      BY <1>1, <2>5
    <3>2. f = n /\ Parsed(body, end + 1, name)
      BY <1>5, <1>6, <3>1 DEF f
    <3>3. sub = label
      <4>1. at + 1 \in 1 .. L + 1 /\ at + 1 + k <= L + 1 /\ at + 1 + k - 1 = end
        <5>1. at \in 1 .. L + 1 /\ L \in Nat /\ k \in Nat /\ at + k <= L
          BY <1>1, <2>5
        <5> HIDE DEF L, k
        <5> QED BY ONLY <5>1 DEF end
      <4>2. SubSeq(body, at + 1, at + 1 + k - 1) = label
        BY <1>1, <1>5, <4>1, AgreesWithin
      <4> QED BY <4>1, <4>2 DEF sub
    <3>4. CASE end + 1 + e <= L + 1
      <4>1. n = [labels |-> name, next |-> end + 1 + e]
        BY <3>2, <3>4 DEF Parsed
      <4>2. end + 1 + e # -1
        BY <1>1
      <4> DEFINE m == end + 1 + e
      <4> HIDE DEF n, m
      <4>3. f.labels = name /\ f.next = m /\ m # -1
        BY <3>2, <4>1, <4>2 DEF m
      <4>4. r = [labels |-> <<label>> \o name, next |-> m]
        BY <2>2, <2>5, <3>3, <4>3
      <4>5. Goal
        BY <3>1, <3>4, <4>4 DEF m
      <4> QED BY <1>4, <4>5 DEF Parsed, r
    <3>5. CASE ~(end + 1 + e <= L + 1)
      <4>1. n.next \in {-1, L + 1}
        BY <3>2, <3>5 DEF Parsed
      <4> HIDE DEF n
      <4>2. r.next \in {-1, L + 1}
        BY <2>2, <2>3, <3>2, <4>1
      <4>3. Goal
        BY <3>1, <3>5, <4>2
      <4> QED BY <1>4, <4>3 DEF Parsed, r
    <3> QED BY <3>4, <3>5
  <2> QED BY <2>4, <2>5
<1> QED BY <1>8, <1>9

\* A name comes back as it was encoded.
LEMMA NamesComeBack ==
  ASSUME NEW body \in Seq(Nat), NEW at \in 1 .. Len(body) + 1, NEW name \in Seq(ShortLabel),
         Agrees(body, at, EncodedName(name))
  PROVE  Parsed(body, at, name)
<1> DEFINE L == Len(body)
           Holds(s) == \A i \in 1 .. L + 1 :
                         Agrees(body, i, EncodedName(s)) => Parsed(body, i, s)
           G == {k \in Nat : \A s \in Seq(ShortLabel) : Len(s) = k => Holds(s)}
<1>1. L \in Nat
  BY LenProperties
<1>2. PICK P : \A i \in 1 .. L + 1 :
        P[i] = parseDomainName(body, i) /\ P[i] \in NameIn(L) /\ P[i] = NameAt(body, P, i)
  BY NameIsRead
<1>3. Holds(<<>>)
  <2> SUFFICES ASSUME NEW i \in 1 .. L + 1, Agrees(body, i, EncodedName(<<>>))
               PROVE  Parsed(body, i, <<>>)
    OBVIOUS
  <2> DEFINE r == parseDomainName(body, i)
  <2>1. r = NameAt(body, P, i)
    BY <1>2
  <2> DEFINE root == EncodedName(<<>>)
  <2>2. Len(root) = 1 /\ root[1] = 0 /\ Agrees(body, i, root)
    BY EncodedRoot
  <2> HIDE DEF root
  <2>3. CASE i > L
    <3>1. r.next = i
      BY <2>1, <2>3 DEF NameAt
    <3>2. i = L + 1 /\ ~(i + 1 <= L + 1)
      BY <1>1, <2>3
    <3> HIDE DEF r
    <3>3. r.next \in {-1, L + 1}
      BY <3>1, <3>2
    <3> QED BY <2>2, <3>2, <3>3 DEF Parsed, r, root
  <2>4. CASE ~(i > L)
    <3>1. i + 1 - 1 <= L /\ i + 1 - 1 = i /\ i + 1 <= L + 1 /\ 1 \in 1 .. 1
      BY <1>1, <2>4
    <3>2. body[i] = 0 /\ ~IsPointer(0)
      BY <2>2, <3>1 DEF Agrees, IsPointer
    <3>3. r = [labels |-> <<>>, next |-> i + 1]
      BY <2>1, <2>4, <3>2 DEF NameAt, Read
    <3> QED BY <2>2, <3>1, <3>3 DEF Parsed, root
  <2> QED BY <2>3, <2>4
<1>4. 0 \in G
  <2> HIDE DEF Holds
  <2>1. \A s \in Seq(ShortLabel) : Len(s) = 0 => s = <<>>
    BY EmptySeq
  <2> QED BY <1>3, <2>1
<1>5. ASSUME NEW k \in Nat, k \in G PROVE k + 1 \in G
  <2> HIDE DEF Holds
  <2> SUFFICES ASSUME NEW s \in Seq(ShortLabel), Len(s) = k + 1 PROVE Holds(s)
    OBVIOUS
  <2>1. /\ Head(s) \in ShortLabel /\ Tail(s) \in Seq(ShortLabel) /\ Len(Tail(s)) = k
        /\ s = <<Head(s)>> \o Tail(s)
    <3>1. Len(s) # 0
      OBVIOUS
    <3>2. /\ Head(s) \in ShortLabel /\ Tail(s) \in Seq(ShortLabel) /\ Len(Tail(s)) = Len(s) - 1
          /\ s = <<Head(s)>> \o Tail(s)
      BY <3>1, FirstLabel
    <3> QED BY <3>2
  <2>2. Tail(s) \in Seq(Seq(Nat))
    <3>1. ShortLabel \subseteq Seq(Nat)
      BY DEF ShortLabel
    <3> QED BY <2>1, <3>1, SeqMonotonic
  <2>3. Holds(Tail(s))
    BY <1>5, <2>1
  <2>4. ASSUME NEW i \in 1 .. L + 1, Agrees(body, i, EncodedName(s)) PROVE Parsed(body, i, s)
    <3> DEFINE h == Head(s)
               t == Tail(s)
    <3>1. Agrees(body, i, EncodedName(<<h>> \o t))
      BY <2>1, <2>4
    <3>2. \A j \in 1 .. Len(body) + 1 : Agrees(body, j, EncodedName(t)) => Parsed(body, j, t)
      BY <2>3 DEF Holds
    <3>3. h \in ShortLabel /\ t \in Seq(Seq(Nat)) /\ s = <<h>> \o t
      BY <2>1, <2>2
    <3> HIDE DEF h, t
    <3>4. Parsed(body, i, <<h>> \o t)
      BY <3>1, <3>2, <3>3, LabelComesBack
    <3> QED BY <3>3, <3>4
  <2> QED BY <2>4 DEF Holds
<1>6. Len(name) \in G
  <2>1. Len(name) \in Nat
    BY LenProperties
  <2> HIDE DEF G
  <2> QED BY <1>4, <1>5, <2>1, Upwards
<1>7. Holds(name)
  <2> HIDE DEF Holds
  <2> QED BY <1>6
<1> QED BY <1>7

\* A question that a client writes
WrittenQuestion == {q \in AnyQuestion :
                      /\ q.name \in Seq(ShortLabel)
                      /\ q.type \in Types /\ q.class \in {<<0, 1>>}}

\* Where two bytes stand
LEMMA AgreesOnTwo ==
  ASSUME NEW body, NEW n \in Nat, NEW s, Len(s) = 2, Agrees(body, n, s),
         n + 1 <= Len(body), Len(body) \in Nat
  PROVE  body[n] = s[1] /\ body[n + 1] = s[2]
<1>1. \A i \in 1 .. 2 : n + i - 1 <= Len(body) => body[n + i - 1] = s[i]
  BY DEF Agrees
<1>2. /\ 1 \in 1 .. 2 /\ n + 1 - 1 = n /\ n <= Len(body)
      /\ 2 \in 1 .. 2 /\ n + 2 - 1 = n + 1
  OBVIOUS
<1> QED BY ONLY <1>1, <1>2, n + 1 <= Len(body)

\* Where a question stands, the loop finds it, or gives up if the body ends within
\* it.
LEMMA QuestionComesBack ==
  ASSUME NEW body \in Seq(Nat), NEW done, done.next \in 1 .. Len(body) + 1,
         NEW q \in WrittenQuestion, Agrees(body, done.next, EncodedQuestion(q))
  PROVE  LET next == done.next + Len(EncodedQuestion(q))
         IN  NextQuestion(body, done) =
               IF next <= Len(body) + 1
               THEN [questions |-> Append(done.questions, q), next |-> next] ELSE GivenUp
<1> DEFINE L == Len(body)
           at == done.next
           e == Len(EncodedName(q.name))
           n == at + e
           name == parseDomainName(body, at)
<1>1. /\ L \in Nat /\ at \in 1 .. L + 1 /\ at # -1 /\ at \in Nat
  BY LenProperties
<1>2. /\ q \in AnyQuestion /\ q.name \in Seq(ShortLabel) /\ q.name \in Seq(Seq(Nat))
      /\ q.type \in Seq(Nat) /\ q.class \in Seq(Nat)
      /\ q.type \in {<<0, 1>>, <<1, 0>>} /\ q.class = <<0, 1>>
  BY DEF WrittenQuestion, AnyQuestion, Types
<1>3. /\ Len(q.type) = 2 /\ q.type = <<q.type[1], q.type[2]>>
      /\ Len(q.class) = 2 /\ q.class = <<q.class[1], q.class[2]>>
  BY <1>2
<1>4. /\ EncodedName(q.name) \in Seq(Nat) /\ e \in Nat /\ e >= 1
      /\ q.type \o q.class \in Seq(Nat)
      /\ Len(EncodedQuestion(q)) = e + 4
  <2>1. EncodedName(q.name) \in Seq(Nat) /\ e >= 1
    BY <1>2, EncodedNameType
  <2>2. e \in Nat
    BY <2>1, LenProperties
  <2>3. /\ q.type \o q.class \in Seq(Nat)
        /\ Len(q.type \o q.class) = Len(q.type) + Len(q.class)
        /\ Len(EncodedQuestion(q)) = e + Len(q.type \o q.class)
    BY <1>2, EncodedQuestionType
  <2> QED BY <1>3, <2>1, <2>2, <2>3
<1>5. /\ Agrees(body, at, EncodedName(q.name)) /\ Agrees(body, n, q.type)
      /\ Agrees(body, n + 2, q.class)
  <2>1. Agrees(body, at, EncodedName(q.name)) /\ Agrees(body, n, q.type \o q.class)
    BY <1>1, <1>2, <1>4, AgreesInParts DEF EncodedQuestion
  <2>2. n \in Nat
    BY <1>1, <1>4
  <2> HIDE DEF n
  <2>3. Agrees(body, n, q.type) /\ Agrees(body, n + 2, q.class)
    BY <1>2, <1>3, <2>1, <2>2, AgreesInParts
  <2> QED BY <2>1, <2>3
<1>6. Parsed(body, at, q.name)
  <2> HIDE DEF at
  <2> QED BY <1>1, <1>2, <1>5, NamesComeBack
<1>7. CASE n + 4 <= L + 1
  <2>1. n <= L + 1 /\ n \in 1 .. L /\ n + 3 <= L /\ n # -1 /\ n \in Nat
    <3> HIDE DEF at, e, L
    <3> QED BY <1>1, <1>4, <1>7
  <2>2. name = [labels |-> q.name, next |-> n]
    BY <1>6, <2>1 DEF Parsed
  <2>3. name.labels = q.name /\ name.next = n
    BY <2>2
  <2>4. body[n] = q.type[1] /\ body[n + 1] = q.type[2]
    <3>1. n + 1 <= L /\ Len(q.type) = 2 /\ Agrees(body, n, q.type)
      <4> HIDE DEF n
      <4> QED BY <1>3, <1>5, <2>1
    <3> HIDE DEF n
    <3> QED BY <1>1, <2>1, <3>1, AgreesOnTwo
  <2>5. body[n + 2] = q.class[1] /\ body[n + 2 + 1] = q.class[2]
    <3> DEFINE m == n + 2
    <3>1. m \in Nat /\ m + 1 <= L
      <4> HIDE DEF n, L
      <4> QED BY ONLY <2>1 DEF m
    <3>2. Len(q.class) = 2 /\ Agrees(body, m, q.class)
      <4> HIDE DEF n
      <4> QED BY <1>3, <1>5
    <3> HIDE DEF m
    <3>3. body[m] = q.class[1] /\ body[m + 1] = q.class[2]
      BY <1>1, <3>1, <3>2, AgreesOnTwo
    <3> QED BY <3>3 DEF m
  <2>6. Pair(body, n) = q.type /\ Pair(body, n + 2) = q.class
    BY <1>3, <2>4, <2>5 DEF Pair
  <2>7. Complete(body, name)
    BY <2>1, <2>3 DEF Complete
  <2>8. NextQuestion(body, done) = Found(body, done, name, name.next + 4)
    BY <1>1, <2>7 DEF NextQuestion
  <2>9. Found(body, done, name, name.next + 4) =
          [questions |-> Append(done.questions, [name |-> q.name, type |-> q.type,
                                                 class |-> q.class]),
           next |-> n + 4]
    BY <2>3, <2>6 DEF Found
  <2>10. q = [name |-> q.name, type |-> q.type, class |-> q.class]
    BY <1>2 DEF AnyQuestion
  <2>11. at + Len(EncodedQuestion(q)) = n + 4
    <3> HIDE DEF at, e
    <3> QED BY <1>1, <1>4
  <2> HIDE DEF name, n, at
  <2>12. NextQuestion(body, done) = [questions |-> Append(done.questions, q), next |-> n + 4]
    BY <2>8, <2>9, <2>10
  <2> QED BY <1>7, <2>11, <2>12 DEF at
<1>8. CASE ~(n + 4 <= L + 1)
  <2>1. ~Complete(body, name)
    <3>1. CASE n <= L + 1
      <4>1. name = [labels |-> q.name, next |-> n]
        BY <1>6, <3>1 DEF Parsed
      <4>2. name.next = n
        BY <4>1
      <4>3. ~(n + 3 <= L)
        BY <1>1, <1>4, <1>8
      <4> HIDE DEF name, n
      <4> QED BY <4>2, <4>3 DEF Complete
    <3>2. CASE ~(n <= L + 1)
      <4>1. name.next \in {-1, L + 1}
        BY <1>6, <3>2 DEF Parsed
      <4> HIDE DEF name
      <4> QED BY <1>1, <4>1 DEF Complete
    <3> QED BY <3>1, <3>2
  <2>2. NextQuestion(body, done) = GivenUp
    BY <2>1 DEF NextQuestion
  <2>3. ~(at + Len(EncodedQuestion(q)) <= L + 1)
    <3> HIDE DEF at, e, L
    <3> QED BY <1>1, <1>4, <1>8
  <2> QED BY <2>2, <2>3
<1> QED BY <1>7, <1>8

\* The first questions of several, and one more
LEMMA OneQuestionMore ==
  ASSUME NEW qs \in Seq(WrittenQuestion), NEW n \in Nat, n < Len(qs)
  PROVE  LET p == SubSeq(qs, 1, n)
             q == qs[n + 1]
         IN  /\ q \in WrittenQuestion
             /\ SubSeq(qs, 1, n + 1) = Append(p, q)
             /\ Encoded(p) \in Seq(Nat) /\ Len(Encoded(p)) \in Nat
             /\ EncodedQuestion(q) \in Seq(Nat) /\ Len(EncodedQuestion(q)) \in Nat
             /\ Encoded(SubSeq(qs, 1, n + 1)) = Encoded(p) \o EncodedQuestion(q)
             /\ Len(Encoded(SubSeq(qs, 1, n + 1)))
                  = Len(Encoded(p)) + Len(EncodedQuestion(q))
<1> DEFINE p == SubSeq(qs, 1, n)
           q == qs[n + 1]
<1>1. Len(qs) \in Nat /\ n + 1 \in 1 .. Len(qs) /\ 1 \in 1 .. Len(qs) /\ n + 1 \in 1 .. n + 1
  BY LenProperties
<1>2. q \in WrittenQuestion
  BY <1>1, ElementOfSeq
<1>3. p \in Seq(WrittenQuestion)
  <2>1. \A i \in 1 .. n : qs[i] \in WrittenQuestion
    BY <1>1, ElementOfSeq
  <2> QED BY <2>1, SubSeqProperties
<1>4. SubSeq(qs, 1, n + 1) = p \o <<q>>
  <2> DEFINE m == n + 1
  <2>1. m \in 1 .. Len(qs) /\ m - 1 = n
    BY <1>1
  <2> HIDE DEF m
  <2>2. SubSeq(qs, 1, m) = SubSeq(qs, 1, m - 1) \o <<qs[m]>>
    BY <1>1, <2>1, SubSeqRecursiveSecond
  <2> QED BY <2>1, <2>2 DEF m
<1> HIDE DEF p, q
<1>5. SubSeq(qs, 1, n + 1) = Append(p, q)
  BY <1>2, <1>3, <1>4, AppendIsConcat
<1>6. p \in Seq(AnyQuestion) /\ q \in AnyQuestion
  <2>1. WrittenQuestion \subseteq AnyQuestion
    BY DEF WrittenQuestion
  <2> QED BY <1>2, <1>3, <2>1, SeqMonotonic
<1>7. /\ Encoded(p) \in Seq(Nat) /\ Len(Encoded(p)) \in Nat
      /\ EncodedQuestion(q) \in Seq(Nat)
      /\ Encoded(Append(p, q)) = Encoded(p) \o EncodedQuestion(q)
  BY <1>6, EncodedType, EncodedQuestionType, EncodedAppend
<1>8. Len(EncodedQuestion(q)) \in Nat
  BY <1>7, LenProperties
<1>9. Len(Encoded(Append(p, q))) = Len(Encoded(p)) + Len(EncodedQuestion(q))
  BY <1>7, ConcatProperties
<1> QED BY <1>2, <1>5, <1>7, <1>8, <1>9 DEF p, q

\* A written message gives its questions if it came whole, and nothing if it did
\* not.
LEMMA MessagesComeBack ==
  ASSUME NEW qs \in Seq(WrittenQuestion), NEW cut \in 0 .. Len(Encoded(qs)), NEW msg,
         msg = [head |-> HeaderSize, qdcount |-> Len(qs), body |-> SubSeq(Encoded(qs), 1, cut)]
  PROVE  ParseDNS(msg) = IF qs # <<>> /\ cut = Len(Encoded(qs)) THEN qs ELSE Nil
<1> DEFINE E == Encoded(qs)
           N == Len(qs)
           body == SubSeq(E, 1, cut)
           F(n) == Encoded(SubSeq(qs, 1, n))
           len(n) == Len(F(n))
<1>1. N \in Nat /\ E \in Seq(Nat) /\ Len(E) \in Nat /\ cut \in Nat /\ cut <= Len(E)
  <2>1. WrittenQuestion \subseteq AnyQuestion
    BY DEF WrittenQuestion
  <2>2. qs \in Seq(AnyQuestion)
    BY <2>1, SeqMonotonic
  <2>3. E \in Seq(Nat) /\ Len(E) \in Nat
    BY <2>2, EncodedType
  <2> HIDE DEF E
  <2> QED BY <2>3, LenProperties DEF E
<1>2. /\ body \in Seq(Nat) /\ Len(body) = cut
      /\ \A i \in 1 .. cut : body[i] = E[i]
  <2> HIDE DEF E
  <2>1. \A i \in 1 .. cut : E[i] \in Nat
    BY <1>1, ElementOfSeq
  <2>2. 1 \in Int /\ cut \in Int /\ (IF 1 <= cut THEN cut - 1 + 1 ELSE 0) = cut
        /\ cut - 1 + 1 = cut
    BY <1>1
  <2>3. /\ body \in Seq(Nat) /\ Len(body) = IF 1 <= cut THEN cut - 1 + 1 ELSE 0
        /\ \A i \in 1 .. cut - 1 + 1 : body[i] = E[1 + i - 1]
    BY <2>1, <2>2, SubSeqProperties
  <2>4. \A i \in 1 .. cut : 1 + i - 1 = i
    OBVIOUS
  <2> HIDE DEF body
  <2> QED BY <2>2, <2>3, <2>4
<1>3. msg.head = HeaderSize /\ msg.qdcount = N /\ msg.body = body
  OBVIOUS
<1> HIDE DEF body
<1>4. F(N) = E
  BY SubSeqFull
<1>5. ASSUME NEW n \in Nat, n < N
      PROVE  /\ qs[n + 1] \in WrittenQuestion
             /\ SubSeq(qs, 1, n + 1) = Append(SubSeq(qs, 1, n), qs[n + 1])
             /\ F(n) \in Seq(Nat) /\ len(n) \in Nat
             /\ EncodedQuestion(qs[n + 1]) \in Seq(Nat)
             /\ Len(EncodedQuestion(qs[n + 1])) \in Nat
             /\ F(n + 1) = F(n) \o EncodedQuestion(qs[n + 1])
             /\ len(n + 1) = len(n) + Len(EncodedQuestion(qs[n + 1]))
  BY <1>5, OneQuestionMore
<1> HIDE DEF E, F
<1>6. \A n \in 0 .. N : Agrees(body, 1, F(n))
  <2> DEFINE G == {k \in Nat : k <= N => Agrees(body, 1, F(N - k))}
  <2>1. 0 \in G
    <3>1. \A i \in 1 .. Len(E) : 1 + i - 1 = i /\ (i <= cut => i \in 1 .. cut)
      BY <1>1
    <3>2. Agrees(body, 1, E)
      BY <1>1, <1>2, <3>1 DEF Agrees
    <3>3. N - 0 = N
      BY <1>1
    <3> QED BY <1>4, <3>2, <3>3
  <2>2. ASSUME NEW k \in Nat, k \in G PROVE k + 1 \in G
    <3> SUFFICES ASSUME k + 1 <= N PROVE Agrees(body, 1, F(N - (k + 1)))
      OBVIOUS
    <3> DEFINE n == N - (k + 1)
    <3>1. n \in Nat /\ n < N /\ n + 1 = N - k /\ k <= N
      BY <1>1
    <3>2. Agrees(body, 1, F(N - k))
      BY <2>2, <3>1
    <3> HIDE DEF n
    <3>3. Agrees(body, 1, F(n) \o EncodedQuestion(qs[n + 1]))
      BY <1>5, <3>1, <3>2
    <3>4. F(n) \in Seq(Nat) /\ EncodedQuestion(qs[n + 1]) \in Seq(Nat)
      BY <1>5, <3>1
    <3>5. Agrees(body, 1, F(n))
      BY <1>2, <3>3, <3>4, AgreesInParts
    <3> QED BY <3>5 DEF n
  <2>3. ASSUME NEW n \in 0 .. N PROVE Agrees(body, 1, F(n))
    <3> DEFINE k == N - n
    <3>1. k \in Nat /\ k <= N /\ N - k = n
      BY <1>1
    <3>2. k \in G
      <4> HIDE DEF G, k
      <4> QED BY <2>1, <2>2, <3>1, Upwards
    <3> QED BY <3>1, <3>2
  <2> QED BY <2>3
<1>7. PICK A : /\ Loop(A, msg)
               /\ ParseDNS(msg) = IF \/ msg.head < HeaderSize \/ msg.qdcount = 0
                                     \/ A[msg.qdcount].next = -1
                                  THEN Nil ELSE A[msg.qdcount].questions
  BY <1>1, <1>3, LoopIsRun
<1>8. A[0] = Begun /\ \A n \in Nat : n < N => A[n + 1] = NextQuestion(body, A[n])
  BY <1>3, <1>7 DEF Loop
<1> DEFINE Done(n) == A[n] = IF len(n) <= cut
                             THEN [questions |-> SubSeq(qs, 1, n), next |-> 1 + len(n)]
                             ELSE GivenUp
           G == {n \in Nat : n <= N => Done(n)}
<1>9. Done(0)
  <2>1. SubSeq(qs, 1, 0) = <<>>
    BY SubSeqEmpty
  <2>2. Encoded(<<>>) = <<>>
    <3>1. [i \in DOMAIN <<>> |-> EncodedQuestion(<<>>[i])] = <<>>
      OBVIOUS
    <3>2. FlattenSeq(<<>>) = <<>>
      BY DEF FlattenSeq
    <3> QED BY <3>1, <3>2 DEF Encoded
  <2>3. len(0) = 0
    <3>1. F(0) = <<>>
      BY <2>1, <2>2 DEF F
    <3>2. Len(<<>>) = 0
      OBVIOUS
    <3> QED BY <3>1, <3>2
  <2> HIDE DEF len
  <2> QED BY <1>1, <1>8, <2>1, <2>3 DEF Begun
<1>10. ASSUME NEW n \in Nat, n < N, Done(n) PROVE Done(n + 1)
  <2> DEFINE q == qs[n + 1]
             done == A[n]
             e == Len(EncodedQuestion(q))
  <2>1. A[n + 1] = NextQuestion(body, done)
    BY <1>8, <1>10
  <2>2. /\ q \in WrittenQuestion
        /\ SubSeq(qs, 1, n + 1) = Append(SubSeq(qs, 1, n), q)
        /\ F(n) \in Seq(Nat) /\ len(n) \in Nat
        /\ EncodedQuestion(q) \in Seq(Nat) /\ e \in Nat
        /\ F(n + 1) = F(n) \o EncodedQuestion(q)
        /\ len(n + 1) = len(n) + e
    BY <1>5, <1>10
  <2>3. CASE len(n) <= cut
    <3>1. done = [questions |-> SubSeq(qs, 1, n), next |-> 1 + len(n)]
      BY <1>10, <2>3
    <3>2. done.questions = SubSeq(qs, 1, n) /\ done.next = 1 + len(n)
      BY <3>1
    <3>3. done.next \in 1 .. Len(body) + 1
      <4>1. len(n) \in Nat /\ Len(body) = cut /\ cut \in Nat
        BY <1>1, <1>2, <2>2
      <4> HIDE DEF len, done
      <4> QED BY <2>3, <3>2, <4>1
    <3>4. Agrees(body, 1 + len(n), EncodedQuestion(q))
      <4>1. n + 1 \in 0 .. N
        BY <1>1, <1>10
      <4>2. Agrees(body, 1, F(n + 1))
        BY <1>6, <4>1
      <4>3. Agrees(body, 1, F(n) \o EncodedQuestion(q))
        BY <2>2, <4>2
      <4> HIDE DEF q
      <4> QED BY <1>2, <2>2, <4>3, AgreesInParts
    <3> DEFINE next == done.next + e
    <3> HIDE DEF q, done
    <3>5. NextQuestion(body, done) =
            IF next <= Len(body) + 1
            THEN [questions |-> Append(done.questions, q), next |-> next] ELSE GivenUp
      BY <1>2, <2>2, <3>2, <3>3, <3>4, QuestionComesBack
    <3> HIDE DEF len, e
    <3>6. next = 1 + len(n + 1) /\ (next <= Len(body) + 1 <=> len(n + 1) <= cut)
      <4>1. /\ len(n) \in Nat /\ e \in Nat /\ Len(body) = cut /\ cut \in Nat
            /\ len(n + 1) = len(n) + e /\ done.next = 1 + len(n)
        BY <1>1, <1>2, <2>2, <3>2
      <4>2. \A a, b, c \in Nat : /\ (1 + a) + b = 1 + (a + b)
                                 /\ (1 + (a + b) <= c + 1 <=> a + b <= c)
        OBVIOUS
      <4>3. next = 1 + (len(n) + e)
        BY <4>1, <4>2
      <4> HIDE DEF next
      <4> QED BY <4>1, <4>2, <4>3
    <3> HIDE DEF next
    <3> QED BY <2>1, <2>2, <3>2, <3>5, <3>6
  <2>4. CASE ~(len(n) <= cut)
    <3>1. done = GivenUp
      BY <1>10, <2>4
    <3>2. NextQuestion(body, GivenUp) = GivenUp
      BY DEF NextQuestion, GivenUp
    <3>3. ~(len(n + 1) <= cut)
      <4> HIDE DEF len, e
      <4> QED BY <1>1, <2>2, <2>4
    <3> HIDE DEF len
    <3> QED BY <2>1, <3>1, <3>2, <3>3
  <2> QED BY <2>3, <2>4
<1>11. Done(N)
  <2>1. 0 \in G /\ \A n \in Nat : n \in G => n + 1 \in G
    <3> HIDE DEF Done
    <3> QED BY <1>1, <1>9, <1>10
  <2>2. N \in G
    <3> HIDE DEF G, N
    <3> QED BY <1>1, <2>1, Upwards
  <2> QED BY <1>1, <2>2
<1>12. SubSeq(qs, 1, N) = qs
  BY SubSeqFull
<1>13. len(N) = Len(E)
  BY <1>4
<1>14. N = 0 <=> qs = <<>>
  BY EmptySeq
<1>15. ~(HeaderSize < HeaderSize)
  BY DEF HeaderSize
<1>16. ParseDNS(msg) = IF N = 0 \/ A[N].next = -1 THEN Nil ELSE A[N].questions
  <2> HIDE DEF N
  <2> QED BY <1>3, <1>7, <1>15
<1>17. CASE cut = Len(E)
  <2>1. len(N) <= cut
    BY <1>1, <1>13, <1>17
  <2>2. A[N] = [questions |-> qs, next |-> 1 + len(N)]
    BY <1>11, <1>12, <2>1
  <2>3. 1 + len(N) # -1
    BY <1>1, <1>13
  <2> HIDE DEF N, len
  <2>4. A[N].questions = qs /\ A[N].next # -1
    BY <2>2, <2>3
  <2> QED BY <1>14, <1>16, <1>17, <2>4 DEF E
<1>18. CASE cut # Len(E)
  <2>1. ~(len(N) <= cut)
    BY <1>1, <1>13, <1>18
  <2>2. A[N] = GivenUp
    BY <1>11, <2>1
  <2>3. A[N].next = -1
    BY <2>2 DEF GivenUp
  <2> QED BY <1>16, <1>18, <2>3 DEF E
<1> QED BY <1>17, <1>18
-----------------------------------------------------------------------------
\* What a stage knows of the payload behind it
PayloadFollowed ==
  /\ input.kind = "written" => /\ input.of \in Written
                               /\ input.message = MessageOf(input.of)
  /\ input.kind = "arbitrary" => input.message \in Arbitrary
  /\ stage = "parsed" => /\ input.kind \in {"written", "arbitrary"}
                         /\ output = ParseDNS(input.message)

\* Every step follows its payload.
LEMMA PayloadFollowedAlways == Spec => []PayloadFollowed
<1>1. Init => PayloadFollowed
  <2> SUFFICES ASSUME Init PROVE PayloadFollowed
    OBVIOUS
  <2>1. stage # "parsed"
    BY DEF Init
  <2>2. CASE \E f \in Frame, h \in Hosts : input = [kind |-> "frame", frame |-> f, host |-> h]
    BY <2>1, <2>2 DEF PayloadFollowed
  <2>3. CASE \E w \in Written : input = [kind |-> "written", of |-> w, message |-> MessageOf(w)]
    BY <2>1, <2>3 DEF PayloadFollowed
  <2>4. CASE \E m \in Arbitrary : input = [kind |-> "arbitrary", message |-> m]
    BY <2>1, <2>4 DEF PayloadFollowed
  <2> QED BY <2>2, <2>3, <2>4 DEF Init
<1>2. PayloadFollowed /\ [Next]_vars => PayloadFollowed'
  <2> SUFFICES ASSUME PayloadFollowed, [Next]_vars PROVE PayloadFollowed'
    OBVIOUS
  <2>1. CASE Ignore
    BY <2>1 DEF PayloadFollowed, Ignore, Reads
  <2>2. CASE Probe
    BY <2>2 DEF PayloadFollowed, Probe, Reads
  <2>3. CASE Parse
    BY <2>3 DEF PayloadFollowed, Parse
  <2>4. CASE ParsePayload
    BY <2>4 DEF PayloadFollowed, ParsePayload, Reads
  <2>5. CASE UNCHANGED vars
    BY <2>5 DEF PayloadFollowed, vars
  <2> QED BY <2>1, <2>2, <2>3, <2>4, <2>5 DEF Next
<1> QED BY <1>1, <1>2, PTL DEF Spec

\* A sequence of bounded length is a sequence.
LEMMA SeqOfIsSeq == ASSUME NEW S, NEW n \in Nat PROVE SeqOf(S, n) \subseteq Seq(S)
<1> SUFFICES ASSUME NEW s \in SeqOf(S, n) PROVE s \in Seq(S)
  OBVIOUS
<1>1. PICK m \in 0 .. n : s \in [1 .. m -> S]
  BY DEF SeqOf
<1>2. m \in Nat
  OBVIOUS
<1> QED BY <1>1, <1>2, SeqDef

\* What a client writes is questions with names of short labels.
LEMMA WrittenType ==
  ASSUME NEW w \in Written
  PROVE  /\ w.questions \in Seq(WrittenQuestion)
         /\ w.cut \in 0 .. Len(Encoded(w.questions))
         /\ MessageOf(w) = [head |-> HeaderSize, qdcount |-> Len(w.questions),
                            body |-> SubSeq(Encoded(w.questions), 1, w.cut)]
         /\ MessageOf(w).qdcount \in Nat /\ MessageOf(w).body \in Seq(Nat)
<1>1. Labels \subseteq ShortLabel
  <2> SUFFICES ASSUME NEW label \in Labels PROVE label \in ShortLabel
    OBVIOUS
  <2>1. label \in Seq(Byte) /\ Len(label) \in 1 .. 63
    BY LabelsAssumption
  <2>2. Byte \subseteq Nat
    BY DEF Byte
  <2>3. label \in Seq(Nat)
    BY <2>1, <2>2, SeqMonotonic
  <2> QED BY <2>1, <2>3 DEF ShortLabel
<1>2. ASSUME NEW q \in Question PROVE q \in WrittenQuestion
  <2>1. /\ q.name \in SeqOf(Labels, MaxLabels) /\ q.type \in Types /\ q.class \in {<<0, 1>>}
        /\ q = [name |-> q.name, type |-> q.type, class |-> q.class]
    BY DEF Question
  <2>2. q.name \in Seq(Labels)
    BY <2>1, SeqOfIsSeq, BodiesAssumption
  <2>3. q.name \in Seq(ShortLabel)
    BY <1>1, <2>2, SeqMonotonic
  <2>4. q.name \in Seq(Seq(Nat))
    <3>1. ShortLabel \subseteq Seq(Nat)
      BY DEF ShortLabel
    <3> QED BY <2>3, <3>1, SeqMonotonic
  <2>5. q.type \in Seq(Nat) /\ q.class \in Seq(Nat)
    <3>1. <<0, 1>> \in Seq(Nat) /\ <<1, 0>> \in Seq(Nat)
      OBVIOUS
    <3> QED BY <2>1, <3>1 DEF Types
  <2> QED BY <2>1, <2>3, <2>4, <2>5 DEF WrittenQuestion, AnyQuestion
<1>3. PICK qs \in SeqOf(Question, MaxQuestions) :
             w \in {[questions |-> qs, cut |-> n] : n \in 0 .. Len(Encoded(qs))}
  BY DEF Written
<1>4. w.questions = qs /\ w.cut \in 0 .. Len(Encoded(qs))
  BY <1>3
<1>5. qs \in Seq(Question)
  BY SeqOfIsSeq, BodiesAssumption
<1>6. qs \in Seq(WrittenQuestion)
  <2>1. Question \subseteq WrittenQuestion
    BY <1>2
  <2> QED BY <1>5, <2>1, SeqMonotonic
<1>7. Encoded(qs) \in Seq(Nat)
  <2>1. WrittenQuestion \subseteq AnyQuestion
    BY DEF WrittenQuestion
  <2>2. qs \in Seq(AnyQuestion)
    BY <1>6, <2>1, SeqMonotonic
  <2> QED BY <2>2, EncodedType
<1>8. SubSeq(Encoded(qs), 1, w.cut) \in Seq(Nat)
  <2>1. Len(Encoded(qs)) \in Nat
    BY <1>7, LenProperties
  <2>2. \A i \in 1 .. w.cut : Encoded(qs)[i] \in Nat
    BY <1>4, <1>7, <2>1, ElementOfSeq
  <2>3. w.cut \in Int
    BY <1>4
  <2> QED BY <2>2, <2>3, SubSeqProperties
<1>9. Len(qs) \in Nat
  BY <1>6, LenProperties
<1> QED BY <1>4, <1>6, <1>8, <1>9 DEF MessageOf

\* For every set of labels and every number of questions, ParseDNS
\* (internal/parser/dns.go:23-69) gives the questions of a message that came
\* whole, and nothing for one that was cut off anywhere.
THEOREM MessagesArrive == Spec => []QuestionsComeBack
<1>1. PayloadFollowed => QuestionsComeBack
  <2> SUFFICES ASSUME PayloadFollowed, stage = "parsed", input.kind = "written"
               PROVE  output = IF /\ input.of.questions # <<>>
                                  /\ input.of.cut = Len(Encoded(input.of.questions))
                               THEN input.of.questions ELSE Nil
    BY DEF QuestionsComeBack
  <2> DEFINE w == input.of
  <2>1. w \in Written /\ output = ParseDNS(MessageOf(w))
    BY DEF PayloadFollowed
  <2> HIDE DEF w
  <2>2. /\ w.questions \in Seq(WrittenQuestion)
        /\ w.cut \in 0 .. Len(Encoded(w.questions))
        /\ MessageOf(w) = [head |-> HeaderSize, qdcount |-> Len(w.questions),
                           body |-> SubSeq(Encoded(w.questions), 1, w.cut)]
    BY <2>1, WrittenType
  <2>3. ParseDNS(MessageOf(w)) = IF w.questions # <<>> /\ w.cut = Len(Encoded(w.questions))
                                 THEN w.questions ELSE Nil
    BY <2>2, MessagesComeBack
  <2> QED BY <2>1, <2>3 DEF w
<1> QED BY <1>1, PayloadFollowedAlways, PTL

\* However long a body is, and whatever it is made of that begins no pointer, ParseDNS
\* (internal/parser/dns.go:23-114) takes it only if it begins with the announced
\* questions, encoded.
THEOREM NothingElseIsTaken == Spec => []OnlyMessagesAreParsed
<1>1. PayloadFollowed => OnlyMessagesAreParsed
  <2> DEFINE msg == input.message
  <2> SUFFICES ASSUME PayloadFollowed, stage = "parsed", output # Nil,
                      \A i \in DOMAIN msg.body : ~IsPointer(msg.body[i])
               PROVE  /\ msg.head = HeaderSize
                      /\ Len(output) = msg.qdcount
                      /\ BeginsWith(msg.body, Encoded(output))
    BY DEF OnlyMessagesAreParsed
  <2>1. input.kind \in {"written", "arbitrary"} /\ output = ParseDNS(msg)
    BY DEF PayloadFollowed
  <2>2. /\ msg.body \in Seq(Nat) /\ msg.qdcount \in Nat
        /\ msg.head \in {HeaderSize - 1, HeaderSize}
    <3>1. CASE input.kind = "written"
      <4>1. input.of \in Written /\ msg = MessageOf(input.of)
        BY <3>1 DEF PayloadFollowed
      <4> HIDE DEF msg
      <4>2. msg.body \in Seq(Nat) /\ msg.qdcount \in Nat
        BY <4>1, WrittenType
      <4>3. msg.head = HeaderSize
        BY <4>1 DEF MessageOf
      <4> QED BY <4>2, <4>3
    <3>2. CASE input.kind = "arbitrary"
      <4>1. msg \in Arbitrary
        BY <3>2 DEF PayloadFollowed
      <4> HIDE DEF msg
      <4>2. /\ msg.head \in {HeaderSize - 1, HeaderSize} /\ msg.qdcount \in 0 .. MaxQuestions
            /\ msg.body \in SeqOf(Bytewise, MaxBody)
        BY <4>1 DEF Arbitrary
      <4>3. msg.body \in Seq(Bytewise)
        BY <4>2, SeqOfIsSeq, BodiesAssumption
      <4>4. Bytewise \subseteq Nat
        BY BytesAssumption DEF Byte
      <4>5. msg.body \in Seq(Nat)
        BY <4>3, <4>4, SeqMonotonic
      <4>6. msg.qdcount \in Nat
        BY <4>2, BodiesAssumption
      <4> QED BY <4>2, <4>5, <4>6
    <3> QED BY <2>1, <3>1, <3>2
  <2> HIDE DEF msg
  <2>3. /\ ~(msg.head < HeaderSize) /\ Len(ParseDNS(msg)) = msg.qdcount
        /\ BeginsNearly(msg.body, Encoded(ParseDNS(msg)))
    BY <2>1, <2>2, MessagesAreMessages
  <2>4. msg.head = HeaderSize
    BY <2>2, <2>3 DEF HeaderSize
  <2>5. BeginsWith(msg.body, Encoded(output))
    <3> DEFINE code == Encoded(output)
               body == msg.body
    <3>1. /\ Len(code) <= Len(body)
          /\ \A i \in DOMAIN code : body[i] = code[i] \/ (IsPointer(body[i]) /\ code[i] = 0)
      BY <2>1, <2>3 DEF BeginsNearly
    <3>2. DOMAIN code \subseteq DOMAIN body
      <4>1. code \in Seq(Nat)
        BY <2>1, <2>2, <2>3, MessagesAreMessages, EncodedType
      <4>2. DOMAIN code = 1 .. Len(code) /\ Len(code) \in Nat
        BY <4>1, LenProperties
      <4>3. DOMAIN body = 1 .. Len(body) /\ Len(body) \in Nat
        BY <2>2, LenProperties
      <4> HIDE DEF code, body
      <4> QED BY <3>1, <4>2, <4>3
    <3>3. \A i \in DOMAIN body : ~IsPointer(body[i])
      OBVIOUS
    <3> HIDE DEF code, body
    <3>4. BeginsWith(body, code)
      BY <3>1, <3>2, <3>3 DEF BeginsWith
    <3> QED BY <3>4 DEF code, body
  <2> QED BY <2>1, <2>3, <2>4, <2>5
<1> QED BY <1>1, PayloadFollowedAlways, PTL
=============================================================================
