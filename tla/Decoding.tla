------------------------------ MODULE Decoding ------------------------------
(***************************************************************************)
(* One packet on its way from bytes to the fields that the flow table is   *)
(* built from: the probe reads its headers (bpf/packet.c), parsePacketEvent *)
(* its record (internal/monitor/monitor.go), processEvent makes addresses  *)
(* of its numbers (internal/model/packet.go) and has a DNS payload parsed  *)
(* (internal/parser/dns.go).  The payload is an input of its own, because  *)
(* no record carries one.                                                  *)
(***************************************************************************)
EXTENDS Headers, DnsParser

CONSTANTS Labels,        \* labels that a name may have
          MaxLabels,     \* how many of them
          MaxQuestions,  \* how many questions a message may have
          Bytewise,      \* bytes that an arbitrary body is made of
          MaxBody        \* how long it may be

Byte == 0 .. 255

\* A label has at most 63 bytes (RFC 1035), so its length is not taken for a
\* pointer, and at least one, or it would end the name.
ASSUME LabelsAssumption ==
  \A label \in Labels : label \in Seq(Byte) /\ Len(label) \in 1 .. 63
ASSUME BytesAssumption == Bytewise \subseteq Byte
ASSUME BodiesAssumption == MaxLabels \in Nat /\ MaxQuestions \in Nat /\ MaxBody \in Nat

VARIABLES input,   \* what came: a frame on a host, or a payload
          stage,   \* how far it is
          output   \* what was made of it

vars == <<input, stage, output>>

None == "none"
Types == {<<0, 1>>, <<1, 0>>}
Question == [name : SeqOf(Labels, MaxLabels), type : Types, class : {<<0, 1>>}]

\* The wire format of a name and of questions (RFC 1035, without compression)
EncodedLabel(label) == <<Len(label)>> \o label
EncodedName(name) == FlattenSeq([i \in DOMAIN name |-> EncodedLabel(name[i])]) \o <<0>>
EncodedQuestion(q) == EncodedName(q.name) \o (q.type \o q.class)
Encoded(questions) == FlattenSeq([i \in DOMAIN questions |-> EncodedQuestion(questions[i])])

\* The payloads that a DNS client writes, possibly cut off by the capture, and
\* payloads of arbitrary bytes
Written == UNION {{[questions |-> qs, cut |-> n] : n \in 0 .. Len(Encoded(qs))} :
                    qs \in SeqOf(Question, MaxQuestions)}
MessageOf(w) == [head |-> HeaderSize, qdcount |-> Len(w.questions),
                 body |-> SubSeq(Encoded(w.questions), 1, w.cut)]
Arbitrary == [head : {HeaderSize - 1, HeaderSize}, qdcount : 0 .. MaxQuestions,
              body : SeqOf(Bytewise, MaxBody)]

Init == /\ \/ \E f \in Frame, h \in Hosts :
                input = [kind |-> "frame", frame |-> f, host |-> h]
           \/ \E w \in Written :
                input = [kind |-> "written", of |-> w, message |-> MessageOf(w)]
           \/ \E m \in Arbitrary : input = [kind |-> "arbitrary", message |-> m]
        /\ stage = "wire" /\ output = None

Reads(kinds) == stage = "wire" /\ input.kind \in kinds /\ UNCHANGED input

\* xdp_probe_func returns without a record,
Ignore == /\ Reads({"frame"}) /\ ~Accepted(input.frame)
          /\ stage' = "ignored" /\ UNCHANGED output

\* or fills one.
Probe == /\ Reads({"frame"}) /\ Accepted(input.frame)
         /\ stage' = "record" /\ output' = Record(input.frame, input.host)

\* readLoop
Parse == /\ stage = "record" /\ stage' = "event"
         /\ output' = parsePacketEvent(output) /\ UNCHANGED input

\* What processEvent does with the payload of a packet that passes its guard
\* (QueriesOf of FlowAggregator).
ParsePayload == /\ Reads({"written", "arbitrary"})
                /\ stage' = "parsed" /\ output' = ParseDNS(input.message)

Next == Ignore \/ Probe \/ Parse \/ ParsePayload

Spec == Init /\ [][Next]_vars
-----------------------------------------------------------------------------
\* A frame with a complete IPv4 header, options included
IsIPv4(f) == f.etherType = "ipv4" /\ f.ihl >= 5 /\ f.len >= 14 + 4 * f.ihl

\* The frame's transport header is there.
IsWhole(f) == LET size == IF f.protocol = "tcp" THEN 20 ELSE 8
              IN  f.protocol # "other" /\ f.len >= 14 + 4 * f.ihl + size

\* On a little-endian host a record is made of exactly the complete IPv4
\* packets, and its event has the packet's total length and its ports, or zeros
\* where the transport header is not complete.
FieldsAreRead ==
  LET f == input.frame
      at == 14 + 4 * f.ihl
  IN  /\ stage = "ignored" => ~IsIPv4(f)
      /\ stage \in {"record", "event"} => IsIPv4(f)
      /\ stage = "event" =>
           /\ output.len = <<Zero, Zero, 16, 17>>
           /\ output.sport \o output.dport =
                IF IsWhole(f) THEN <<at, at + 1, at + 2, at + 3>>
                              ELSE <<Zero, Zero, Zero, Zero>>

\* Where the bytes of each field are in a frame; a port that is not there is zeros.
Places(f) ==
  LET port(at) == IF IsWhole(f) THEN {at, at + 1} ELSE {Zero}
      at == 14 + 4 * f.ihl
  IN  [saddr |-> 26 .. 29, daddr |-> 30 .. 33, len |-> {16, 17, Zero},
       sport |-> port(at), dport |-> port(at + 2)]

\* Whatever the lengths in its headers say, and whatever the order of the host's
\* bytes, a field of a record or of an event has all the bytes of that field of
\* the frame and no other, and none from behind the frame's end.
BytesAreOfTheField ==
  stage \in {"record", "event"} =>
    LET f == input.frame
    IN  \A field \in DOMAIN Places(f) :
          /\ ToSet(output[field]) = Places(f)[field]
          /\ Places(f)[field] \subseteq (0 .. f.len - 1) \cup {Zero}

\* The addresses of a flow lead back to the numbers of the event that opened
\* it, which is how processEvent tells the directions of later packets apart.
AddressesLeadBack ==
  stage = "event" => /\ IPToUint32(SrcIP(output)) = output.saddr
                     /\ IPToUint32(DstIP(output)) = output.daddr

\* The conversions of bpf/packet.c:66-123, internal/monitor/monitor.go:271-310
\* and internal/model/packet.go:128-142 meet: what one writes is what the next
\* takes it for, up to the comparison of internal/monitor/aggregator.go:208.
\* Only the addresses come out reversed (AddressesAreInOrder), and on a big-endian
\* host, which the reader does not expect, every number.
HeadersAreRead ==
  input.kind = "frame" => /\ input.host = "little" => FieldsAreRead
                          /\ BytesAreOfTheField
                          /\ AddressesLeadBack

\* ParseDNS (internal/parser/dns.go:23-69) gives the questions of a message
\* that came whole, and nothing for one that was cut off.
QuestionsComeBack ==
  stage = "parsed" /\ input.kind = "written" =>
    output = IF input.of.questions # <<>> /\ input.of.cut = Len(Encoded(input.of.questions))
             THEN input.of.questions ELSE Nil

\* A sequence of bytes that begins with another
BeginsWith(body, code) ==
  Len(code) <= Len(body) /\ \A i \in DOMAIN code : body[i] = code[i]

\* Of arbitrary bytes, none of which could begin a pointer, ParseDNS
\* (internal/parser/dns.go:23-114) takes only what is a message: what it gives has
\* the announced number of questions, and the body begins with their encoding.
\* With pointers this would fail: parseDomainName skips one of their two bytes.
OnlyMessagesAreParsed ==
  stage = "parsed" /\ output # Nil =>
    LET body == input.message.body
    IN  (\A i \in DOMAIN body : ~IsPointer(body[i])) =>
          /\ input.message.head = HeaderSize
          /\ Len(output) = input.message.qdcount
          /\ BeginsWith(body, Encoded(output))

\* internal/model/packet.go:127 converts addresses "assuming network byte
\* order": what is shown is the address of the IP header.
AddressesAreInOrder == stage = "event" => /\ SrcIP(output) = <<26, 27, 28, 29>>
                                          /\ DstIP(output) = <<30, 31, 32, 33>>
=============================================================================
