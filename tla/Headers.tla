------------------------------- MODULE Headers -------------------------------
(***************************************************************************)
(* How the fields of a packet get from the wire to the flow table: the     *)
(* headers that xdp_probe_func of bpf/packet.c reads, the record that it   *)
(* stores, parsePacketEvent of internal/monitor/monitor.go and the         *)
(* addresses of internal/model/packet.go.                                  *)
(*                                                                         *)
(* A byte of the frame is told by its offset, so what becomes of a field   *)
(* says where it was read; Zero is a byte that the probe itself writes.  A *)
(* number is the sequence of its bytes, the most significant one first.    *)
(***************************************************************************)
EXTENDS Integers, SequencesExt

CONSTANTS Lengths,  \* how long a frame may be
          Zero,     \* a byte of value 0
          Hosts     \* the byte orders of the machines: {"little", "big"}

ASSUME LengthsAssumption == Lengths \subseteq Nat
ASSUME ZeroAssumption == Zero \notin Int

\* len is what arrived, ihl is what the header says of its own length (in
\* words of four bytes); an unknown protocol has no ports.
Frame == [len : Lengths, etherType : {"ipv4", "other"}, ihl : 0 .. 15,
          protocol : {"tcp", "udp", "other"}]

\* Bytes from to to of the frame
Bytes(from, to) == [i \in 1 .. to - from + 1 |-> from + i - 1]

EthSize == 14
IPSize == 20
TransportSize == [tcp |-> 20, udp |-> 8]
IPEnd(f) == EthSize + 4 * f.ihl

\* Mutant of HasPorts: the options of the IP header are forgotten.
HasPortsShort(f) == /\ f.protocol \in DOMAIN TransportSize
                    /\ EthSize + IPSize + TransportSize[f.protocol] <= f.len

\* The checks of the probe, in their order; only then it reserves a record.
Accepted(f) == /\ EthSize <= f.len
               /\ f.etherType = "ipv4"
               /\ EthSize + IPSize <= f.len
               /\ f.ihl >= 5
               /\ IPEnd(f) <= f.len

HasPorts(f) == /\ f.protocol \in DOMAIN TransportSize
               /\ IPEnd(f) + TransportSize[f.protocol] <= f.len

\* A number as its host keeps it in memory, and as binary.LittleEndian reads it.
Stored(n, host) == IF host = "little" THEN Reverse(n) ELSE n
LittleEndian(mem) == Reverse(mem)

\* struct packet_event as the probe fills it.  The addresses are copied as
\* they are; what went through bpf_ntohs is a number of the host.
Record(f, host) ==
  LET port(at) == IF HasPorts(f) THEN Bytes(at, at + 1) ELSE <<Zero, Zero>>
  IN  [saddr |-> Bytes(EthSize + 12, EthSize + 15),
       daddr |-> Bytes(EthSize + 16, EthSize + 19),
       sport |-> Stored(port(IPEnd(f)), host),
       dport |-> Stored(port(IPEnd(f) + 2), host),
       len |-> Stored(<<Zero, Zero>> \o Bytes(EthSize + 2, EthSize + 3), host)]

\* parsePacketEvent
parsePacketEvent(r) == [field \in DOMAIN r |-> LittleEndian(r[field])]

\* An address is its four bytes in the order in which they are written.
IPFromUint32(n) == <<n[1], n[2], n[3], n[4]>>

IPToUint32(ip) == <<ip[1], ip[2], ip[3], ip[4]>>

\* The addresses of the flow that the event's packet opens (processEvent)
SrcIP(evt) == IPFromUint32(evt.saddr)
DstIP(evt) == IPFromUint32(evt.daddr)
=============================================================================
