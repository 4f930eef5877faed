-------------------------- MODULE MCFlowAggregator --------------------------
(* Two hosts that talk TCP both ways, and an ICMP packet of another          *)
(* conversation of theirs: three events overflow a history of two,           *)
(* reach "established", and close and reopen a conversation.                 *)
EXTENDS FlowAggregator

\* The reader never sets a payload, so no event carries DNS.
Event(s, d, sp, dp, pr, n) ==
  [saddr |-> s, daddr |-> d, sport |-> sp, dport |-> dp, proto |-> pr,
   len |-> n, dns |-> NoDNS]

MCHosts == {1, 2}
MCPorts == {0, 7, 9}
MCDomains == {}
MCPacketEvents == {Event(1, 2, 7, 9, 6, 1), Event(2, 1, 9, 7, 6, 2), Event(2, 1, 0, 0, 1, 1)}
=============================================================================
