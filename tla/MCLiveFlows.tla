---------------------------- MODULE MCLiveFlows ----------------------------
(* One conversation or two, with packets of both directions.                *)
EXTENDS LiveFlows

Event(s, d, sp, dp, pr, n) ==
  [saddr |-> s, daddr |-> d, sport |-> sp, dport |-> dp, proto |-> pr,
   len |-> n, dns |-> NoDNS]

MCHosts == {1, 2}
MCPorts == {0, 7}
MCDomains == {}
OneConversation == {Event(1, 2, 7, 7, 6, 1)}
TwoConversations == OneConversation \cup {Event(2, 1, 0, 0, 1, 1)}
=============================================================================
