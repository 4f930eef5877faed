SPECIFICATION LiveSpec
CONSTANTS
  PacketEvents <- TwoConversations
  Hosts <- MCHosts
  Ports <- MCPorts
  Domains <- MCDomains
  NoDNS = NoDNS
  NoJob = NoJob
  FlowTimeout = 1
  PacketBufferSize = 2
  ChanCap = 1
  MaxEvents = 3
  MaxClock = 3
INVARIANTS OneRowPerFlow CountersNeverAhead
CHECK_DEADLOCK FALSE
