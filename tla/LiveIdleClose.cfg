SPECIFICATION LiveSpec
CONSTANTS
  PacketEvents <- OneConversation
  Hosts <- MCHosts
  Ports <- MCPorts
  Domains <- MCDomains
  NoDNS = NoDNS
  NoJob = NoJob
  FlowTimeout = 1
  PacketBufferSize = 2
  ChanCap = 1
  MaxEvents = 4
  MaxClock = 4
PROPERTY LiveOnlyIdleFlowsClose
CHECK_DEADLOCK FALSE
