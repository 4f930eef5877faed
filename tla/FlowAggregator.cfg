SPECIFICATION FairSpec
CONSTANTS
  PacketEvents <- MCPacketEvents
  Hosts <- MCHosts
  Ports <- MCPorts
  Domains <- MCDomains
  NoDNS = NoDNS
  NoJob = NoJob
  FlowTimeout = 1
  PacketBufferSize = 2
  ChanCap = 2
  MaxEvents = 4
  MaxClock = 3
INVARIANTS TypeOK NoEventLost TableSound CountersAgree TimesAgree
PROPERTIES ClosedStaysUntouched OnlyIdleFlowsClose ImplementsFlowTable
  IdleFlowsClose EventsAreCounted StopEndsBothLoops
CHECK_DEADLOCK FALSE
