SPECIFICATION FairSpec
CONSTANTS
  CPUs <- MCCPUs
  NoEvent = NoEvent
  RingCap = 2
  ChanCap = 1
  MaxFrames = 6
INVARIANTS TypeOK CountersFit
PROPERTIES ImplementsLossyPipe RecordsAreHandled ShutdownEndsLoops
CHECK_DEADLOCK FALSE
