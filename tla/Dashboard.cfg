SPECIFICATION Spec
CONSTANTS
  Conversations <- MCConversations
  Protos <- MCProtos
  NoId = NoId
  Keys <- MCKeys
  MaxFlows = 3
  MaxPackets = 1
INVARIANTS TypeOK StickySelection DrillIsFrozen
PROPERTIES RowsMatchTable
CHECK_DEADLOCK FALSE
