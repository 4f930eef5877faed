SPECIFICATION Spec
CONSTANTS
  Conversations <- MCConversations
  Protos <- MCProtos
  NoId = NoId
  Keys <- MCKeys
  MaxFlows = 2
  MaxPackets = 1
INVARIANT FilterHolds
CHECK_DEADLOCK FALSE
