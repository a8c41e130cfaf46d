SPECIFICATION FairSpec
CONSTANTS
  c1 = c1
  c2 = c2
  c3 = c3
  Connections <- ThreeConnections
  Slots <- TwoSlots
  Descriptors <- ThreeDescriptors
  Nobody = nobody
PROPERTIES
  ListenerReturns
CHECK_DEADLOCK FALSE
