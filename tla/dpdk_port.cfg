SPECIFICATION Spec
CONSTANTS
  PortCounts = {1, 2}
  LcoreIds <- TwoLcores
  MaxQueues = {1, 2, 16}
  Programs <- AllPrograms
INVARIANTS
  TypeOK
  PolledQueueReady
  MissingCallbackRefused
  PortsAlike
