SPECIFICATION FairSpec
CONSTANTS
  Lcores = {l1, l2}
  NoLcore = NoLcore
  NbPorts = 2
  BURST_SIZE = 2
  TOT_SIZE_B = 1024
  DATA_NR = 2
  HISTOG_NR = 2
  MSGS_PER_MiB = 2
  INT_HALF = 3
  Programs <- AllPrograms
  Packets <- MCPackets
  MaxRx = 3
INVARIANTS
  TypeOK
  HostExact
  CountConserved
  LogConserved
  LogHandleOwned
PROPERTY
  ShutdownCompletes
