SPECIFICATION FairSpec
CONSTANTS
  Cpus = {c1, c2}
  TOT_SIZE_B = 1024
  DATA_NR = 2
  HISTOG_NR = 1
  MSGS_PER_MiB = 2
  INT_HALF = 3
  BYTE = 2
  Programs <- AllPrograms
  Packets <- MCPackets
  MaxRx = 3
INVARIANTS
  TypeOK
  HostExact
  CountConserved
  AnswersBounded
  TableExact
  OnlyStampsLogged
PROPERTY
  StampsRead
