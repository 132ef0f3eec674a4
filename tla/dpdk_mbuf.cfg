SPECIFICATION FairSpec
CONSTANTS
  Lcores = {l1, l2}
  NoLcore = NoLcore
  Mbufs = {m1, m2, m3}
  NoMbuf = NoMbuf
  BURST_SIZE = 2
  Programs <- EchoPrograms
  MaxRx = 3
INVARIANTS
  TypeOK
  ExclusiveOwner
  NoLeak
  EchoLogConserved
  LogHandleOwned
PROPERTY
  ShutdownReturnsMbufs
