SPECIFICATION Spec
CONSTANTS
  Lcores = {l1, l2}
  NoLcore = NoLcore
  Mbufs = {m1, m2, m3}
  NoMbuf = NoMbuf
  BURST_SIZE = 2
  Programs <- CountedPrograms
  MaxRx = 3
INVARIANT
  FreedIsFree
