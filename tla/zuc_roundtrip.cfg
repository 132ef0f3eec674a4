SPECIFICATION Spec
CONSTANTS
  H = 8
  Workers = {v1}
  Programs <- AllPrograms
  WORDS = 10
  KEY_WORDS = 2
  INIT_ROUNDS = 1
  HEAP = 6
  Contents = {c1}
  Garbage = {g1, g2}
  Junk = Junk
  Zero = Zero
  MaxPkt = 2
INVARIANT
  RoundTrip
