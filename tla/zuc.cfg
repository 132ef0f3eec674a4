SPECIFICATION Spec
CONSTANTS
  H = 8
  Workers = {v1, v2}
  Programs <- AllPrograms
  WORDS = 10
  KEY_WORDS = 2
  INIT_ROUNDS = 1
  HEAP = 6
  Contents = {c1, c2}
  Garbage = {g1}
  Junk = Junk
  Zero = Zero
  MaxPkt = 3
SYMMETRY Symmetry
INVARIANTS
  TypeOK
  SoloKeystream
  HeapConserved
