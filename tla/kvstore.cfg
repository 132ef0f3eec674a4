SPECIFICATION Spec
CONSTANTS
  Workers = {w1, w2}
  Keys <- SomeKeys
  Vals = {1, 2}
  NoVal = NoVal
  NoNode = NoNode
  BLOCKS = 2
  Programs <- AllPrograms
  MaxReq = 4
SYMMETRY Symmetry
INVARIANTS
  TypeOK
  NodesExclusive
  PointerGood
PROPERTY
  ImplementsMap
