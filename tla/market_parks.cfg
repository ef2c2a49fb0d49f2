SPECIFICATION Spec
CONSTANTS
  elk = elk
  b1 = b1
  b2 = b2
  b3 = b3
  a1 = a1
  a2 = a2
  None = None
  Species <- OneSpecies
  Blocks <- ThreeBlocks
  Addrs <- TwoAddrs
  Races = {}
  Faults = {"restore"}
  MaxParks = 2
  MaxRuns = 2
SYMMETRY Symmetry
CHECK_DEADLOCK FALSE
INVARIANTS
  NoDangling
  NoForeignFree
  MarkedIsGated
