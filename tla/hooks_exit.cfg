SPECIFICATION FairSpec
CONSTANTS
  permit = permit
  release = release
  species = species
  b1 = b1
  b2 = b2
  b3 = b3
  game = game
  Orig = Orig
  NoSlot = NoSlot
  Hooks <- TwoHooks
  LoopHooks <- TwoHooks
  Leader = release
  Best <- Further
  Blocks <- ThreeBlocks
  ModuleSize = 7
  Chunk = 3
  SigLength = 2
  MaxMatches = 2
  Cap = 3
  GameThreads = {}
  Races = {"close"}
  MaxRuns = 2
  MaxFaults = 1
CHECK_DEADLOCK FALSE
INVARIANTS
  RecordedIsLive
  NormalExitRestores
PROPERTIES
  HooksHeal
