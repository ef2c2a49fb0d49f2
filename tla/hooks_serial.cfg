SPECIFICATION Spec
CONSTANTS
  permit = permit
  release = release
  species = species
  b1 = b1
  b2 = b2
  b3 = b3
  game = game
  Orig = Orig
  NoSlot = NoSlot
  Hooks <- ThreeHooks
  LoopHooks <- ThreeHooks
  Leader = release
  Best <- Further
  Blocks <- ThreeBlocks
  ModuleSize = 7
  Chunk = 3
  SigLength = 2
  MaxMatches = 2
  Cap = 2
  GameThreads <- OneThread
  Races = {}
  MaxRuns = 3
  MaxFaults = 1
CHECK_DEADLOCK FALSE
INVARIANTS
  DetourMapped
  SlotsUnshared
  VerdictsAgree
