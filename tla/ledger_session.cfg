SPECIFICATION Spec
CONSTANTS
  NItems = 4
  Class <- SessionClass
  Owed <- SessionOwed
  Kinds <- OneKind
  Baked = 9
  StartMoney = 4
  WaitMax = 1
  Parks = {"ap", "none"}
  Races = {}
  PlayerMoves <- SpendOrEarn
  MaxConnects = 1
  MaxSaves = 0
  MaxLoads = 2
  MaxMoves = 2
  MaxOutages = 1
CHECK_DEADLOCK FALSE
INVARIANTS
  ExactGrant
PROPERTIES
  GrantSpec
