SPECIFICATION FairSpec
CONSTANTS
  NItems = 4
  Class <- BehindClass
  Owed <- BehindOwed
  Kinds <- OneKind
  Baked = 9
  StartMoney = 4
  WaitMax = 1
  Parks = {"ap", "none"}
  Races = {}
  PlayerMoves <- SpendOrEarn
  MaxConnects = 3
  MaxSaves = 1
  MaxLoads = 1
  MaxMoves = 0
  MaxOutages = 1
CHECK_DEADLOCK FALSE
INVARIANTS
  NeverShort
PROPERTIES
  LedgerCatchesUp
  GateCatchesUp
