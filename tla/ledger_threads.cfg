SPECIFICATION Spec
CONSTANTS
  NItems = 2
  Class <- StallClass
  Owed <- StallOwed
  Kinds <- OneKind
  Baked = 9
  StartMoney = 4
  WaitMax = 0
  Parks = {"ap", "none"}
  Races = {"overlap", "save"}
  PlayerMoves <- SpendOrEarn
  MaxConnects = 2
  MaxSaves = 0
  MaxLoads = 0
  MaxMoves = 0
  MaxOutages = 0
CHECK_DEADLOCK FALSE
INVARIANTS
  MarkAcked
  LedgerWithinSent
