\* Parks that come and go, one lost connection, the goal among the locations;
\* and the formulas of the constant-level modules.
SPECIFICATION FairSpec
CONSTANTS
  breed = breed
  Cells <- TwoCells
  Kinds = {"ap", "career", "renamed"}
  Races = {}
  MaxLoads = 3
  Locations = {breed}
  Goal = {breed}
  MaxOutages = 1
  MaxCollects = 1
  KeyOrder <- FiveKeys
  GateOf <- FiveGates
  Tools = {"water"}
  Capacity = 3
  Overlap = 1
  Torn = {1}
  Projects = {"a", "b"}
  Rounds = 3
  Contents <- NineContents
  FamilyOf <- FamilyColumn
  LevelOf <- LevelColumn
  AnimalOf <- AnimalColumn
  Late <- Unnamed
  RewardRounds = 3
  Research <- EightRecords
  KeyOf <- TwoTokens
  Captured <- OneCapture
  Located <- FiveChecks
  ApGate <- OneContent
  Legible <- TwoReadings
  Saved = {2, 4}
  Moves = 2
  MaxCopies = 3
  FindCooldown = 1
  PatchRaces = {}
  PatchRounds = 5
  AgeRaces = {}
  AgeRounds = 10
INVARIANTS
  GoalAfterChecks
  ScratchNeverGaps
  GatesHold
  RewardsInForce
  ChecksTrue
  PatchesHold
  AgeKnown
PROPERTIES
  InertElsewhere
  Delivered
  GoalReported
