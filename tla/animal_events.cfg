\* Births, purchases, moves and releases between the reads of the tick.
SPECIFICATION FairSpec
CONSTANTS
  h1 = h1
  h2 = h2
  known = known
  unknown = unknown
  None = None
  Handles <- mcHandles
  Species <- mcSpecies
  Mapped <- mcMapped
  Ring = 1
  Races <- mcNoRaces
  Faults <- mcFaults
  MaxFaults = 1
  MaxInserts <- mcInserts
  MaxReleases = 2
  MaxMoves = 4
INVARIANTS
  TypeOK
PROPERTIES
  ReportsEvents
  GateOpens
