SPECIFICATION FairSpec
CONSTANTS
  None = None
  Stops <- Harmless
  FirstStops <- HarmlessAtFirst
  Races = {}
  MaxUpdates = 3
  MaxShells = 2
  MaxEvents = 7
INVARIANTS
  BackupsVanilla
  FilesCurrent
  InstalledIsWhole
PROPERTIES
  Recovers
