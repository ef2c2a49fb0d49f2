SPECIFICATION Spec
CONSTANTS
  None = None
  Stops <- GameMainBuild
  FirstStops <- Never
  Races = {}
  MaxUpdates = 3
  MaxShells = 2
  MaxEvents = 4
INVARIANTS
  BackupsVanilla
