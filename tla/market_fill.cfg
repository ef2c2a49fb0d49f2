SPECIFICATION FairSpec
CONSTANTS
  elk = elk
  boar = boar
  Species <- TwoSpecies
  MinListings = 5
  PerSpecies = 2
  Races = {}
  MaxChanges = 2
  TableKeys <- FiveKeys
  Stranger = 5
  Homes <- FourHomes
  KeyLists <- FiveLists
  Departed <- TwoGone
  MaxKeys = 45875
INVARIANTS
  NoBlockedListing
  SetsFound
PROPERTIES
  Stocked
  WakesStop
