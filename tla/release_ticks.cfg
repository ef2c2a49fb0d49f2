SPECIFICATION FairSpec
CONSTANTS
  a1 = a1
  a2 = a2
  a3 = a3
  frog = frog
  moth = moth
  None = None
  Animals <- ThreeAnimals
  Species <- TwoSpecies
  SpeciesOf <- Kinds
  Mapped <- TwoSpecies
  Ring = 2
  GiveUp = 5
  Races = {}
  Faults = {"defs", "ids", "census"}
  MaxFaults = 1
CHECK_DEADLOCK FALSE
INVARIANTS
  TypeOK
  OncePerRelease
PROPERTIES
  EveryReleaseCredited
