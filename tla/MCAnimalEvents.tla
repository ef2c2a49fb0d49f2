--------------------------- MODULE MCAnimalEvents ---------------------------
(* Instances of AnimalEvents for TLC.                                      *)
EXTENDS AnimalEvents

CONSTANTS h1, h2, known, unknown

mcHandles == {h1, h2}
mcSpecies == {known, unknown}
mcMapped  == {known}
mcInserts == [habitat |-> 2, exhibit |-> 1]
mcNoRaces == {}
mcFaults  == {"install", "drain"}
=============================================================================
