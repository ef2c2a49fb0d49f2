-------------------------- MODULE MCExhibitRelease --------------------------
(***************************************************************************)
(* Instances of ExhibitRelease for TLC: three animals of two species; the   *)
(* first two are of the same species.                                       *)
(***************************************************************************)
EXTENDS ExhibitRelease

CONSTANTS a1, a2, a3, frog, moth

ThreeAnimals == {a1, a2, a3}
TwoSpecies   == {frog, moth}
Kinds        == [a \in Animals |-> IF a \in {a1, a2} THEN frog ELSE moth]
=============================================================================
