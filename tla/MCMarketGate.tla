---------------------------- MODULE MCMarketGate ----------------------------
(***************************************************************************)
(* Instances of MarketGate for TLC: one species; blocks and addresses as   *)
(* model values.                                                          *)
(***************************************************************************)
EXTENDS MarketGate, TLC

CONSTANTS elk, b1, b2, b3, a1, a2

OneSpecies == {elk}
ThreeBlocks == {b1, b2, b3}
TwoAddrs   == {a1, a2}
Symmetry   == Permutations(ThreeBlocks) \cup Permutations(TwoAddrs)
=============================================================================
