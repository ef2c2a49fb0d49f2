---------------------------- MODULE MCMarketFill ----------------------------
(***************************************************************************)
(* Instance of MarketFill for TLC: two species as model values; and the    *)
(* formulas of HashTables, read as an invariant of the run: what a tick is *)
(* about to apply is a set that the game finds.                            *)
(***************************************************************************)
EXTENDS MarketFill, HashTables

CONSTANTS elk, boar

TwoSpecies == {elk, boar}

\* Of the eight slots of the smallest table, those that the keys hash to: the
\* tables of five keys run over its end and have gaps.
FiveKeys   == 0..4
FourHomes  == {0, 4, 6, 7}
FiveLists  == {<<>>, <<0>>, <<3, 1, 3>>, <<0, 1, 2, 3, 4>>, <<4, 0, 4, 2, 0>>}
TwoGone    == {0, 2}

\* The game finds exactly the species of the set that the client builds for
\* the exchange, sets of any size keep a free slot, and the client's own
\* readers of the game's tables agree with each other: build_int32_set,
\* _next_pow2_cap, _lookup_index, iter_roster, _intmap_find.
SetsFound == pc = "apply" => RoomLeft /\ KeysFound /\ SweepsAgree
=============================================================================
