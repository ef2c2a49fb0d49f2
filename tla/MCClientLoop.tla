---------------------------- MODULE MCClientLoop ----------------------------
(* Instances of ClientLoop, and of the constant-level modules, for TLC.    *)
(* The formulas over histories are read as invariants of the same run:     *)
(* what an enabled tick applies has them (Applies).                        *)
EXTENDS ClientLoop, ContentRewards, ResearchRules, BytePatches, ParkAge, TLC

CONSTANT breed

TwoCells == 1..2

-----------------------------------------------------------------------------
(* Gate lists: species with a permit of their own, with a permit and a     *)
(* tool, with a tool and a facility, and with no item at all.              *)

FiveKeys  == <<"boar", "croc", "elk", "hippo", "okapi">>
FiveGates == [boar  |-> {<<"permit", "boar">>}, elk |-> {<<"permit", "elk">>},
              croc  |-> {<<"permit", "croc">>, <<"tool", "water">>},
              hippo |-> {<<"tool", "water">>, <<"facility", "workshop">>},
              okapi |-> {<<"start", "">>}]

-----------------------------------------------------------------------------
(* Contents, as <<content, family, level, species, has a name at first>>   *)

ContentTable ==
  {<<"toy",     "named",              0, "elk",  TRUE>>,
   <<"duck",    "free",               0, "elk",  TRUE>>,
   <<"frogE1",  "exhibit_enrichment", 1, "frog", TRUE>>,
   <<"frogS1",  "supplement",         1, "frog", TRUE>>,
   <<"frogS2",  "supplement",         2, "frog", FALSE>>,
   <<"frogB1",  "breeding",           1, "frog", TRUE>>,
   <<"elkB2",   "breeding",           2, "elk",  TRUE>>,
   <<"elkEd1",  "education",          1, "elk",  TRUE>>,
   <<"frogEd2", "education",          2, "frog", FALSE>>}

NineContents == {r[1] : r \in ContentTable}
Column(k)    == [c \in NineContents |-> (CHOOSE r \in ContentTable : r[1] = c)[k]]
FamilyColumn == Column(2)
LevelColumn  == Column(3)
AnimalColumn == Column(4)
Unnamed      == {r[1] : r \in {q \in ContentTable : ~q[5]}}

-----------------------------------------------------------------------------
(* Research: a captured species, one whose levels are not in the order of  *)
(* their items, a location, and four gates.                                *)

Entry(cat, token, level, title) == [cat |-> cat, token |-> token, level |-> level, title |-> title]
EightRecords ==
  10 :> Entry(7, "Boar", 0, "BoarVet1") @@
  30 :> Entry(7, "Beetle", 2, "BeetleVet2") @@ 31 :> Entry(7, "Beetle", 1, "BeetleVet1") @@
  20 :> Entry(3, "", 1, "barrier1") @@
  50 :> Entry(3, "", 1, "scenarioblueprint01") @@ 61 :> Entry(3, "", 1, "apbarriergate2") @@
  51 :> Entry(3, "", 1, "guestspawner") @@ 60 :> Entry(3, "", 1, "apgateshelters")
TwoTokens  == [Boar |-> "boar", Beetle |-> "beetle"]
OneCapture == [boar |-> 10]
FiveChecks == {<<"title", "barrier1", 0>>, <<"welfare", "boar", 0>>, <<"welfare", "beetle", 0>>,
               <<"welfare", "beetle", 1>>, <<"welfare", "beetle", 2>>}
OneContent == [shelters |-> "apgateshelters"]

\* Names come for some records first, or for all at once.
TwoReadings == {{10, 20, 51, 60}, DOMAIN EightRecords}

-----------------------------------------------------------------------------
(* The constant-level formulas, as state predicates of this run            *)

Applies(formula) == step = "poll" => formula

\* A walk of the game through a list that the client rewrites in place stops
\* what is blocked before and after, unless it moves down the list, and nothing
\* that is blocked neither before nor after: PermitGate._sync and the trampoline
\* that reads its list.
ScratchNeverGaps == Applies(WalksSound)

\* The species that lack an item are blocked, those that had a handle when the
\* missing ones last changed, and gated research does not run while the gated
\* set is as it was last written, but what a loaded park brought or a failed
\* write left running: _apply_new_items, _reconcile_permits,
\* ResearchGate.reconcile.
GatesHold == Applies(PurchaseInForce /\ ResearchHeld)

\* After a tick the rewards are those of the items received, and a second
\* tick changes nothing: RewardGranter.
RewardsInForce == Applies(RewardsFollow)

\* Locations are reported when, and only when, the player earned them, though
\* the client writes the records that it reads: ResearchReader, the status
\* gates of RewardGranter, _poll_research and _poll_milestones.
ChecksTrue == Applies(ChecksEarned /\ GatesFollow /\ MilestonesShown)

\* The patched functions compute the tier or tool that the items say, after
\* any history of loads, left-over copies, exits and, for the tiers, kills,
\* unless the last write to the copy that runs failed: TerrainGate,
\* ExhibitEnrichmentGate.
PatchesHold == Applies(VariantsCompute /\ TiersFollow /\ ToolsFollow)

\* A zoo counts as new exactly in its first year, whatever parks were open
\* before: ParkAgeReader, whose cache is not dropped when a park is left.
AgeKnown == Applies(AgeFollows)
=============================================================================
