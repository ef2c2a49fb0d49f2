--------------------------- MODULE ContentRewards ---------------------------
(***************************************************************************)
(* Rewards that items bring instead of the research that gives them in     *)
(* the game (memory/rewards.py): per content a byte in the map of          *)
(* unlockables, and per family of levels effects on every species.  The    *)
(* game goes on setting all of them by its own rules, when research        *)
(* completes and when a park loads; a tick sets them back to what the      *)
(* items received so far say.  Contents are found by name, and the names   *)
(* appear in the game one by one; the client works with a snapshot.        *)
(*                                                                         *)
(* Constant-level: operators over a park and what the client remembers,    *)
(* and a formula over all small histories.                                 *)
(***************************************************************************)
EXTENDS Naturals, Sequences, FiniteSets, FiniteSetsExt

CONSTANTS
  Contents,    \* contents of the map of unlockables
  FamilyOf,    \* content -> "named" (has an item of its own), "free" (has no
               \* item), or a family of levels
  LevelOf,     \* content -> level in its family
  AnimalOf,    \* content -> species
  Late,        \* contents that have no name until their research tree loads
  RewardRounds \* bound: events of a history

Families == {"exhibit_enrichment", "supplement", "breeding", "education"}
Animals  == {AnimalOf[c] : c \in Contents}

ASSUME RewardsAssumption ==
  /\ FamilyOf \in [Contents -> Families \cup {"named", "free"}]
  /\ LevelOf \in [Contents -> Nat] /\ Late \subseteq Contents /\ RewardRounds \in Nat
  /\ IsFiniteSet(Contents)

LesserOf(a, b)  == IF a < b THEN a ELSE b
GreaterOf(a, b) == IF a > b THEN a ELSE b
Of(family, set) == {c \in set : FamilyOf[c] = family}

\* BREEDING_RATE in percent; SUPPLEMENT_MAX_TIERS, EDU_MAX_LEVEL.
BreedingRate(n)    == 15 * LesserOf(n, 2)
SupplementTiers(n) == LesserOf(1 + n, 3)
EducationLevel(n)  == LesserOf(n, 3)

-----------------------------------------------------------------------------
(* A park and the client                                                   *)

\* Of the park: names interned, records in the map, their unlocked bytes, the
\* rating counter, the effects per species, what was researched.  Of the
\* client: the names in its snapshot with the number of records it was made
\* at, and the items received.
NewPark == [interned |-> Contents \ Late, map |-> Contents \ Late,
            byte |-> {}, counter |-> 0, rate |-> [a \in Animals |-> 0],
            tiers |-> [a \in Animals |-> 1], panel |-> [a \in Animals |-> 0],
            done |-> {},
            index |-> {}, count |-> Cardinality(Contents) + 1,
            named |-> {}, copies |-> [f \in Families |-> 0]]

-----------------------------------------------------------------------------
(* The names                                                               *)

\* InternRegistry.build_index: every name there is, once per snapshot.
Snapshot(p) == [p EXCEPT !.index = p.interned]

\* Faulty variant of the next: the first snapshot for ever.
FirstSnapshot(p) ==
  IF p.count = Cardinality(Contents) + 1
  THEN [Snapshot(p) EXCEPT !.count = Cardinality(p.map)] ELSE p

\* _maybe_refresh_names: a map with another number of records means new names.
MaybeRefresh(p) ==
  IF Cardinality(p.map) # p.count
  THEN [Snapshot(p) EXCEPT !.count = Cardinality(p.map)] ELSE p

-----------------------------------------------------------------------------
(* The bytes                                                               *)

\* _bookkeep: what the game does when it unlocks, the client does as well.
Bookkeep(p, set) ==
  [p EXCEPT
     !.counter = @ + Cardinality(Of("education", set)),
     !.tiers = [a \in Animals |->
        @[a] + Cardinality({c \in Of("supplement", set) : AnimalOf[c] = a})],
     !.rate = [a \in Animals |->
        GreaterOf(@[a], Max({0} \cup {15 * LevelOf[c] :
                               c \in {d \in Of("breeding", set) : AnimalOf[d] = a}}))]]

\* _flip: only what is locked, and only in the map.
Flip(p, set) == LET new == (set \cap p.map) \ p.byte
                IN  [Bookkeep(p, new) EXCEPT !.byte = @ \cup new]

\* _apply_reward_gate: unlocked exactly when wanted, of what is gated.
ApplyRewardGate(p, gated, wanted) ==
  [Flip(p, gated \cap wanted) EXCEPT !.byte = @ \ (gated \ wanted)]

\* grant, on arrival of an item; a name not found is looked up anew once.
Grant(p, c) == LET q == IF c \in p.index THEN p ELSE Snapshot(p)
               IN  IF c \in q.index THEN Flip(q, {c}) ELSE q

\* reconcile_rewards: the contents that have items of their own.
ReconcileNamed(p) == LET q == MaybeRefresh(p)
                     IN  ApplyRewardGate(q, Of("named", q.index), p.named)

-----------------------------------------------------------------------------
(* The families of levels                                                  *)

\* _family_level_map
LevelMap(p, family) == Of(family, p.index)

\* _sync_effects, _sync_one_effect: per species with a record of the family.
SyncEffects(p, family, levels) ==
  LET n       == p.copies[family]
      animals == {AnimalOf[c] : c \in levels \cap p.map}
  IN  CASE family = "breeding" ->
             [p EXCEPT !.rate = [a \in Animals |-> IF a \in animals THEN BreedingRate(n) ELSE @[a]]]
        [] family = "supplement" ->
             [p EXCEPT !.tiers = [a \in Animals |-> IF a \in animals THEN SupplementTiers(n) ELSE @[a]]]
        [] OTHER -> p

\* _sync_education_counter: the number of set bytes.
SyncEducationCounter(p) == [p EXCEPT !.counter = Cardinality(Of("education", p.byte))]

\* _sync_education_levels: for every record of the store.
SyncEducationLevels(p) ==
  [p EXCEPT !.panel = [a \in Animals |-> EducationLevel(p.copies["education"])]]

\* reconcile_progressive_levels: the n-th copy unlocks level n for everyone.
ReconcileLevels(p, family) ==
  LET q      == MaybeRefresh(p)
      levels == LevelMap(q, family)
      wanted == {c \in levels : LevelOf[c] <= q.copies[family]}
      r      == SyncEffects(ApplyRewardGate(q, levels, wanted), family, levels)
  IN  IF levels = {} THEN q
      ELSE IF family = "education" THEN SyncEducationLevels(SyncEducationCounter(r))
      ELSE r

\* _reconcile_rewards, the step of the tick.
RewardsTick(p) ==
  ReconcileLevels(ReconcileLevels(ReconcileLevels(ReconcileLevels(ReconcileNamed(p),
    "exhibit_enrichment"), "supplement"), "breeding"), "education")

-----------------------------------------------------------------------------
(* Items, and the game (external)                                          *)

\* on_research_reward grants at once; on_progressive_research_reward leaves
\* the families to the tick.
ReceiveNamed(p, c) == Grant([p EXCEPT !.named = @ \cup {c}], c)
ReceiveCopy(p, f)  == [p EXCEPT !.copies[f] = @ + 1]

\* Research completes: its record is there from now on, its name is known.
Complete(p, c) ==
  LET q == [p EXCEPT !.interned = @ \cup {c}, !.map = @ \cup {c}, !.done = @ \cup {c}]
      r == Flip(q, {c})
  IN  IF FamilyOf[c] = "education"
      THEN [r EXCEPT !.panel[AnimalOf[c]] = GreaterOf(@, LevelOf[c])] ELSE r

\* A park loads: everything as research has it, basic contents unlocked.
Load(p) ==
  LET bare == [p EXCEPT !.byte = {}, !.counter = 0, !.rate = [a \in Animals |-> 0],
                        !.tiers = [a \in Animals |-> 1], !.panel = [a \in Animals |-> 0]]
  IN  Flip(bare, p.done \cup Of("named", p.map))

\* The client starts again.
Forget(p) == [p EXCEPT !.index = {}, !.count = Cardinality(Contents) + 1]

RewardEvent(p, e) ==
  CASE e[1] = "complete" -> Complete(p, e[2])
    [] e[1] = "named"    -> ReceiveNamed(p, e[2])
    [] e[1] = "copy"     -> ReceiveCopy(p, e[2])
    [] e[1] = "load"     -> Load(p)
    [] e[1] = "restart"  -> Forget(p)
    [] e[1] = "tick"     -> RewardsTick(p)

RewardEvents == ({"complete"} \X Contents) \cup ({"named"} \X Of("named", Contents))
                \cup ({"copy"} \X Families) \cup ({"load", "restart", "tick"} \X {""})

AfterRewards(history) ==
  LET p[n \in 0..Len(history)] ==
        IF n = 0 THEN NewPark ELSE RewardEvent(p[n - 1], history[n])
  IN  p[Len(history)]

-----------------------------------------------------------------------------
(* Properties                                                              *)

\* A content is unlocked exactly when the items say so; one without an item
\* stays as the game has it.
BytesFollow(p, before) ==
  \A c \in p.map :
    (c \in p.byte) = CASE FamilyOf[c] = "named" -> c \in p.named
                       [] FamilyOf[c] = "free"  -> c \in before.byte
                       [] OTHER                 -> LevelOf[c] <= p.copies[FamilyOf[c]]

HasLevels(p, family, a) == \E c \in Of(family, p.map) : AnimalOf[c] = a

EffectsFollow(p) ==
  /\ \A a \in Animals :
       /\ HasLevels(p, "breeding", a) => p.rate[a] = BreedingRate(p.copies["breeding"])
       /\ HasLevels(p, "supplement", a) => p.tiers[a] = SupplementTiers(p.copies["supplement"])
       /\ HasLevels(p, "education", a) => p.panel[a] = EducationLevel(p.copies["education"])
  /\ Of("education", p.map) # {} => p.counter = Cardinality(Of("education", p.byte))

\* After a tick the rewards in force are those of the items received, and
\* another tick changes nothing: whatever research completed, parks loaded,
\* names appeared and restarts happened before, the side effects of unlocking
\* are not counted twice and nothing else is touched.
RewardsFollow ==
  \A n \in 0..RewardRounds : \A history \in [1..n -> RewardEvents] :
    LET before == AfterRewards(history)
        p      == RewardsTick(before)
    IN  BytesFollow(p, before) /\ EffectsFollow(p) /\ RewardsTick(p) = p
=============================================================================
