---------------------------- MODULE ResearchRules ----------------------------
(***************************************************************************)
(* The research of the game, read and written by the same client: from the *)
(* statuses of its records the client tells which locations are done       *)
(* (memory/research.py, memory/triggers.py), and it writes statuses itself *)
(* to bring what items unlock (memory/rewards.py) and to stop research     *)
(* whose facility is not there yet (GateLists).  Milestones, which are     *)
(* read from counters of the park, are at the end.                         *)
(*                                                                         *)
(* Constant-level: operators over a park with what the client remembers,   *)
(* and formulas over all small histories.                                  *)
(***************************************************************************)
EXTENDS GateLists, FiniteSetsExt

CONSTANTS
  Research,   \* research item -> its record: cat, token (its species in the
              \* game, or ""), level, title
  KeyOf,      \* token -> species, for the tokens that data.json names
  Captured,   \* species -> its item of level 0, for those in the table of
              \* the client (SPECIES_WELFARE_ITEM)
  Located,    \* locations: <<"title", title, 0>> or <<"welfare", species, level>>,
              \* level 0 where the location has none
  ApGate,     \* content -> title of its gate, for the mechanic contents
  Legible,    \* sets of records whose names can be read at a time
  Saved,      \* bound: statuses that records have in a park when it is loaded
  Moves       \* bound: events of a history

Complete4 == 4     \* STATUS_COMPLETE, BARRIER_ and FACILITY_BUILDABLE_STATUS
Advanced  == 10    \* ADVANCED_LEVEL
AnimalCat == 7
MechanicCat == 3

ASSUME ResearchAssumption ==
  /\ \A i \in DOMAIN Research : i \in Nat /\ Research[i].level \in Nat
  /\ Saved \subseteq 0..Complete4 /\ Moves \in Nat /\ Legible \subseteq SUBSET DOMAIN Research

-----------------------------------------------------------------------------
(* Reading the records.  A park p has the status of every record, and the  *)
(* records whose names can be resolved (named): none at first.             *)

Standard(token) == {i \in DOMAIN Research : /\ Research[i].cat = AnimalCat
                                            /\ Research[i].token = token
                                            /\ Research[i].level < Advanced}

\* _derive_welfare_item: the lowest item of the handle that names the species.
DerivedItem(p, species) ==
  LET of == {i \in p.named : /\ Research[i].cat = AnimalCat
                             /\ Research[i].token \in DOMAIN KeyOf
                             /\ KeyOf[Research[i].token] = species}
  IN  IF of # {} THEN {Min(of)} ELSE {}

\* _welfare_item: at most one; it stands for the handle of the species.
WelfareItem(p, species) ==
  IF species \in DOMAIN Captured THEN {Captured[species]} \cap DOMAIN Research
  ELSE DerivedItem(p, species)

\* is_welfare_complete
WelfareComplete(p, species) ==
  \E i \in WelfareItem(p, species) :
    LET std == Standard(Research[i].token)
    IN  std # {} /\ \A j \in std : p.status[j] = Complete4

\* is_welfare_level_complete: the record at that place in the order of levels,
\* and of statuses within a level.
WelfareLevelComplete(p, species, level) ==
  \E i \in WelfareItem(p, species) :
    LET std == Standard(Research[i].token)
        UpTo(j) == {k \in std : \/ Research[k].level < Research[j].level
                                \/ /\ Research[k].level = Research[j].level
                                   /\ p.status[k] <= p.status[j]}
        Below(j) == {k \in UpTo(j) : \/ Research[k].level < Research[j].level
                                     \/ p.status[k] < p.status[j]}
    IN  \E j \in std : /\ Cardinality(Below(j)) < level /\ level <= Cardinality(UpTo(j))
                       /\ p.status[j] = Complete4

\* _mechanic_item_map: once it is not empty it is kept, complete or not.
TitledIn(p) == {i \in p.named : Research[i].cat = MechanicCat}
ReadTitles(p) == IF p.titled = {} THEN [p EXCEPT !.titled = TitledIn(p)] ELSE p

\* is_research_complete
IsComplete(p, loc) ==
  CASE loc[1] = "title"   -> \E i \in p.titled : /\ Research[i].title = loc[2]
                                                 /\ p.status[i] = Complete4
    [] loc[1] = "welfare" -> IF loc[3] = 0 THEN WelfareComplete(p, loc[2])
                             ELSE WelfareLevelComplete(p, loc[2], loc[3])

\* _poll_research
PollResearch(p) == LET q == ReadTitles(p)
                   IN  [q EXCEPT !.fired = @ \cup {l \in Located : IsComplete(q, l)}]

-----------------------------------------------------------------------------
(* Writing statuses                                                        *)

\* BARRIER_GRADE_GATE, FACILITY_GATE_RESEARCH: gates of their own, which no
\* location stands for.
BarrierGrades == <<"scenarioblueprint01", "apbarriergate2", "scenarioblueprint02",
                   "apbarriergate4", "apbarriergate5", "apbarriergate6">>
FacilityGates == [research_centre |-> "guestspawner", workshop |-> "parkgate"]

\* Faulty variant of the next: what gates a barrier is its research itself.
BarrierResearch(n) == {"barrier1"}

BarrierTitles(n)   == {BarrierGrades[g] : g \in 1..(IF n < 6 THEN n ELSE 6)}
FacilityTitles(fs) == {FacilityGates[f] : f \in fs \cap DOMAIN FacilityGates}
MechanicTitles(cs) == {ApGate[c] : c \in cs \cap DOMAIN ApGate}

\* The common part of reconcile_barriers, _facilities and _mechanic.
WriteGates(p, wanted) ==
  LET q == ReadTitles(p)
  IN  [q EXCEPT !.status = [i \in DOMAIN Research |->
         IF i \in q.titled /\ Research[i].title \in wanted /\ q.status[i] < Complete4
         THEN Complete4 ELSE q.status[i]]]

\* ResearchGate.reconcile: only when the gated set changed; it counts as done
\* though the list is not written and the writes to the records `kept` fail.
HoldResearch(p, kept) ==
  LET cats == GatedCategories(DOMAIN CategoryOf, p.facilities)
      w    == IF kept = {} THEN WriteGated(p, cats) ELSE p
  IN  IF cats = p.last THEN p
      ELSE [StopInProgress(w, cats, kept) EXCEPT !.last = cats]

\* The steps of a tick that are about research, in their order.
ResearchTick(p, kept) ==
  WriteGates(WriteGates(HoldResearch(WriteGates(PollResearch(p), BarrierTitles(p.barriers)), kept),
    FacilityTitles(p.facilities)), MechanicTitles(p.contents))

\* Every write is made, or none of those of ResearchGate.
Losses == {{}, DOMAIN Research}

-----------------------------------------------------------------------------
(* The game (external).  A record goes from not started (0) over           *)
(* researchable, researching and researched to collected (4); a gate is    *)
(* never shown and never researched.                                       *)

GateTitles == ToSet(BarrierGrades) \cup {"guestspawner", "parkgate"}
              \cup {ApGate[c] : c \in DOMAIN ApGate}
Gates    == {i \in DOMAIN Research : Research[i].title \in GateTitles}
Playable == DOMAIN Research \ Gates

\* What data.json and the tables in research.py and rewards.py say of the
\* game's research: what locations and gates are named after is research of
\* mechanics, no location stands for a gate, a species has one token, the item
\* captured for it is a record of its own, if it has one in this zoo, and no two
\* of its standard records have the same level.
ASSUME TablesAssumption ==
  /\ IsFiniteSet(DOMAIN Research)
  /\ \A l \in Located : /\ l[1] \in {"title", "welfare"} /\ l[3] \in Nat
                        /\ l[1] = "title" => l[2] \notin GateTitles
  /\ \A i \in DOMAIN Research :
       \/ Research[i].title \in GateTitles
       \/ \E l \in Located : l[1] = "title" /\ l[2] = Research[i].title
       => Research[i].cat = MechanicCat
  /\ \A t, u \in DOMAIN KeyOf : KeyOf[t] = KeyOf[u] => t = u
  /\ \A s \in DOMAIN Captured, i \in DOMAIN Research :
       LET names == Research[i].token \in DOMAIN KeyOf /\ KeyOf[Research[i].token] = s
       IN  /\ i = Captured[s] => names
           /\ names /\ Research[i].cat = AnimalCat => Captured[s] \in DOMAIN Research
  /\ \A i \in DOMAIN Research : \A j, k \in Standard(Research[i].token) :
       Research[j].level = Research[k].level => j = k

\* What a saved park brings: a status for every record that is no gate.
StatusOf(saved) == [i \in DOMAIN Research |-> IF i \in Gates THEN 0 ELSE saved[i]]

ParkWith(saved, named) ==
  [status |-> StatusOf(saved), cat |-> [i \in DOMAIN Research |-> Research[i].cat],
   gated |-> {}, named |-> named, collected |-> {i \in Playable : saved[i] = Complete4},
   last |-> {}, titled |-> {}, fired |-> {},
   barriers |-> 0, facilities |-> {}, contents |-> {}]

Proceed(p, i) ==
  CASE p.status[i] = Researchable -> Start(p, i)
    [] p.status[i] = 3  -> [p EXCEPT !.status[i] = Complete4, !.collected = @ \cup {i}]
    [] p.status[i] = Complete4 -> p
    [] OTHER -> [p EXCEPT !.status[i] = @ + 1]

Move(p, saved, e) ==
  CASE e[1] = "play"     -> Proceed(p, e[2])
    [] e[1] = "tick"     -> ResearchTick(p, e[2])
    [] e[1] = "names"    -> [p EXCEPT !.named = @ \cup e[2]]
    [] e[1] = "reload"   -> [p EXCEPT !.status = StatusOf(saved)]
    [] e[1] = "barrier"  -> [p EXCEPT !.barriers = @ + 1]
    [] e[1] = "facility" -> [p EXCEPT !.facilities = @ \cup {e[2]}]
    [] e[1] = "content"  -> [p EXCEPT !.contents = @ \cup {e[2]}]

MoveEvents == ({"play"} \X Playable) \cup ({"facility"} \X DOMAIN FacilityGates)
              \cup ({"content"} \X DOMAIN ApGate)
              \cup ({"tick"} \X Losses) \cup ({"names"} \X Legible)
              \cup ({"reload", "barrier"} \X {""})

AfterMoves(saved, named, moves) ==
  LET p[n \in 0..Len(moves)] ==
        IF n = 0 THEN ParkWith(saved, named) ELSE Move(p[n - 1], saved, moves[n])
  IN  p[Len(moves)]

-----------------------------------------------------------------------------
(* Milestones                                                              *)

\* ANCHOR_SANITY, with the rating in hundredths of a star.
Sane == [guest_count |-> 0..200000, zoo_rating |-> 0..500]

\* round(val * 2): half stars, a tie to the even one.
HalfStars(v) == LET q == v \div 50
                    r == v % 50
                IN  IF r > 25 \/ (r = 25 /\ q % 2 = 1) THEN q + 1 ELSE q

\* _metric_value, _poll_milestones: a read that failed or is not sane is none.
MilestoneFires(metric, threshold, reads) ==
  \E v \in reads \cap Sane[metric] :
    IF metric = "zoo_rating" THEN HalfStars(v) >= 2 * threshold ELSE v >= threshold

-----------------------------------------------------------------------------
(* Properties                                                              *)

\* The player collected what the location asks for: a title, all standard
\* levels of a species, or the level with exactly level - 1 levels below it.
Earned(loc, items) ==
  CASE loc[1] = "title"   -> \E i \in items : Research[i].title = loc[2]
    [] loc[1] = "welfare" ->
         \E token \in DOMAIN KeyOf :
           /\ KeyOf[token] = loc[2]
           /\ LET std == Standard(token) IN
              IF loc[3] = 0 THEN std # {} /\ std \subseteq items
              ELSE \E i \in std \cap items :
                     Cardinality({j \in std : Research[j].level < Research[i].level}) = loc[3] - 1

\* The location can be told: all names can be resolved, and its title, if it
\* has one, could be when the titles were read.
Told(p, loc) ==
  /\ p.named = DOMAIN Research
  /\ loc[1] = "title" => \A i \in DOMAIN Research : Research[i].title = loc[2] => i \in p.titled

\* The client completes, starts and stops records itself, and none of it ever
\* reports a location: after any history a location is reported only when the
\* player collected its research, and what is collected in the park at a tick
\* is reported once all names can be resolved, if its title was among those
\* that were read, as all are that have their names from the beginning; in
\* whatever order the ids of a species' levels are, whether or not its facility
\* has arrived, and whether or not the writes of the research gate are made.
ChecksEarned ==
  \A saved \in [Playable -> Saved], named \in {{}, DOMAIN Research}, n \in 0..Moves :
    \A moves \in [1..n -> MoveEvents], kept \in Losses :
      LET before == AfterMoves(saved, named, moves)
          p      == ResearchTick(before, kept)
          now    == {i \in Playable : before.status[i] = Complete4}
      IN  /\ \A l \in p.fired : Earned(l, p.collected)
          /\ \A l \in Located : Earned(l, now) /\ Told(p, l) => l \in p.fired
          /\ named = DOMAIN Research => \A l \in Located : Told(p, l)

\* After a tick exactly the gates of the received items are open.
GatesFollow ==
  \A n \in 0..(Moves + 1) : \A moves \in [1..n -> MoveEvents], kept \in Losses :
    LET p == ResearchTick(AfterMoves([i \in Playable |-> Researchable], DOMAIN Research, moves), kept) IN
    \A i \in Gates : (p.status[i] = Complete4) =
      \/ \E g \in 1..6 : g <= p.barriers /\ Research[i].title = BarrierGrades[g]
      \/ \E f \in p.facilities : Research[i].title = FacilityGates[f]
      \/ \E c \in p.contents : Research[i].title = ApGate[c]

\* A milestone never comes from a read that is no value of its counter, a
\* failed one, or a rating that shows fewer stars; the fifth star comes though
\* the rating stays below 5.00.
MilestonesShown ==
  /\ \A stars \in 1..5, v \in 0..1000 :
       MilestoneFires("zoo_rating", stars, {v}) = (v <= 500 /\ v + 25 >= 100 * stars)
  /\ \A guests \in {0, 999, 1000, 200000, 200001, 1953393007} :
       MilestoneFires("guest_count", 1000, {guests}) = (guests \in {1000, 200000})
  /\ \A metric \in DOMAIN Sane : ~MilestoneFires(metric, 1, {})
==============================================================================
