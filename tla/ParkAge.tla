------------------------------ MODULE ParkAge -------------------------------
(***************************************************************************)
(* How the client reads the years that the loaded park has been open       *)
(* (memory/zoodate.py): the largest count of all instances of the          *)
(* park-info class, the nameless template among them, which is 0 for ever. *)
(* The instances are cached, and unlike the name (ParkSession) the cache   *)
(* is never dropped when a park is left: a stale instance alone makes the  *)
(* reader scan again.  A wrong age decides whether a zoo counts as new.    *)
(***************************************************************************)
EXTENDS Integers, FiniteSets, FiniteSetsExt

CONSTANTS
  AgeRaces,   \* what is not told apart: "ghost", an instance outlives its
              \* park; "menu", a read while no park is loaded; "swift", a
              \* park is loaded while a scan is seconds old
  AgeRounds   \* bound on events

ASSUME AgeAssumption == AgeRaces \subseteq {"ghost", "menu", "swift"} /\ AgeRounds \in Nat

InstanceCells == {1, 2}   \* places of park-info instances
OldestPark    == 2        \* bound on years
Template      == 0        \* place of the template

NotThere == -1   \* of a place: memory of something else; of a read: unknown

\* No park, a client that has not looked.
NewReader == [years |-> [c \in {Template} \cup InstanceCells |-> IF c = Template THEN 0 ELSE NotThere],
              loaded |-> Template, cached |-> {}, lastVal |-> NotThere, hot |-> FALSE]

-----------------------------------------------------------------------------
(* Faulty variants of definitions below: each shows that a property fails  *)
(* when the code is wrong in a plausible way.                              *)

\* A stale instance is passed over instead of making the cache invalid.
StaleSkipped(p) == p.cached = {} \/ {p.years[c] : c \in p.cached} = {NotThere}

-----------------------------------------------------------------------------
(* ParkAgeReader                                                           *)

\* _years_at: an instance that lost its class is none.
YearsAt(p, S) == {p.years[c] : c \in S} \ {NotThere}
MaxYears(p, S) == IF YearsAt(p, S) = {} THEN NotThere ELSE Max(YearsAt(p, S))

\* _max_cached: no cache, or one with a stale instance.
AgeStale(p) == p.cached = {} \/ \E c \in p.cached : p.years[c] = NotThere

\* _rescan
Rescan(p) ==
  LET found == {c \in DOMAIN p.years : p.years[c] # NotThere}
  IN  [p EXCEPT !.cached = found, !.lastVal = MaxYears(p, found), !.hot = TRUE]

\* read: what it returns, and what it leaves behind.
ReadYears(p) ==
  IF ~AgeStale(p) THEN [age |-> MaxYears(p, p.cached), reader |-> p]
  ELSE IF p.hot THEN [age |-> p.lastVal, reader |-> p]
  ELSE [age |-> Rescan(p).lastVal, reader |-> Rescan(p)]

\* is_fresh
FreshAge(age) == age # NotThere /\ age < 1

-----------------------------------------------------------------------------
(* The game (external)                                                     *)

AgeLoads(p) ==
  IF p.loaded # Template \/ (p.hot /\ "swift" \notin AgeRaces) THEN {}
  ELSE {[p EXCEPT !.years[c] = y, !.loaded = c] : c \in InstanceCells, y \in 0..OldestPark}

AgeUnloads(p) ==
  IF p.loaded = Template THEN {}
  ELSE {[p EXCEPT !.loaded = Template, !.years[p.loaded] = NotThere]}
       \cup IF "ghost" \in AgeRaces THEN {[p EXCEPT !.loaded = Template]} ELSE {}

YearEnded(p) ==
  IF p.loaded = Template \/ p.years[p.loaded] = OldestPark THEN {}
  ELSE {[p EXCEPT !.years[p.loaded] = @ + 1]}

CooledDown(p) == {[p EXCEPT !.hot = FALSE]}

AgeReads(p) ==
  IF p.loaded = Template /\ "menu" \notin AgeRaces THEN {} ELSE {ReadYears(p).reader}

AgeSteps(p) == AgeLoads(p) \cup AgeUnloads(p) \cup YearEnded(p) \cup CooledDown(p) \cup AgeReads(p)

\* What at most n events lead to.
AgesAfter[n \in 0..AgeRounds] ==
  IF n = 0 THEN {NewReader}
  ELSE AgesAfter[n - 1] \cup UNION {AgeSteps(p) : p \in AgesAfter[n - 1]}

-----------------------------------------------------------------------------
(* Properties                                                              *)

\* Whatever parks were loaded and left before, the age that is read in a park
\* is its own, and a zoo counts as new exactly in its first year: the cache
\* that is never dropped is found stale when it has to be.
AgeFollows ==
  \A p \in AgesAfter[AgeRounds] :
    p.loaded # Template =>
      LET age == ReadYears(p).age
      IN  age = p.years[p.loaded] /\ (FreshAge(age) <=> p.years[p.loaded] = 0)
=============================================================================
