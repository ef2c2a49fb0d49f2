---------------------------- MODULE AnimalEvents ----------------------------
(***************************************************************************)
(* How the client learns that an animal was born, acquired or released     *)
(* (memory/births.py, exhibits.py, releases.py and the parts of            *)
(* triggers.py that read them).  Detours in the game record every animal   *)
(* that enters a habitat (its handle, in a ring) or an exhibit (species    *)
(* and origin, in another ring), and count the releases, keeping the       *)
(* handle of the last one.  The poll drains both rings once per tick,      *)
(* looks the handles up in the live roster, keeps a cache of handle to     *)
(* species, and attributes a release through that cache, because a         *)
(* released animal has left the roster long before the next tick.          *)
(*                                                                         *)
(* The client's reads are steps of their own and the game runs between     *)
(* them; Races names the interleavings that a run admits beyond that.      *)
(* Exhibit releases are module ExhibitRelease.                             *)
(***************************************************************************)
EXTENDS Naturals, Sequences, FiniteSets

CONSTANTS
  Handles,      \* handles of habitat animals, used again when free
  Species,
  Mapped,       \* species that the research map knows
  Ring,         \* INSERT_RING, EXHIBIT_RING
  None,
  Races,        \* "burst": more inserts than the ring holds between ticks;
                \* "several": several releases between ticks;
                \* "quick": an animal ages or leaves before its insert was
                \* drained, or is released before the roster was swept;
                \* "reuse": a handle with a cached species is used again
  Faults,       \* steps that may fail: "install", "drain", "map", "lock"
  MaxFaults,    \* bound on failing steps
  MaxInserts,   \* bound on inserts, per ring
  MaxReleases,  \* bound on releases
  MaxMoves      \* bound on steps of the game

ASSUME EventsAssumption ==
  /\ Mapped \subseteq Species /\ Ring \in Nat \ {0}
  /\ None \notin Handles \cup Species
  /\ None \notin [species : Species, newborn : BOOLEAN]
  /\ MaxFaults \in Nat
  /\ MaxInserts \in [{"habitat", "exhibit"} -> Nat] /\ MaxReleases \in Nat /\ MaxMoves \in Nat

VARIABLES
  \* game
  roster,     \* handle -> the animal that has it, None when free
  leaving,    \* handles of released animals still in the roster
  log,        \* what the detours of both rings have counted
  releases,   \* release count of the entry gate
  captured,   \* handle stored by the species capture, a detour of its own
  lock,       \* lock flag in the scratch of the release gate
  \* client
  installed,  \* detours in place
  cursor,     \* per ring, records drained
  cache,      \* handle_species
  bred, acquired, released,  \* _bred_species, _acquired_species, _released_species
  seen,       \* _last_habitat_count
  locked,     \* ReleaseDetector._locked
  received,   \* the Conservation Program has arrived
  reported,   \* checks reported: <<trigger, species>>
  \* the tick under way: next step, inserts left
  step, todo,
  \* history, bounds
  happened,   \* what happened under the detour that tells it, as checks
  unswept,    \* handles not in the last sweep of the roster
  moves,      \* steps of the game
  faults

gameVars   == <<roster, leaving, log, releases, captured, lock>>
setVars    == <<bred, acquired, released, reported>>
tickVars   == <<step, todo>>
vars == <<gameVars, installed, cursor, cache, setVars, seen, locked, received, tickVars,
          happened, unswept, moves, faults>>

-----------------------------------------------------------------------------
Animal   == [species : Species, newborn : BOOLEAN]
Rings    == {"habitat", "exhibit"}
Hooks    == Rings \cup {"release", "capture"}
Triggers == {"first_breed", "first_acquire", "conservation_release"}

Present    == {h \in Handles : roster[h] # None}
Check(a)   == <<IF a.newborn THEN "first_breed" ELSE "first_acquire", a.species>>
Undrained(h) == \E n \in (cursor["habitat"] + 1)..Len(log["habitat"]) : log["habitat"][n] = h

Fault(what) == /\ what \in Faults /\ faults < MaxFaults
               /\ faults' = faults + 1

\* The slot of the Nth record holds the last record stored in it, another one
\* when the ring went round.
InSlot(r, n) == LET same == {m \in 1..Len(log[r]) : m % Ring = n % Ring}
                IN  log[r][CHOOSE m \in same : \A k \in same : k <= m]

Init ==
  /\ roster = [h \in Handles |-> None]
  /\ leaving = {} /\ log = [r \in Rings |-> <<>>]
  /\ releases = 0 /\ captured = None /\ lock = FALSE
  /\ installed = {} /\ cursor = [r \in Rings |-> 0]
  /\ cache = [h \in Handles |-> None]
  /\ bred = {} /\ acquired = {} /\ released = {} /\ reported = {}
  /\ seen = 0 /\ locked = TRUE /\ received = FALSE
  /\ step = "idle" /\ todo = <<>>
  /\ happened = {} /\ unswept = Handles /\ moves = 0 /\ faults = 0

-----------------------------------------------------------------------------
(* Faulty variants of definitions below, none part of Spec: each shows     *)
(* that a property fails when the code is wrong in a plausible way.        *)

\* Moves the cursor by a ring, whatever the count.
AdvanceRing(r) == cursor' = [cursor EXCEPT ![r] = @ + Ring]

\* Attributes through the live roster only.
AttributedLive(h) ==
  IF h = None \/ roster[h] = None \/ roster[h].species \notin Mapped THEN None
  ELSE roster[h].species

\* Only ever locks.
LockFlagOnce(wish) == IF wish /\ ~locked THEN TRUE ELSE lock

-----------------------------------------------------------------------------
(* The rings                                                               *)

\* Both readers: from the record after the cursor, or the oldest in the ring.
FirstIn(count, from) == IF from + Ring >= count THEN from + 1 ELSE count - Ring + 1

RecordsSince(r, count) == LET first == FirstIn(count, cursor[r])
                          IN  [i \in 1..(count + 1 - first) |-> InSlot(r, first + i - 1)]

-----------------------------------------------------------------------------
(* The tick: MemoryTriggerSource.poll                                      *)

\* ensure_installed: a hook that did not install is tried again next tick.
Ensure(hook) == \/ /\ installed' = installed \cup {hook}
                   /\ UNCHANGED faults
                \/ /\ hook \notin installed /\ Fault("install")
                   /\ UNCHANGED installed

\* BirthDetector.poll_events reads the count and the ring; a failing read
\* leaves the cursor alone.
Advance(r) == cursor' = [cursor EXCEPT ![r] = Len(log[r])]
New(r)     == IF r \in installed' THEN RecordsSince(r, Len(log[r])) ELSE <<>>

ReadRing ==
  /\ step = "idle"
  /\ \/ /\ Ensure("habitat")
        /\ Advance("habitat") /\ todo' = New("habitat")
     \/ /\ cursor["habitat"] < Len(log["habitat"]) /\ Fault("drain")
        /\ todo' = <<>> /\ UNCHANGED <<installed, cursor>>
  /\ step' = "events"
  /\ UNCHANGED <<gameVars, cache, setVars, seen, locked, received, happened, unswept, moves>>

Classify(a) ==
  IF a.newborn THEN /\ bred' = bred \cup {a.species}
                    /\ UNCHANGED acquired
               ELSE /\ acquired' = acquired \cup {a.species}
                    /\ UNCHANGED bred

\* One insert: its handle is looked up in the roster as it is now; an animal
\* that is gone or of an unknown species is skipped.
Known(h) == h # None /\ roster[h] # None /\ roster[h].species \in Mapped

DrainInsert ==
  /\ step = "events" /\ todo # <<>>
  /\ todo' = Tail(todo)
  /\ LET h == Head(todo) IN
     \/ /\ Known(h)
        /\ cache' = [cache EXCEPT ![h] = roster[h].species]
        /\ Classify(roster[h])
        /\ UNCHANGED faults
     \/ /\ ~Known(h)
        /\ UNCHANGED <<cache, bred, acquired, faults>>
     \/ /\ Known(h) /\ Fault("map")
        /\ UNCHANGED <<cache, bred, acquired>>
  /\ UNCHANGED <<gameVars, installed, cursor, released, reported, seen, locked, received,
                 step, happened, unswept, moves>>

\* ExhibitDetector.poll_events: the records tell species and origin by
\* themselves.
DrainExhibit ==
  /\ step = "events" /\ todo = <<>>
  /\ \/ /\ Ensure("exhibit") /\ Advance("exhibit")
        /\ LET new == {New("exhibit")[i] : i \in DOMAIN New("exhibit")}
           IN  /\ bred' = bred \cup ({a.species : a \in {b \in new : b.newborn}} \cap Mapped)
               /\ acquired' = acquired
                     \cup ({a.species : a \in {b \in new : ~b.newborn}} \cap Mapped)
     \/ /\ cursor["exhibit"] < Len(log["exhibit"]) /\ Fault("drain")
        /\ UNCHANGED <<installed, cursor, bred, acquired>>
  /\ step' = "sweep"
  /\ UNCHANGED <<gameVars, cache, released, reported, seen, locked, received, todo,
                 happened, unswept, moves>>

\* iter_roster, species_handle_for_animal: the handles whose species a sweep
\* finds.
Swept == {h \in Present : Known(h)}

\* The sets are read into checks; then the roster is swept into the cache,
\* unless the animal manager does not resolve.
SweepRoster ==
  /\ step = "sweep"
  /\ reported' = reported \cup ({"first_breed"} \X bred) \cup ({"first_acquire"} \X acquired)
  /\ \/ /\ cache' = [h \in Handles |-> IF h \in Swept THEN roster[h].species ELSE cache[h]]
        /\ unswept' = Handles \ Present
        /\ UNCHANGED faults
     \/ /\ Fault("map")
        /\ UNCHANGED <<cache, unswept>>
  /\ step' = "count"
  /\ UNCHANGED <<gameVars, installed, cursor, bred, acquired, released, seen, locked, received,
                 todo, happened, moves>>

\* ReleaseDetector.ensure_installed: a gate that is there is left alone, a new
\* one takes over the wish.  (set_locked's own try at the end of the tick is
\* the try of the next tick here.)
InstallGate ==
  /\ step = "count" /\ "release" \notin installed
  /\ \/ /\ installed' = installed \cup {"release"} /\ lock' = locked
        /\ step' = "capture"
        /\ UNCHANGED faults
     \/ /\ Fault("install") /\ step' = "report"
        /\ UNCHANGED <<installed, lock>>
  /\ UNCHANGED <<roster, leaving, log, releases, captured, cursor, cache, setVars, seen, locked,
                 received, todo, happened, unswept, moves>>

\* _install_species_capture: tried once, right after the gate; installed is set
\* whatever becomes of it.
InstallCapture ==
  /\ step = "capture"
  /\ \/ /\ installed' = installed \cup {"capture"}
        /\ UNCHANGED faults
     \/ /\ Fault("install")
        /\ UNCHANGED installed
  /\ step' = "count"
  /\ UNCHANGED <<gameVars, cursor, cache, setVars, seen, locked, received, todo, happened,
                 unswept, moves>>

\* habitat_count: releases since the last tick count as one.
ReadReleases ==
  /\ step = "count" /\ "release" \in installed
  /\ seen' = releases
  /\ step' = IF releases > seen THEN "attribute" ELSE "report"
  /\ UNCHANGED <<gameVars, installed, cursor, cache, setVars, locked, received, todo, happened,
                 unswept, faults, moves>>

\* _attribute_release: the cache first; an animal never cached may still be in
\* the roster.
Attributed(h) ==
  IF h = None THEN None
  ELSE IF cache[h] # None THEN cache[h]
  ELSE IF Known(h) THEN roster[h].species ELSE None

AttributeRelease ==
  /\ step = "attribute"
  /\ released' = released \cup ({Attributed(captured)} \ {None})
  /\ step' = "report"
  /\ UNCHANGED <<gameVars, installed, cursor, cache, bred, acquired, reported, seen, locked,
                 received, todo, happened, unswept, faults, moves>>

LockFlag(wish) == IF wish # locked /\ "release" \in installed THEN wish ELSE lock

\* The release checks, and set_locked at the end of the tick: the flag is
\* written when the wish changes.
EndTick ==
  /\ step = "report"
  /\ reported' = reported \cup ({"conservation_release"} \X released)
  /\ locked' = ~received
  /\ \/ /\ lock' = LockFlag(~received)
        /\ UNCHANGED faults
     \/ /\ locked' # locked /\ Fault("lock")
        /\ UNCHANGED lock
  /\ step' = "idle"
  /\ UNCHANGED <<roster, leaving, log, releases, captured, installed,
                 cursor, cache, bred, acquired, released, seen, received, todo,
                 happened, unswept, moves>>

ReceiveProgram ==
  /\ ~received
  /\ received' = TRUE
  /\ UNCHANGED <<gameVars, installed, cursor, cache, setVars, seen, locked, tickVars,
                 happened, unswept, faults, moves>>

-----------------------------------------------------------------------------
(* The game (external), and what the detours in it store                   *)

\* make_insert_instrument, make_exhibit_instrument.
Record(r, rec) ==
  \/ /\ r \in installed
     /\ Len(log[r]) < MaxInserts[r]
     /\ "burst" \in Races \/ Len(log[r]) - cursor[r] < Ring
     /\ log' = [log EXCEPT ![r] = Append(@, rec)]
  \/ r \notin installed /\ UNCHANGED log

Witness(hook, c) == happened' = IF hook \in installed THEN happened \cup {c} ELSE happened

MayUse(h) == /\ roster[h] = None
             /\ "reuse" \in Races \/ (cache[h] = None /\ captured # h)

\* Bought into storage: no insert.
Buy(h, s) ==
  /\ MayUse(h)
  /\ roster' = [roster EXCEPT ![h] = [species |-> s, newborn |-> FALSE]]
  /\ unswept' = unswept \cup {h}
  /\ UNCHANGED <<leaving, log, releases, captured, lock, installed, cursor,
                 cache, setVars, seen, locked, received, tickVars, happened, faults>>

Bear(h, s) ==
  LET a == [species |-> s, newborn |-> TRUE] IN
  /\ MayUse(h)
  /\ roster' = [roster EXCEPT ![h] = a]
  /\ Record("habitat", h) /\ Witness("habitat", Check(a))
  /\ unswept' = unswept \cup {h}
  /\ UNCHANGED <<leaving, releases, captured, lock, installed, cursor, cache,
                 setVars, seen, locked, received, tickVars, faults>>

\* From storage or another habitat.
Place(h) ==
  /\ h \in Present \ leaving
  /\ Record("habitat", h) /\ Witness("habitat", Check(roster[h]))
  /\ UNCHANGED <<roster, leaving, releases, captured, lock, installed, cursor, cache,
                 setVars, seen, locked, received, tickVars, unswept, faults>>

AddExhibit(a) ==
  /\ Record("exhibit", a) /\ Witness("exhibit", Check(a))
  /\ UNCHANGED <<roster, leaving, releases, captured, lock, installed, cursor, cache,
                 setVars, seen, locked, received, tickVars, unswept, faults>>

Busy(h) == Undrained(h) \/ (step = "events" /\ \E i \in DOMAIN todo : todo[i] = h)

Grow(h) ==
  /\ h \in Present /\ roster[h].newborn
  /\ ~Busy(h) \/ "quick" \in Races
  /\ roster' = [roster EXCEPT ![h].newborn = FALSE]
  /\ UNCHANGED <<leaving, log, releases, captured, lock, installed, cursor,
                 cache, setVars, seen, locked, received, tickVars, happened, unswept, faults>>

\* Dead or sold, or the deferred removal of a released animal.
Depart(h) ==
  /\ h \in Present
  /\ ~Busy(h) \/ "quick" \in Races
  /\ roster' = [roster EXCEPT ![h] = None]
  /\ leaving' = leaving \ {h}
  /\ UNCHANGED <<log, releases, captured, lock, installed, cursor, cache,
                 setVars, seen, locked, received, tickVars, happened, unswept, faults>>

\* make_release_species_capture: later in the same function, the handle.
Capture(h) == captured' = IF "capture" \in installed THEN h ELSE captured

\* make_release_gate: an open gate counts, whether or not the capture is there.
Release(h) ==
  /\ h \in Present \ leaving /\ releases < MaxReleases
  /\ "release" \in installed /\ ~lock
  /\ "several" \in Races \/ (releases = seen /\ step # "attribute")
  /\ "quick" \in Races \/ (h \notin unswept /\ ~Busy(h))
  /\ releases' = releases + 1
  /\ leaving' = leaving \cup {h}
  /\ Capture(h) /\ Witness("capture", <<"conservation_release", roster[h].species>>)
  /\ UNCHANGED <<roster, log, lock, installed, cursor, cache, setVars, seen, locked,
                 received, tickVars, unswept, faults>>

Tick == \/ ReadRing \/ DrainInsert \/ DrainExhibit \/ SweepRoster
        \/ InstallGate \/ InstallCapture \/ ReadReleases \/ AttributeRelease \/ EndTick

Game == /\ moves < MaxMoves /\ moves' = moves + 1
        /\ \/ \E h \in Handles, s \in Species : Buy(h, s) \/ Bear(h, s)
           \/ \E h \in Handles : Place(h) \/ Grow(h) \/ Depart(h) \/ Release(h)
           \/ \E a \in Animal : AddExhibit(a)

Next == Tick \/ ReceiveProgram \/ Game

Spec == Init /\ [][Next]_vars

\* The poll loop never stops.
FairSpec == Spec /\ WF_vars(Tick)

-----------------------------------------------------------------------------
(* Properties                                                              *)

Steps  == {"idle", "events", "sweep", "count", "capture", "attribute", "report"}
Checks == Triggers \X Species

\* Every variable holds a value of its type; in particular no cursor is ahead
\* of its ring, so that no record is skipped for good.
TypeOK ==
  /\ roster \in [Handles -> Animal \cup {None}] /\ leaving \subseteq Present
  /\ log["habitat"] \in Seq(Handles) /\ log["exhibit"] \in Seq(Animal)
  /\ releases \in 0..MaxReleases /\ lock \in BOOLEAN
  /\ captured \in Handles \cup {None}
  /\ installed \subseteq Hooks /\ \A r \in Rings : cursor[r] \in 0..Len(log[r])
  /\ cache \in [Handles -> Mapped \cup {None}]
  /\ bred \subseteq Mapped /\ acquired \subseteq Mapped /\ released \subseteq Mapped
  /\ seen \in 0..releases /\ locked \in BOOLEAN /\ received \in BOOLEAN
  /\ reported \subseteq Checks /\ happened \subseteq Checks
  /\ step \in Steps /\ todo \in Seq(Handles \cup {None})
  /\ unswept \subseteq Handles /\ moves \in 0..MaxMoves /\ faults \in 0..MaxFaults

\* The detours, the drains, the cache and the attribution together implement
\* what the rest of the client counts on: a check is reported only when its
\* event happened under its detour, and every such event of a known species is
\* reported.  A ring or gate that does not install is tried again; the capture
\* is not, and from then on no release has a check, true or false.
Promise == INSTANCE CheckSource WITH Owed <- Triggers \X Mapped

ReportsEvents == Promise!FairSpec

\* Once the Conservation Program has arrived the player can release animals.
GateOpens == received ~> (step = "idle" /\ ~lock)
=============================================================================
