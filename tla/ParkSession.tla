---------------------------- MODULE ParkSession -----------------------------
(***************************************************************************)
(* How the client tells whether the loaded park is the Archipelago         *)
(* scenario (memory/session.py): it looks for instances of the park-info   *)
(* class in the heap of the game, reads the name of the first one that has *)
(* a name, and asks the animal exchange for its mode.  The instances are   *)
(* cached; a scan of the heap is rare, because it is slow.  Memory of a    *)
(* park that is gone may stay as it was for a while.                       *)
(***************************************************************************)
EXTENDS Naturals, FiniteSets

CONSTANTS
  Cells,    \* places of park-info instances, in the order of the heap
  Kinds,    \* parks the player opens: "ap", "career", "renamed" (a sandbox
            \* park that the player gave the name of the scenario)
  Races,    \* what may happen that the reader cannot tell apart: "ghost", the
            \* memory of a park with the marker outlives it; "swift", a park
            \* is loaded while a scan that found the marker is seconds old;
            \* "nameless", a park is left before its script has named it
  MaxLoads  \* bound on loads of a park

ASSUME SessionAssumption ==
  /\ Cells \subseteq Nat \ {0} /\ Kinds \subseteq {"ap", "career", "renamed"}
  /\ Races \subseteq {"ghost", "swift", "nameless"} /\ MaxLoads \in Nat

VARIABLES
  \* game
  mem,       \* place -> the park there, or Free (no instance, or reused)
  loaded,    \* place of the loaded park, 0 for none
  loads,
  \* client
  cached,    \* ParkNameReader._cached, but for the nameless template
  lastVal,   \* ParkNameReader._last_val
  cooling,   \* time since _last_scan: below SCAN_COOLDOWN_S, NONE_RESCAN_S, over
  wasActive  \* _session_was_active

gameVars    == <<mem, loaded, loads>>
readerVars  == <<cached, lastVal, cooling>>
sessionVars == <<gameVars, readerVars, wasActive>>

Free     == [kind |-> "free", named |-> FALSE]
NoName   == "none"
Marker   == "marker"
Name(p)  == IF ~p.named THEN NoName ELSE IF p.kind = "career" THEN "career" ELSE Marker
Scenario == loaded # 0 /\ mem[loaded].kind \in {"ap", "career"}
InAp     == loaded # 0 /\ mem[loaded].kind = "ap"

SessionInit ==
  /\ mem = [c \in Cells |-> Free] /\ loaded = 0 /\ loads = 0
  /\ cached = {0} /\ lastVal = NoName /\ cooling = "over" /\ wasActive = FALSE

-----------------------------------------------------------------------------
(* The reader of the name                                                  *)

\* _cached is None; {} is a cache of the template alone.
NotCached == {0}

FirstOf(S) == CHOOSE c \in S : \A d \in S : c <= d

\* _first_cached: the first instance with a name, but a stale one before it
\* makes the cache invalid.
Stops(S)    == {c \in S : mem[c] = Free \/ mem[c].named}
CacheStale  == cached = NotCached \/ (Stops(cached) # {} /\ mem[FirstOf(Stops(cached))] = Free)
CachedName  == IF Stops(cached) = {} THEN NoName ELSE Name(mem[FirstOf(Stops(cached))])

\* Faulty variant, not part of Spec: a cache without a name counts as proof
\* that there is none.
ScanWhenStale == CacheStale /\ cooling # "short"

\* read: may the heap be scanned again?
MayScan == \/ cooling = "over"
           \/ cooling = "long" /\ CacheStale

Instances   == {c \in Cells : mem[c] # Free}
NamedOf(S)  == {c \in S : mem[c].named}
ScannedName == IF NamedOf(Instances) = {} THEN NoName ELSE Name(mem[FirstOf(NamedOf(Instances))])

\* read: the name, and what reading leaves behind.
Read(name, instances, wait) ==
  [name |-> name, cached |-> instances, cooling |-> wait]

Reading ==
  IF ~CacheStale /\ CachedName # NoName THEN Read(CachedName, cached, cooling)
  ELSE IF MayScan THEN Read(ScannedName, Instances, "short")
  ELSE Read(lastVal, cached, cooling)

Remember   == /\ cached' = Reading.cached /\ cooling' = Reading.cooling
              /\ lastVal' = Reading.name
Invalidate == cached' = NotCached /\ cooling' = "over" /\ lastVal' = NoName

\* Faulty variant, not part of Spec: the name alone decides.
NameDecides == Reading.name = Marker

\* is_ap_session: the exchange runs in scenario mode in every career park.
IsApSession == Reading.name = Marker /\ Scenario

\* _poll_tick: when the session ends the client forgets the name.
DecideSession ==
  /\ wasActive' = IsApSession
  /\ IF wasActive /\ ~IsApSession THEN Invalidate ELSE Remember
  /\ UNCHANGED gameVars

\* Time passes.
Cool == /\ cooling # "over"
        /\ cooling' = IF cooling = "short" THEN "long" ELSE "over"
        /\ UNCHANGED <<gameVars, cached, lastVal, wasActive>>

-----------------------------------------------------------------------------
(* The game (external)                                                     *)

\* A park of the scenario has its name from the save, or from its script a
\* while after the load.
LoadPark(c, k) ==
  /\ loaded = 0 /\ loads < MaxLoads
  /\ cooling = "short" => lastVal # Marker \/ "swift" \in Races
  /\ \E named \in IF k = "ap" THEN BOOLEAN ELSE {TRUE} :
        mem' = [mem EXCEPT ![c] = [kind |-> k, named |-> named]]
  /\ loaded' = c /\ loads' = loads + 1
  /\ UNCHANGED <<readerVars, wasActive>>

\* Scenario_AP_Script, Init: SetParkName.
NamePark ==
  /\ InAp /\ ~mem[loaded].named
  /\ mem' = [mem EXCEPT ![loaded].named = TRUE]
  /\ UNCHANGED <<loaded, loads, readerVars, wasActive>>

UnloadPark ==
  /\ loaded # 0
  /\ InAp => mem[loaded].named \/ "nameless" \in Races
  /\ loaded' = 0
  /\ \/ /\ Name(mem[loaded]) # Marker \/ "ghost" \in Races
        /\ UNCHANGED mem
     \/ mem' = [mem EXCEPT ![loaded] = Free]
  /\ UNCHANGED <<loads, readerVars, wasActive>>

Reuse(c) ==
  /\ c # loaded /\ mem[c] # Free
  /\ mem' = [mem EXCEPT ![c] = Free]
  /\ UNCHANGED <<loaded, loads, readerVars, wasActive>>
=============================================================================
