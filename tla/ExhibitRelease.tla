--------------------------- MODULE ExhibitRelease ---------------------------
(***************************************************************************)
(* Crediting the releases of exhibit animals to their species              *)
(* (MemoryTriggerSource._poll_exhibit_release and what it calls in         *)
(* pz_ap_client/memory/triggers.py, over the readers of                    *)
(* pz_ap_client/memory/releases.py, hook.py and animals.py).               *)
(*                                                                         *)
(* A detour counts releases as they begin.  Which animal it was must be    *)
(* found out by the client, about once a second, from three sources that   *)
(* change at different moments: a ring of ids captured on the way through  *)
(* the storage branch, the set of stored animals' ids, and a census of the *)
(* placed ones that the game lowers some time after the release.  Each     *)
(* source is read in a step of its own and the game runs on in between.    *)
(*                                                                         *)
(* Animals also die, are sold, bought or born, which the sources show in   *)
(* the same way; only the count tells a release from the rest.             *)
(***************************************************************************)
EXTENDS Integers, Sequences, FiniteSets

CONSTANTS
  Animals, Species, SpeciesOf,
  Mapped,     \* species whose handle the research map knows
  Ring,       \* EXR_RING: capture slots
  GiveUp,     \* EXHIBIT_GIVEUP_TICKS
  None,       \* no snapshot yet, or an unreadable structure
  Races,      \* "mid": releases during a tick; "mixed": deaths, sales and
              \* arrivals in the window of a release; "slow": the census may
              \* take more than one tick to follow
  Faults,     \* reads that may fail: "count", "drain", "defs", "ids", "census"
  MaxFaults   \* bound on failing reads

ASSUME ExhibitAssumption ==
  /\ IsFiniteSet(Animals) /\ SpeciesOf \in [Animals -> Species] /\ Mapped \subseteq Species
  /\ Ring \in Nat \ {0} /\ GiveUp \in Nat \ {0} /\ MaxFaults \in Nat
  /\ None \notin [Species -> Nat]

VARIABLES
  \* game
  where,     \* of each animal: see Places
  count,     \* release count of the entry detour
  captured,  \* ids captured in the storage branch, of which Ring remain
  \* MemoryTriggerSource
  seen,      \* _last_exhibit_count
  pending,   \* _pending_exhibit
  waited,    \* _pending_exhibit_ticks
  cursor,    \* _exhibit_cap_cursor
  done,      \* _exhibit_captured_done
  retry,     \* _exhibit_capture_unresolved
  cached,    \* ids with an entry in _exhibit_id_species
  prev,      \* _exhibit_prev_ids
  baseline,  \* _exhibit_baseline
  credits,   \* credits per species: _released_species are those above 0
  \* the tick under way: its next step, ids still to consume, ids that left
  \* the id set, the census read
  step, todo, removed, raw,
  \* history, bounds
  untold,    \* snapshots that a death, sale or arrival has made stale
  faults

gameVars     == <<where, count, captured>>
snapshotVars == <<cached, prev, baseline>>
captureVars  == <<cursor, done, retry>>
pendingVars  == <<seen, pending, waited, credits>>
tickVars     == <<step, todo, removed, raw>>
vars == <<gameVars, snapshotVars, captureVars, pendingVars, tickVars, untold, faults>>

-----------------------------------------------------------------------------
Places == {"away", "stored", "placed",
           "leaving",   \* released from an exhibit, still in the census
           "late",      \* ... and has been so for a tick
           "freed",     \* released and gone
           "gone"}      \* dead or sold

Steps == {"idle", "drain", "consume", "roster", "evict", "census", "drops", "retire"}

Stored     == {a \in Animals : where[a] = "stored"}
Census     == [s \in Species |->
                 Cardinality({a \in Animals : /\ where[a] \in {"placed", "leaving", "late"}
                                              /\ SpeciesOf[a] = s})]
Released   == {a \in Animals : where[a] \in {"leaving", "late", "freed"}}
Maps(a)    == SpeciesOf[a] \in Mapped
NoCaptures == [old |-> {}, new |-> <<>>]

Fault(read) == /\ read \in Faults /\ faults < MaxFaults
               /\ faults' = faults + 1

Credit(s) == /\ credits' = [credits EXCEPT ![s] = @ + 1]
             /\ pending' = pending - 1

\* Animals are released between ticks, within one only when that race is
\* allowed; the population changes otherwise between ticks and when no
\* release is under way.
MayRelease == /\ step = "idle" \/ "mid" \in Races
              /\ untold = {} \/ "mixed" \in Races

\* A release is under way as far as the client or the census can tell.
Outstanding == \/ pending > 0 \/ count > seen
               \/ \E a \in Animals : where[a] \in {"leaving", "late"}

MayChange == (step = "idle" /\ ~Outstanding) \/ "mixed" \in Races

Init ==
  /\ where \in [Animals -> {"away", "stored", "placed"}]
  /\ count = 0 /\ captured = <<>>
  /\ seen = 0 /\ pending = 0 /\ waited = 0 /\ credits = [s \in Species |-> 0]
  /\ cursor = 0 /\ done = {} /\ retry = {}
  /\ cached = {} /\ prev = None /\ baseline = None
  /\ step = "idle" /\ todo = NoCaptures /\ removed = {} /\ raw = None
  /\ untold = {} /\ faults = 0

-----------------------------------------------------------------------------
(* Faulty variants of definitions below, none part of Spec: each shows     *)
(* that a property fails when the code is wrong in a plausible way.        *)

\* Drains the ring from its oldest slot, whatever the cursor.
OldestInRing(n) == IF n > Ring THEN n - Ring ELSE 0

\* Drops a captured id at its first miss.
ParkNever(a) ==
  /\ pending > 0
  /\ UNCHANGED <<done, retry, cached, credits, pending>>

\* Takes every id that leaves the set for a release.
EvictAlways(a) ==
  IF a \notin done /\ a \in cached
  THEN Credit(SpeciesOf[a])
  ELSE UNCHANGED <<credits, pending>>

-----------------------------------------------------------------------------
(* The tick: _poll_exhibit_release                                         *)

\* The count is read first: what came since is pending.  A failed read counts
\* as 0, so that the next one finds every release anew.
ReadCount == \/ /\ seen' = count
                /\ UNCHANGED faults
             \/ /\ Fault("count")
                /\ seen' = 0

\* Time passes for the releases the census has yet to show.
BeginTick ==
  /\ step = "idle"
  /\ "slow" \in Races \/ \A a \in Animals : where[a] # "late"
  /\ ReadCount
  /\ pending' = IF seen' > seen THEN pending + (seen' - seen) ELSE pending
  /\ where' = [a \in Animals |-> IF where[a] = "leaving" THEN "late" ELSE where[a]]
  /\ step' = "drain"
  /\ UNCHANGED <<count, captured, snapshotVars, captureVars, waited, credits,
                 todo, removed, raw, untold>>

\* read_exhibit_release_events: the ids since the cursor, as far as the ring
\* still holds them; ids that found no species earlier come first.
Oldest(n) == IF n - Ring > cursor THEN n - Ring ELSE cursor

ReadCaptures ==
  /\ step = "drain"
  /\ \/ /\ todo' = [old |-> retry,
                    new |-> SubSeq(captured, Oldest(Len(captured)) + 1, Len(captured))]
        /\ cursor' = Len(captured)
        /\ UNCHANGED faults
     \/ /\ Fault("drain")
        /\ todo' = [old |-> retry, new |-> <<>>]
        /\ UNCHANGED cursor
  /\ retry' = {}
  /\ step' = "consume"
  /\ UNCHANGED <<gameVars, snapshotVars, done, pendingVars, removed, raw, untold>>

\* _consume_capture, species known: one pending release is this one.
CreditCapture(a) ==
  /\ pending > 0
  /\ Credit(SpeciesOf[a])
  /\ done' = done \cup {a} /\ cached' = cached \ {a}
  /\ UNCHANGED retry

\* ... species unknown: again next tick, while the release is pending.
ParkCapture(a) ==
  /\ pending > 0
  /\ retry' = retry \cup {a}
  /\ UNCHANGED <<done, cached, credits, pending>>

\* ... nothing pending: not a release.
IgnoreCapture ==
  /\ pending = 0
  /\ UNCHANGED <<done, retry, cached, credits, pending>>

\* The species comes from the cache, else from the def map, whose entries
\* outlive the release.
Consume(a) ==
  \/ /\ a \in cached \/ Maps(a)
     /\ CreditCapture(a) \/ IgnoreCapture
     /\ UNCHANGED faults
  \/ /\ a \notin cached /\ ~Maps(a)
     /\ ParkCapture(a) \/ IgnoreCapture
     /\ UNCHANGED faults
  \/ /\ a \notin cached /\ Fault("defs")
     /\ ParkCapture(a) \/ IgnoreCapture

DrainCapture ==
  /\ step = "consume"
  /\ \/ \E a \in todo.old : Consume(a) /\ todo' = [todo EXCEPT !.old = @ \ {a}]
     \/ /\ todo.old = {} /\ todo.new # <<>>
        /\ Consume(Head(todo.new)) /\ todo' = [todo EXCEPT !.new = Tail(@)]
  /\ UNCHANGED <<gameVars, prev, baseline, cursor, seen, waited, step, removed, raw, untold>>

EndDrain ==
  /\ step = "consume" /\ todo = NoCaptures
  /\ step' = "roster"
  /\ UNCHANGED <<gameVars, snapshotVars, captureVars, pendingVars, todo, removed, raw,
                 untold, faults>>

\* _poll_exhibit_roster_diff: cache the species of new ids, see which ids left
\* since the last look.
ReadRoster ==
  /\ step = "roster"
  /\ \/ /\ cached' = cached \cup {a \in Stored : Maps(a)}
        /\ UNCHANGED faults
     \/ /\ Fault("defs")
        /\ UNCHANGED cached
  /\ removed' = IF prev = None THEN {} ELSE prev \ Stored
  /\ prev' = Stored
  /\ untold' = untold \ {"ids"}
  /\ step' = "evict"
  /\ UNCHANGED <<gameVars, baseline, captureVars, pendingVars, todo, raw>>

RosterUnreadable ==
  /\ step = "roster" /\ Fault("ids")
  /\ step' = "census"
  /\ UNCHANGED <<gameVars, snapshotVars, captureVars, pendingVars, todo, removed, raw, untold>>

\* _attribute_exhibit_removals: an id the captures have accounted for is only
\* evicted; another one is the pending release.
Attribute(a) ==
  IF a \notin done /\ pending > 0 /\ a \in cached
  THEN Credit(SpeciesOf[a])
  ELSE UNCHANGED <<credits, pending>>

Evict ==
  /\ step = "evict"
  /\ \E a \in removed : /\ Attribute(a)
                        /\ removed' = removed \ {a}
                        /\ cached' = cached \ {a} /\ done' = done \ {a}
  /\ UNCHANGED <<gameVars, prev, baseline, cursor, retry, seen, waited, step, todo, raw,
                 untold, faults>>

EndEvict ==
  /\ step = "evict" /\ removed = {}
  /\ step' = "census"
  /\ UNCHANGED <<gameVars, snapshotVars, captureVars, pendingVars, todo, removed, raw,
                 untold, faults>>

\* The census: the first one read is the baseline.
ReadCensus ==
  /\ step = "census"
  /\ raw' = Census
  /\ baseline' = IF baseline = None THEN Census ELSE baseline
  /\ step' = IF baseline # None /\ pending > 0 THEN "drops" ELSE "retire"
  /\ UNCHANGED <<gameVars, cached, prev, captureVars, pendingVars, todo, removed, untold, faults>>

CensusUnreadable ==
  /\ step = "census" /\ Fault("census")
  /\ raw' = None
  /\ step' = "retire"
  /\ UNCHANGED <<gameVars, snapshotVars, captureVars, pendingVars, todo, removed, untold>>

\* _attribute_exhibit_drops: one fewer than the baseline is a pending release,
\* accounted for even when the species is unknown.
AttributeDrop ==
  /\ step = "drops" /\ pending > 0
  /\ \E s \in Species :
       /\ raw[s] < baseline[s]
       /\ baseline' = [baseline EXCEPT ![s] = @ - 1]
       /\ IF s \in Mapped THEN Credit(s)
          ELSE pending' = pending - 1 /\ UNCHANGED credits
  /\ UNCHANGED <<gameVars, cached, prev, captureVars, seen, waited, tickVars, untold, faults>>

EndDrops ==
  /\ step = "drops"
  /\ pending = 0 \/ \A s \in Species : raw[s] >= baseline[s]
  /\ step' = "retire"
  /\ UNCHANGED <<gameVars, snapshotVars, captureVars, pendingVars, todo, removed, raw,
                 untold, faults>>

\* _retire_pending_exhibit: give up after GiveUp ticks; with nothing pending
\* the census read becomes the baseline.
RetirePending ==
  /\ step = "retire"
  /\ pending' = IF pending > 0 /\ waited + 1 >= GiveUp THEN 0 ELSE pending
  /\ waited'  = IF pending' = 0 THEN 0 ELSE waited + 1
  /\ retry'   = IF pending' = 0 THEN {} ELSE retry
  /\ IF pending' = 0 /\ raw # None
     THEN /\ baseline' = raw
          /\ untold' = untold \ {"census"}
     ELSE UNCHANGED <<baseline, untold>>
  /\ raw' = None
  /\ step' = "idle"
  /\ UNCHANGED <<gameVars, cached, prev, cursor, done, seen, credits, todo, removed, faults>>

-----------------------------------------------------------------------------
(* The game (external)                                                     *)

\* The next capture overwrites no unread id, or one the client has seen in
\* storage.
RingHolds ==
  Len(captured) - cursor >= Ring => captured[Len(captured) - Ring + 1] \in cached

\* From storage: counted, captured and removed from the id set in one call.
ReleaseStored(a) ==
  /\ MayRelease /\ where[a] = "stored" /\ ("mixed" \in Races \/ RingHolds)
  /\ count' = count + 1 /\ captured' = Append(captured, a)
  /\ where' = [where EXCEPT ![a] = "freed"]
  /\ UNCHANGED <<snapshotVars, captureVars, pendingVars, tickVars, untold, faults>>

\* From an exhibit: counted now; the census follows when a message is handled.
\* There has been a census before the first such release.
ReleasePlaced(a) ==
  /\ MayRelease /\ where[a] = "placed" /\ baseline # None
  /\ count' = count + 1
  /\ where' = [where EXCEPT ![a] = "leaving"]
  /\ UNCHANGED <<captured, snapshotVars, captureVars, pendingVars, tickVars, untold, faults>>

CensusFollows(a) ==
  /\ step = "idle" \/ "mid" \in Races
  /\ where[a] \in {"leaving", "late"}
  /\ where' = [where EXCEPT ![a] = "freed"]
  /\ UNCHANGED <<count, captured, snapshotVars, captureVars, pendingVars, tickVars,
                 untold, faults>>

\* Bought or born.
ArriveStored(a) ==
  /\ step = "idle" \/ "mid" \in Races
  /\ where[a] = "away"
  /\ where' = [where EXCEPT ![a] = "stored"]
  /\ UNCHANGED <<count, captured, snapshotVars, captureVars, pendingVars, tickVars,
                 untold, faults>>

ArrivePlaced(a) ==
  /\ MayChange /\ where[a] = "away"
  /\ where' = [where EXCEPT ![a] = "placed"] /\ untold' = untold \cup {"census"}
  /\ UNCHANGED <<count, captured, snapshotVars, captureVars, pendingVars, tickVars, faults>>

\* Dead or sold.
Lose(a) ==
  /\ MayChange /\ where[a] \in {"stored", "placed"}
  /\ where' = [where EXCEPT ![a] = "gone"]
  /\ untold' = untold \cup {IF where[a] = "stored" THEN "ids" ELSE "census"}
  /\ UNCHANGED <<count, captured, snapshotVars, captureVars, pendingVars, tickVars, faults>>

Tick ==
  \/ BeginTick \/ ReadCaptures \/ DrainCapture \/ EndDrain
  \/ ReadRoster \/ RosterUnreadable \/ Evict \/ EndEvict
  \/ ReadCensus \/ CensusUnreadable \/ AttributeDrop \/ EndDrops \/ RetirePending

Game ==
  \E a \in Animals : \/ ReleaseStored(a) \/ ReleasePlaced(a) \/ CensusFollows(a)
                     \/ ArriveStored(a) \/ ArrivePlaced(a) \/ Lose(a)

Next == Tick \/ Game

Spec == Init /\ [][Next]_vars

\* The poll loop never stops, and the game handles its messages.
Fairness == /\ WF_vars(Tick)
            /\ \A a \in Animals : SF_vars(CensusFollows(a))

FairSpec == Spec /\ Fairness

-----------------------------------------------------------------------------
(* Properties                                                              *)

\* Every variable holds a value of its type; in particular no more releases
\* are credited or given up than are pending.
TypeOK ==
  /\ where \in [Animals -> Places] /\ count \in Nat /\ captured \in Seq(Animals)
  /\ seen \in Nat /\ pending \in Nat /\ waited \in 0..GiveUp
  /\ cursor \in Nat /\ done \in SUBSET Animals /\ retry \in SUBSET Animals
  /\ cached \in SUBSET Animals /\ prev \in (SUBSET Animals) \cup {None}
  /\ baseline \in [Species -> Nat] \cup {None} /\ raw \in [Species -> Nat] \cup {None}
  /\ credits \in [Species -> Nat]
  /\ step \in Steps /\ removed \in SUBSET Animals
  /\ todo \in [old : SUBSET Animals, new : Seq(Animals)]
  /\ untold \in SUBSET {"ids", "census"} /\ faults \in 0..MaxFaults

ReleasedOf(s) == Cardinality({a \in Released : SpeciesOf[a] = s})

\* A species is credited at most once per release of one of its animals: the
\* capture, the id set and the census never consume two pending releases for
\* the same animal, and never take a death, a sale or another species'
\* release for one.
OncePerRelease == \A s \in Species : credits[s] <= ReleasedOf(s)

\* Every release of a known species is credited in the end, whichever source
\* shows it and whatever reads failed meanwhile.
EveryReleaseCredited ==
  <>[](\A s \in Mapped : credits[s] >= ReleasedOf(s))
=============================================================================
