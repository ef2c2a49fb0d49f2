----------------------------- MODULE MarketGate -----------------------------
(***************************************************************************)
(* The market gates of the Planet Zoo client: who owns the include-set     *)
(* buffer of each animal market (pz_ap_client/memory/market.py, and        *)
(* _reconcile_market, _on_park_unload and _shutdown_gates of client.py).   *)
(*                                                                         *)
(* A loaded park has one exchange manager per market.  The manager's       *)
(* include-set points at a buffer: the engine's own, which the engine      *)
(* frees when it tears the park down.  The client gates a market by        *)
(* pointing the include-set at a block it allocated in the game; freeing   *)
(* that block corrupts the engine's heap.  The client must therefore put   *)
(* the original pointer back before the park goes, and must neither free a *)
(* block that is still pointed at nor mistake the block of a killed client *)
(* for the original.                                                       *)
(*                                                                         *)
(* The engine loads, leaves and tears down parks; the poll worker gates    *)
(* both markets in its tick; the asyncio loop restores them at shutdown,   *)
(* and once more at interpreter exit, after the worker has been joined.    *)
(***************************************************************************)
EXTENDS Integers, FiniteSets

CONSTANTS
  Species,     \* species keys of the purchase universe
  Blocks,      \* places where the game has room for a buffer of the client
  Addrs,       \* addresses a park's managers can be at; the engine reuses them
  None,        \* no park, no pointer kept, no cached manager, nothing applied
  Races,       \* "close": shutdown may meet a tick inside apply_unlocked
  Faults,      \* steps that may fail: "alloc", "check", "capture", "write",
               \* "restore", "partial"
  MaxParks, MaxRuns   \* bounds: parks loaded, client processes

ASSUME PlacesAssumption ==
  /\ IsFiniteSet(Blocks) /\ Blocks \cap Nat = {}
  /\ None \notin Blocks /\ None \notin Addrs

ASSUME BoundsAssumption ==
  /\ MaxParks \in Nat /\ MaxRuns \in Nat
  /\ Races \subseteq {"close"}
  /\ Faults \subseteq {"alloc", "check", "capture", "write", "restore", "partial"}

Gates    == {"habitat", "exhibit"}
Sets     == SUBSET Species
Pointers == Blocks \cup 0..MaxParks
Parks    == [n : 1..MaxParks, addr : Addrs, phase : {"ap", "other", "leaving"}]
Wanted   == [keys : Sets, ids : Sets]
Origs    == [mgr : Addrs, ptr : Pointers, on : BOOLEAN]

ASSUME NoneAssumption ==
  None \notin Parks /\ None \notin Wanted /\ None \notin Origs /\ None \notin Gates

VARIABLES
  \* game process
  park,      \* the loaded park: its number, its managers' address, its phase
  inc,       \* per market of that park: the include-set's pointer and its flag
  known,     \* species whose handle the research map of the park yields
  mapped,    \* blocks of the client allocated in the game
  content,   \* the set each block holds
  freed,     \* history: what a teardown freed that it must not free, and whether
             \* the client had no way to prevent it
  spoilt,    \* history: gates of this park whose restore failed
  \* server
  unlocked,  \* species the items received so far unlock
  \* client process
  mode,      \* "up", then the two rounds of shutdown, or "down"
  turn,      \* the gate the round shuts down next, or None
  pc, job,   \* the poll worker: its place in the tick; gate, manager, block in hand
  was,       \* _session_was_active
  wanted,    \* the keys and ids this tick computed
  marked,    \* _market_last_allowed and _market_last_applied_ids
  buffer,    \* _buffer of each gate
  orig,      \* _orig of each gate
  mgr,       \* _mgr_cache of each gate
  checked,   \* _orphan_checked of each gate
  \* bounds
  parks, runs

engineVars == <<park, inc, known, freed, spoilt, parks>>
blockVars  == <<mapped, content>>
tickVars   == <<pc, job, was, wanted, marked>>
gateVars   == <<buffer, orig, mgr, checked>>
lifeVars   == <<mode, turn, runs>>
vars == <<engineVars, blockVars, unlocked, tickVars, gateVars, lifeVars>>

-----------------------------------------------------------------------------
\* Pointers are the client's blocks, 0, and n for the buffer the engine
\* allocated with its n-th park.
Null        == 0
Loaded      == park # None
Own         == park.n
Playing     == Loaded /\ park.phase = "ap"
ByClient(p) == p \in Blocks

\* exchange_mgr(): the cached manager, else the one of the loaded park, if any.
Resolved   == IF Loaded THEN park.addr ELSE None
Manager(g) == IF mgr[g] # None THEN mgr[g] ELSE Resolved

\* Whether an access through address m reaches the loaded park's manager.
Hits(m) == Loaded /\ park.addr = m

\* What an access through a stale address reads.
Images == [ptr : {Null}, on : BOOLEAN]

\* The worker is inside apply_unlocked of gate g.
Applying(g) == pc \in {"prepare", "blob", "point", "on"} /\ job.gate = g

Goto(l) == pc' = l
Take(g) == job' = [gate |-> g, addr |-> None, buf |-> None]
NoJob   == [gate |-> "habitat", addr |-> None, buf |-> None]

\* restore() finds the manager it gated: the address still resolves to it.
SameManager(g) == orig[g] # None /\ Hits(orig[g].mgr)

-----------------------------------------------------------------------------
(* Faulty variants of definitions below, none part of Spec: each shows     *)
(* that a property fails when the code is wrong in a plausible way.        *)

\* Takes the include-set as it is, a killed client's block included.
NeutralizeNothing(g, i) == i

\* Keeps the manager resolved for the writes.
DropNoManager(g) == [mgr EXCEPT ![g] = Manager(g)]

\* Frees the block without asking whether the include-set was put back.
FreeAlways(g, out) == buffer[g] # None

-----------------------------------------------------------------------------
Init ==
  /\ park = None /\ inc = [g \in Gates |-> [ptr |-> Null, on |-> FALSE]]
  /\ known = {} /\ freed = {} /\ spoilt = {} /\ parks = 0
  /\ mapped = {} /\ content = [b \in Blocks |-> {}]
  /\ unlocked = {}
  /\ mode = "down" /\ turn = None /\ runs = 0
  /\ pc = "idle" /\ job = NoJob /\ was = FALSE /\ wanted = None /\ marked = None
  /\ buffer = [g \in Gates |-> None] /\ orig = [g \in Gates |-> None]
  /\ mgr = [g \in Gates |-> None] /\ checked = [g \in Gates |-> FALSE]

(* The game. *)

\* A park is loaded: the AP scenario or another one.  Its managers may get the
\* address of an earlier park's.
LoadPark ==
  /\ ~Loaded /\ freed = {} /\ parks < MaxParks
  /\ parks' = parks + 1
  /\ \E a \in Addrs, phase \in {"ap", "other"}, p \in {Null, parks'}, k \in SUBSET Species :
       /\ park' = [n |-> parks', addr |-> a, phase |-> phase]
       /\ inc' = [g \in Gates |-> [ptr |-> p, on |-> FALSE]]
       /\ known' = k
  /\ spoilt' = {}
  /\ UNCHANGED <<freed, blockVars, unlocked, tickVars, gateVars, lifeVars>>

\* The research map goes on loading.
Learn ==
  /\ Loaded
  /\ \E s \in Species \ known : known' = known \cup {s}
  /\ UNCHANGED <<park, inc, freed, spoilt, parks, blockVars, unlocked, tickVars, gateVars, lifeVars>>

\* The player leaves the AP park: its name is gone, its managers still resolve.
Leave ==
  /\ Playing
  /\ park' = [park EXCEPT !.phase = "leaving"]
  /\ UNCHANGED <<inc, known, freed, spoilt, parks, blockVars, unlocked, tickVars, gateVars, lifeVars>>

\* The engine tears the park down and frees what the include-sets point at.
\* Assumed: it leaves a running client the time to notice that the AP park is
\* being left.  The client has no way to prevent that a block is freed that a
\* killed client left in a market nobody has gated since, or that could not be
\* taken back because the write failed.
Noticed == mode = "down" \/ (mode = "up" /\ pc = "idle" /\ ~was)
Teardown ==
  /\ Loaded /\ Noticed
  /\ freed' = {[ptr |-> inc[g].ptr, excused |-> ByClient(inc[g].ptr) /\ (~checked[g] \/ g \in spoilt)]
                 : g \in {h \in Gates : inc[h].ptr \notin {Null, Own}}}
  /\ park' = None
  /\ inc' = [g \in Gates |-> [ptr |-> Null, on |-> FALSE]]
  /\ known' = {}
  /\ UNCHANGED <<spoilt, parks, blockVars, unlocked, tickVars, gateVars, lifeVars>>

\* Items arrive; a reconnect empties items_received before it is filled again.
Unlock ==
  /\ mode = "up"
  /\ \E s \in Species \ unlocked : unlocked' = unlocked \cup {s}
  /\ UNCHANGED <<engineVars, blockVars, tickVars, gateVars, lifeVars>>

Reconnect ==
  /\ mode = "up" /\ unlocked # {}
  /\ unlocked' = {}
  /\ UNCHANGED <<engineVars, blockVars, tickVars, gateVars, lifeVars>>

(* The client process. *)

Start ==
  /\ mode = "down" /\ runs < MaxRuns
  /\ mode' = "up" /\ turn' = None /\ runs' = runs + 1
  /\ pc' = "idle" /\ job' = NoJob /\ was' = FALSE /\ wanted' = None /\ marked' = None
  /\ buffer' = [g \in Gates |-> None] /\ orig' = [g \in Gates |-> None]
  /\ mgr' = [g \in Gates |-> None] /\ checked' = [g \in Gates |-> FALSE]
  /\ unlocked' = {}
  /\ UNCHANGED <<engineVars, blockVars>>

\* The process is killed.  No later client has looked at its leftovers yet.
Kill ==
  /\ mode # "down"
  /\ mode' = "down" /\ turn' = None
  /\ Goto("idle") /\ checked' = [g \in Gates |-> FALSE]
  /\ UNCHANGED <<engineVars, blockVars, unlocked, job, was, wanted, marked,
                 buffer, orig, mgr, runs>>

-----------------------------------------------------------------------------
(* The tick of the poll worker. *)

\* _session_active(): the park's name, which a scan may miss, then the habitat
\* market's mode byte, which reads as anything through a stale manager.
BeginTick ==
  /\ mode = "up" /\ pc = "idle"
  /\ \E named, scenario \in BOOLEAN :
       /\ named => Playing
       /\ named /\ Hits(Manager("habitat")) => scenario
       /\ mgr' = IF named THEN [mgr EXCEPT !["habitat"] = Manager("habitat")] ELSE mgr
       /\ was' = (named /\ scenario)
       /\ Goto(IF named /\ scenario THEN "read" ELSE IF was THEN "unload" ELSE "idle")
  /\ job' = NoJob
  /\ UNCHANGED <<engineVars, blockVars, unlocked, wanted, marked, buffer, orig, checked, lifeVars>>

\* _reconcile_market: computes the unlocked set and the handles known for it,
\* and applies them when either has changed and the market's mode reads as the
\* scenario's.
Read ==
  /\ pc = "read"
  /\ LET ids == unlocked \cap known
         set == [keys |-> unlocked, ids |-> ids]
     IN  /\ wanted' = set
         /\ \/ set # marked /\ (ids # {} \/ unlocked = {}) /\ Goto("prepare")
            \/ /\ set = marked \/ (ids = {} /\ unlocked # {}) \/ ~Hits(Manager("habitat"))
               /\ Goto("fill")
  /\ mgr' = [mgr EXCEPT !["habitat"] = Manager("habitat")]
  /\ UNCHANGED <<engineVars, blockVars, unlocked, job, was, marked, buffer, orig, checked, lifeVars>>

\* apply_unlocked returned for the gate in hand.  Only the habitat gate's result
\* is looked at: the set is marked as applied before the exhibit gate gets it.
Succeed ==
  IF job.gate = "habitat"
  THEN marked' = wanted /\ Take("exhibit") /\ Goto("prepare")
  ELSE UNCHANGED <<marked, job>> /\ Goto("fill")
Fail == UNCHANGED <<marked, job>> /\ Goto("fill")

\* _neutralize_orphan_includeset: once per process and market, empties an
\* include-set that points at a tagged block, which a killed client left.
Neutralize(g, i) ==
  IF ~checked[g] /\ i.ptr \in mapped THEN [ptr |-> Null, on |-> FALSE] ELSE i

\* How the check ends: a failure is swallowed, with nothing written or with the
\* pointer alone, and the market counts as checked all the same.
Looked(g, seen) ==
  LET done == Neutralize(g, seen) IN
  {done} \cup IF "check" \in Faults THEN {seen, [done EXCEPT !.on = seen.on]} ELSE {}

\* _capture_original: what is known as the original once include-set i of
\* manager m was read.  A failing read is swallowed: there is no original, and
\* apply_unlocked goes on.
Captured(g, m, i) ==
  IF orig[g] # None THEN {orig}
  ELSE {[orig EXCEPT ![g] = [mgr |-> m, ptr |-> i.ptr, on |-> i.on]]}
         \cup IF "capture" \in Faults THEN {orig} ELSE {}

\* _alloc_buffer: the gate's block, which is never too small for the 78 species.
Room(g) == IF buffer[g] # None THEN {buffer[g]} ELSE Blocks \ mapped

\* Nothing is written: no manager, no block, or the exhibit market's mode, read
\* through a stale manager, is not the scenario's.
Refuse ==
  /\ pc = "prepare"
  /\ \/ Manager(job.gate) = None \/ Room(job.gate) = {} \/ "alloc" \in Faults
     \/ job.gate = "exhibit" /\ ~Hits(Manager("exhibit"))
  /\ mgr' = [mgr EXCEPT ![job.gate] = Manager(job.gate)]
  /\ Fail
  /\ UNCHANGED <<engineVars, blockVars, unlocked, was, wanted, buffer, orig, checked, lifeVars>>

\* apply_unlocked up to its first write: the manager, the block, the orphan
\* check and the capture of the original, once until it is restored.
Prepare ==
  /\ pc = "prepare"
  /\ LET g == job.gate
         m == Manager(g)
     IN  /\ m # None
         /\ mgr' = [mgr EXCEPT ![g] = m]
         /\ \E b \in Room(g) :
              /\ job' = [job EXCEPT !.addr = m, !.buf = b]
              /\ buffer' = [buffer EXCEPT ![g] = b]
              /\ mapped' = mapped \cup {b}
              /\ content' = [content EXCEPT ![b] = IF b \in mapped THEN @ ELSE {}]
         /\ \E seen \in IF Hits(m) THEN {inc[g]} ELSE Images :
            \E i \in Looked(g, seen) :
              /\ inc' = IF Hits(m) THEN [inc EXCEPT ![g] = i] ELSE inc
              /\ orig' \in Captured(g, m, i)
         /\ checked' = [checked EXCEPT ![g] = TRUE]
  /\ Goto("blob")
  /\ UNCHANGED <<park, known, freed, spoilt, parks, unlocked, was, wanted, marked, lifeVars>>

\* The set image goes into the block; a block freed meanwhile rejects it.
WriteBlob ==
  /\ pc = "blob"
  /\ \/ /\ job.buf \in mapped
        /\ content' = [content EXCEPT ![job.buf] = wanted.ids]
        /\ Goto("point") /\ UNCHANGED <<job, marked>>
     \/ /\ job.buf \notin mapped \/ "write" \in Faults
        /\ Fail /\ UNCHANGED content
  /\ UNCHANGED <<engineVars, mapped, unlocked, was, wanted, gateVars, lifeVars>>

\* The include-set is pointed at the block.
Point ==
  /\ pc = "point"
  /\ \/ /\ inc' = IF Hits(job.addr) THEN [inc EXCEPT ![job.gate].ptr = job.buf] ELSE inc
        /\ Goto("on") /\ UNCHANGED <<job, marked>>
     \/ "write" \in Faults /\ Fail /\ UNCHANGED inc
  /\ UNCHANGED <<park, known, freed, spoilt, parks, blockVars, unlocked, was, wanted,
                 gateVars, lifeVars>>

\* The include-set becomes the allow-list the next rebuild uses.
SwitchOn ==
  /\ pc = "on"
  /\ \/ /\ inc' = IF Hits(job.addr) THEN [inc EXCEPT ![job.gate].on = TRUE] ELSE inc
        /\ Succeed
     \/ "write" \in Faults /\ Fail /\ UNCHANGED inc
  /\ UNCHANGED <<park, known, freed, spoilt, parks, blockVars, unlocked, was, wanted,
                 gateVars, lifeVars>>

\* _reconcile_market_fill ends the tick; its mode check caches both managers.
Fill ==
  /\ pc = "fill"
  /\ mgr' = [g \in Gates |-> Manager(g)]
  /\ Goto("idle")
  /\ UNCHANGED <<engineVars, blockVars, unlocked, job, was, wanted, marked,
                 buffer, orig, checked, lifeVars>>

-----------------------------------------------------------------------------
(* Giving the markets back. *)

\* How the writes of restore() end: everything is put back or, when one fails,
\* nothing, or the pointer alone.
Outcomes == {"all"} \cup (IF "restore" \in Faults THEN {"nothing"} ELSE {})
                    \cup (IF "partial" \in Faults THEN {"pointer"} ELSE {})

\* restore(): resolves the manager anew, writes only to the one it gated, and
\* forgets the original unless a write failed.
Restored(g, out) == SameManager(g) /\ out = "all"
Failing(g, out)  == SameManager(g) /\ out # "all"
RestoreInc(g, out) ==
  IF ~SameManager(g) \/ out = "nothing" THEN inc
  ELSE [inc EXCEPT ![g] = [ptr |-> orig[g].ptr, on |-> IF out = "all" THEN orig[g].on ELSE @.on]]
RestoreOrig(g, out) == IF Failing(g, out) THEN orig ELSE [orig EXCEPT ![g] = None]
Spoil(g, out)       == IF Failing(g, out) THEN spoilt \cup {g} ELSE spoilt \ {g}
DropManager(g) == [mgr EXCEPT ![g] = None]

\* _on_park_unload: both gates, then nothing counts as applied any more.
Unload ==
  /\ pc = "unload"
  /\ \E out \in Outcomes :
       /\ inc' = RestoreInc(job.gate, out)
       /\ orig' = RestoreOrig(job.gate, out)
       /\ spoilt' = Spoil(job.gate, out)
  /\ mgr' = DropManager(job.gate)
  /\ IF job.gate = "habitat"
     THEN Take("exhibit") /\ UNCHANGED <<pc, marked>>
     ELSE Goto("idle") /\ marked' = None /\ UNCHANGED job
  /\ UNCHANGED <<park, known, freed, parks, blockVars, unlocked, was, wanted,
                 buffer, checked, lifeVars>>

\* _shutdown_gates, first round: the exit event is set, no further tick begins.
Close ==
  /\ mode = "up"
  /\ mode' = "close" /\ turn' = "habitat"
  /\ UNCHANGED <<engineVars, blockVars, unlocked, tickVars, gateVars, runs>>

\* shutdown(): the block is freed only when the include-set was put back or the
\* park is gone; otherwise it is leaked.
MayFree(g, out) == buffer[g] # None /\ (Restored(g, out) \/ ~Loaded)
ShutdownGate ==
  /\ mode \in {"close", "exit"} /\ turn # None
  /\ LET g == turn IN
     /\ Applying(g) => "close" \in Races
     /\ \E out \in Outcomes :
          /\ inc' = RestoreInc(g, out)
          /\ orig' = RestoreOrig(g, out)
          /\ spoilt' = Spoil(g, out)
          /\ mapped' = IF MayFree(g, out) THEN mapped \ {buffer[g]} ELSE mapped
     /\ buffer' = [buffer EXCEPT ![g] = None]
     /\ mgr' = DropManager(g)
  /\ turn' = IF turn = "habitat" THEN "exhibit" ELSE None
  /\ UNCHANGED <<park, known, freed, parks, content, unlocked, tickVars, checked, mode, runs>>

\* The worker has been joined: the second round, from atexit.
ExitRound ==
  /\ mode = "close" /\ turn = None /\ pc = "idle"
  /\ mode' = "exit" /\ turn' = "habitat"
  /\ UNCHANGED <<engineVars, blockVars, unlocked, tickVars, gateVars, runs>>

Exit ==
  /\ mode = "exit" /\ turn = None
  /\ mode' = "down"
  /\ UNCHANGED <<engineVars, blockVars, unlocked, tickVars, gateVars, turn, runs>>

-----------------------------------------------------------------------------
Game   == LoadPark \/ Learn \/ Leave \/ Teardown
Server == Unlock \/ Reconnect
Apply  == Refuse \/ Prepare \/ WriteBlob \/ Point \/ SwitchOn
Tick   == BeginTick \/ Read \/ Apply \/ Fill \/ Unload
Life   == Start \/ Kill \/ Close \/ ShutdownGate \/ ExitRound \/ Exit

Next == Game \/ Server \/ Tick \/ Life

Spec == Init /\ [][Next]_vars

-----------------------------------------------------------------------------
(* Properties                                                              *)

Labels   == {"idle", "read", "prepare", "blob", "point", "on", "fill", "unload"}

\* Every variable holds a value of its type.
TypeOK ==
  /\ park \in Parks \cup {None}
  /\ inc \in [Gates -> [ptr : Pointers, on : BOOLEAN]]
  /\ known \in Sets /\ spoilt \in SUBSET Gates
  /\ freed \in SUBSET [ptr : Pointers, excused : BOOLEAN] /\ parks \in 0..MaxParks
  /\ mapped \in SUBSET Blocks /\ content \in [Blocks -> Sets]
  /\ unlocked \in Sets
  /\ mode \in {"up", "close", "exit", "down"} /\ runs \in 0..MaxRuns
  /\ turn \in Gates \cup {None}
  /\ pc \in Labels /\ was \in BOOLEAN
  /\ job \in [gate : Gates, addr : Addrs \cup {None}, buf : Blocks \cup {None}]
  /\ wanted \in Wanted \cup {None} /\ marked \in Wanted \cup {None}
  /\ buffer \in [Gates -> Blocks \cup {None}]
  /\ orig \in [Gates -> Origs \cup {None}]
  /\ mgr \in [Gates -> Addrs \cup {None}] /\ checked \in [Gates -> BOOLEAN]

\* The engine never follows an include-set into memory that is gone: a pointer
\* is null, the buffer of the loaded park, or a block that is still allocated,
\* through kills, missed name scans, reloads at the same address and both rounds
\* of shutdown.
NoDangling ==
  \A g \in Gates : inc[g].ptr \in mapped \cup {Null} \cup IF Loaded THEN {Own} ELSE {}

\* The engine's teardown frees no block of the client and no buffer of another
\* park: the original was put back in time, and what was put back was not the
\* leftover of a killed client taken for the original.  Teardown names the two
\* cases the client cannot prevent.
NoForeignFree == \A f \in freed : f.excused

\* While the set counts as applied, the habitat market of the park being played
\* is gated by exactly that set; otherwise the client would never apply it again.
MarkedIsGated ==
  mode = "up" /\ Playing /\ marked # None /\ pc # "unload" /\ ~Applying("habitat")
    => LET i == inc["habitat"] IN i.on /\ ByClient(i.ptr) /\ content[i.ptr] = marked.ids

\* "Restrict BOTH animal markets": the exhibit market is gated as well once the
\* tick that applied the set is over.
BothGated ==
  mode = "up" /\ Playing /\ marked # None /\ pc = "idle" => inc["exhibit"].on
=============================================================================
