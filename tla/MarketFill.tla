----------------------------- MODULE MarketFill -----------------------------
(***************************************************************************)
(* The listings of one animal market of the game, and the two steps of the *)
(* client's tick that work on it: _reconcile_market installs the allow-    *)
(* list and expires blocked listings, _reconcile_market_fill keeps a       *)
(* minimum of listings (pz_ap_client/memory/market.py, client.py).         *)
(*                                                                         *)
(* The engine's Advance either rebuilds the candidate pool or spawns       *)
(* listings from it, never both in one frame.  It rebuilds when the client *)
(* has cleared the valid flag, and then rolls a new target and a new batch *)
(* size, which may be the dead roll 0.  The client and the engine share    *)
(* all of this memory and no lock.  What the engine does is modelled from  *)
(* how market.py uses it, whose comments disagree on the target: rolled    *)
(* with a rebuild only (lines 57-60, 103, 541), or every frame (lines      *)
(* 274-275, 528).                                                          *)
(***************************************************************************)
EXTENDS Integers, Sequences, FiniteSets, SequencesExt

CONSTANTS
  Species,
  MinListings,  \* MARKET_MIN_LISTINGS
  PerSpecies,   \* listings of one species the engine offers at most
  Races,        \* "sale": a sale while blocked listings are being expired
                \* "rebuild": a rebuild between measuring and raising the target
                \* "frames": the engine rolls a target every frame
  MaxChanges    \* bound: changes of the unlocked set

ASSUME SizesAssumption ==
  /\ IsFiniteSet(Species)
  /\ MinListings \in Nat /\ PerSpecies \in Nat \ {0} /\ MaxChanges \in Nat
  /\ Races \subseteq {"sale", "rebuild", "frames"}

VARIABLES
  \* game
  gated, set,     \* the include-set filters, and what it holds
  valid,          \* the pool needs no rebuild (POOL_DIRTY # 0)
  pool,           \* candidate pool
  live,           \* the listings, in the order of the array
  target, batch,  \* listings wanted, listings per spawn
  force,          \* spawn now, do not wait for the timer
  \* client
  unlocked,       \* species the received items unlock
  marked,         \* the set the client counts as applied
  pc,             \* place in the tick
  wanted,         \* the set this tick applies
  idx, seen,      \* cursor of the expiry and length of the array when it began
  ask,            \* what the fill step measured: whether to raise the target, and to what
  cool,           \* _FILL_WAKE_COOLDOWN_S has passed since the last wake
  changes

gameVars   == <<gated, set, valid, pool, live, target, batch, force>>
clientVars == <<marked, pc, wanted, idx, seen, ask, cool>>
worldVars  == <<unlocked, changes>>
vars == <<gameVars, clientVars, worldVars>>

-----------------------------------------------------------------------------
Listings   == [species : Species, expired : BOOLEAN]
Unmarked   == [keys |-> {}, applied |-> FALSE]
Mark(s)    == [keys |-> s, applied |-> TRUE]
Offered(s) == Cardinality({i \in DOMAIN live : live[i].species = s})
Larger(m, n)  == IF m > n THEN m ELSE n
Smaller(m, n) == IF m < n THEN m ELSE n
NoAsk   == [raise |-> FALSE, target |-> 0]
Goto(l) == pc' = l

Expiring == pc = "expire"

Rolls(species) == 0..(PerSpecies * Cardinality(species))

(* Faulty variants of definitions below, none part of Spec.                *)

\* Asks for MARKET_MIN_LISTINGS however small the pool is.
FloorUncapped(n) == Larger(n, MinListings)

\* Asks for a rebuild with every wake.
WakeClearsValid ==
  /\ force' = TRUE /\ valid' = FALSE /\ batch' = Larger(batch, 1) /\ cool' = FALSE

\* Installs the set without asking for a rebuild of the pool.
RequestNoRebuild == UNCHANGED valid

-----------------------------------------------------------------------------
\* A new park: no gate, a full pool and whatever the engine lists from it.
Init ==
  /\ gated = FALSE /\ set = {} /\ valid = TRUE /\ pool = Species
  /\ live \in {<<>>} \cup {<<[species |-> s, expired |-> FALSE]>> : s \in Species}
  /\ target \in Rolls(Species) /\ batch \in {0, 1} /\ force = FALSE
  /\ unlocked = {} /\ marked = Unmarked /\ pc = "idle" /\ wanted = {}
  /\ idx = 1 /\ seen = 0 /\ ask = NoAsk /\ cool = TRUE /\ changes = 0

(* The engine. *)

\* Advance, rebuild branch: filters the candidates and rolls target and batch.
Rebuild ==
  /\ ~valid
  /\ pc = "raise" => "rebuild" \in Races
  /\ valid' = TRUE
  /\ pool' = IF gated THEN set ELSE Species
  /\ target' \in Rolls(pool')
  /\ batch' \in {0, 1}
  /\ UNCHANGED <<gated, set, live, force, clientVars, worldVars>>

\* The target that a frame without a rebuild works with.
Frame == target' \in IF "frames" \in Races THEN Rolls(pool) ELSE {target}

\* Advance, spawn branch.  Without the force flag it waits for its timer.
CanSpawn == valid /\ Len(live) < target /\ batch > 0 /\ \E s \in pool : Offered(s) < PerSpecies
Spawn ==
  /\ Frame
  /\ valid /\ Len(live) < target' /\ batch > 0
  /\ \E s \in pool :
       /\ Offered(s) < PerSpecies
       /\ live' = Append(live, [species |-> s, expired |-> FALSE])
  /\ UNCHANGED <<gated, set, valid, pool, batch, force, clientVars, worldVars>>

\* The target is met: the engine clears the force flag.
Satisfied ==
  /\ Frame
  /\ valid /\ force /\ Len(live) >= target'
  /\ force' = FALSE
  /\ UNCHANGED <<gated, set, valid, pool, live, batch, clientVars, worldVars>>

\* A listing leaves the array: expired, or sold.  The ones behind it move up.
Leave(i) ==
  /\ Expiring => "sale" \in Races
  /\ live' = RemoveAt(live, i)
  /\ UNCHANGED <<gated, set, valid, pool, target, batch, force, clientVars, worldVars>>
Expire == \E i \in DOMAIN live : live[i].expired /\ Leave(i)
Sell   == \E i \in DOMAIN live : ~live[i].expired /\ Leave(i)

\* Items arrive, or a reconnect empties the received items.
Change ==
  /\ changes < MaxChanges
  /\ changes' = changes + 1
  /\ \/ \E s \in Species \ unlocked : unlocked' = unlocked \cup {s}
     \/ unlocked # {} /\ unlocked' = {}
  /\ UNCHANGED <<gameVars, clientVars>>

Cool == ~cool /\ cool' = TRUE
        /\ UNCHANGED <<gameVars, marked, pc, wanted, idx, seen, ask, worldVars>>

-----------------------------------------------------------------------------
(* The client's tick. *)

\* _reconcile_market: applies the set only when it differs from the one marked.
Read ==
  /\ pc = "idle"
  /\ wanted' = unlocked
  /\ Goto(IF Mark(unlocked) = marked THEN "measure" ELSE "apply")
  /\ UNCHANGED <<gameVars, marked, idx, seen, ask, cool, worldVars>>

\* apply_unlocked: the set first, the valid flag last.
Apply ==
  /\ pc = "apply"
  /\ gated' = TRUE /\ set' = wanted
  /\ Goto("dirty")
  /\ UNCHANGED <<valid, pool, live, target, batch, force, marked, wanted, idx, seen, ask, cool,
                 worldVars>>

RequestRebuild == valid' = FALSE
Dirty ==
  /\ pc = "dirty"
  /\ RequestRebuild
  /\ marked' = Mark(wanted)
  /\ idx' = 1 /\ seen' = Len(live)
  /\ Goto("expire")
  /\ UNCHANGED <<gated, set, pool, live, target, batch, force, wanted, ask, cool, worldVars>>

\* expire_blocked_listings, one entry: an entry beyond the array's end is memory
\* the engine has given up.
ExpireNext ==
  /\ pc = "expire" /\ idx <= seen
  /\ live' = IF idx \in DOMAIN live /\ live[idx].species \notin wanted
             THEN [live EXCEPT ![idx].expired = TRUE] ELSE live
  /\ idx' = idx + 1
  /\ UNCHANGED <<gated, set, valid, pool, target, batch, force,
                 marked, pc, wanted, seen, ask, cool, worldVars>>

ExpireDone ==
  /\ pc = "expire" /\ idx > seen
  /\ Goto("measure")
  /\ UNCHANGED <<gameVars, marked, wanted, idx, seen, ask, cool, worldVars>>

\* ensure_min_fill: about two listings per species of the pool are within reach.
Floor(n) == Larger(n, Smaller(MinListings, 2 * n))
Measure ==
  /\ pc = "measure"
  /\ LET f == Floor(Cardinality(pool)) IN
       ask' = [raise |-> target < f, target |-> Larger(target, f)]
  /\ Goto("raise")
  /\ UNCHANGED <<gameVars, marked, wanted, idx, seen, cool, worldVars>>

\* The wake: repairs a dead batch roll and arms the force flag.  It leaves the
\* pool valid: a frame that rebuilds does not spawn.
Wake ==
  /\ force' = TRUE /\ batch' = Larger(batch, 1) /\ cool' = FALSE
  /\ UNCHANGED valid

Raise ==
  /\ pc = "raise"
  /\ target' = IF ask.raise THEN ask.target ELSE target
  /\ IF Len(live) < ask.target /\ cool THEN Wake ELSE UNCHANGED <<force, batch, valid, cool>>
  /\ Goto("idle")
  /\ UNCHANGED <<gated, set, pool, live, marked, wanted, idx, seen, ask, worldVars>>

-----------------------------------------------------------------------------
Engine == Rebuild \/ Spawn \/ Satisfied \/ Expire \/ Sell
Tick   == Read \/ Apply \/ Dirty \/ ExpireNext \/ ExpireDone \/ Measure \/ Raise

Next == Engine \/ Tick \/ Change \/ Cool

Spec == Init /\ [][Next]_vars

\* The engine advances every frame, many times between two ticks: it rebuilds
\* and expires although it does not while the client is at the steps the races
\* exclude, and it spawns once it is forced to and able to.  The client ticks
\* for ever and time passes.  Nothing makes the timer elapse or a player buy.
Fairness ==
  /\ SF_vars(Rebuild) /\ SF_vars(Expire)
  /\ WF_vars(force /\ Spawn) /\ WF_vars(Satisfied)
  /\ WF_vars(Tick) /\ WF_vars(Cool)

FairSpec == Spec /\ Fairness

-----------------------------------------------------------------------------
(* Properties                                                              *)

\* Every variable holds a value of its type.
TypeOK ==
  /\ gated \in BOOLEAN /\ set \in SUBSET Species /\ valid \in BOOLEAN
  /\ pool \in SUBSET Species /\ live \in Seq(Listings)
  /\ target \in Nat /\ batch \in {0, 1} /\ force \in BOOLEAN
  /\ unlocked \in SUBSET Species /\ marked \in [keys : SUBSET Species, applied : BOOLEAN]
  /\ pc \in {"idle", "apply", "dirty", "expire", "measure", "raise"}
  /\ wanted \in SUBSET Species /\ idx \in Nat /\ seen \in Nat /\ ask \in [raise : BOOLEAN, target : Nat]
  /\ cool \in BOOLEAN /\ changes \in 0..MaxChanges

\* Once a set has been applied the market offers no species outside it, except
\* listings that are about to go: what the engine spawned from the old pool
\* while the set was being written was still there to be expired, and what it
\* spawns later comes from the new pool.
NoBlockedListing ==
  marked.applied /\ pc \notin {"dirty", "expire"} =>
    \A i \in DOMAIN live : live[i].species \in set \/ live[i].expired

\* A market with candidates is not dead: whatever batch the engine rolled and
\* however small its target, a listing appears again and again.
Stocked == []<>(live # <<>> \/ pool = {})

\* When nothing more is unlocked and nothing more is sold, the client's wakes
\* stop: it never asks for more listings than the pool can give.
WakesStop == <>[][~Sell /\ ~Change]_vars => <>[](~force)
=============================================================================
