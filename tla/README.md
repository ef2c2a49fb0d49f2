# Planet Zoo Archipelago client: TLA+ models, checks and proofs

The client (`pz_ap_client/`) connects a running Planet Zoo to an Archipelago multiworld server. It
attaches to the game process, reads its memory, patches its code with detours and writes balances and
flags; it reports location checks to the server and applies the items the server sends. There is no
cooperation from the game: everything the client knows it reads from a process that runs on meanwhile,
and everything it leaves behind outlives it.

This directory models the parts of that client whose correctness depends on *order*: threads of the
client against each other, the client against the game, and one client process against the next.

## 1. Inventory

Paths are relative to `src/pz_ap_client/`.

| Component | State it keeps | Operations | Talks to | Hard behaviour |
|---|---|---|---|---|
| **Item application and money ledger**: `client.py` `_apply_new_items` and what it calls, `state.py`, `memory/applier.py`, `memory/anchors.py` | high-water mark and granted totals per slot (memory and a JSON file), mark at session start, fresh-save latch, wait counter | `Connected`, `ReceivedItems`, disconnect, tick; fresh-save detection; apply or pause an item; reconcile money; reconcile the purchase gate | the server (item list), the game (balances, park age), the disk | two threads without a lock; kill between two writes; reconnect with a shorter list; save replaced or park switched underneath |
| **Detours**: `memory/hook.py`, `memory/signatures.py`, each gate's `ensure_installed` and `shutdown` | recorded hooks, active names, arena blocks, live count | resolve and recover, install, restore, allocate and release a slot, shutdown and `atexit` | the game's code and address space, which survive the client | crash of the client at any step; two installers; shutdown during a tick; reference count against leaked slots; game threads inside a trampoline |
| **Exhibit release attribution**: `memory/triggers.py` `_poll_exhibit_release`, `memory/releases.py`, `memory/animals.py` | pending releases, waiting time, capture cursor, retry set, species cache, id snapshot, census baseline | drain captures, diff the id set, diff the census, give up | three structures of the game that change at different moments | double counting, dropping, deaths and sales that look like releases, ring overrun, failing reads |
| **Habitat release, birth, acquisition detection**: `memory/triggers.py`, `memory/births.py`, `memory/exhibits.py`, `memory/releases.py` | handle to species cache, seen species, counters, lock of the release gate | drain rings, sweep the roster, attribute, open the gate | detour rings, roster | count and handle read separately, handles used again, animals gone before they are looked up |
| **Event rings**: `memory/hook.py` readers and trampolines | cursor per ring | count and slot written by the game, drained by the client | game threads | overrun, a failing read, count stored before the slot |
| **Market gates**: `memory/market.py` | include-set buffer, captured original, manager cache | apply, grow, restore, shut down, neutralise an orphan | exchange manager of the loaded park | the engine frees what it points to; stale manager; process death |
| **Overlay installer**: `ovl.py` | patched files, two backups, stamp | status, install, restore | game files, Steam | failure between steps, backups overwritten with patched files |
| **Hash tables shared with the game**: `memory/market.py`, `memory/animals.py`, `memory/rewards.py` | none | build a set, probe, sweep | memory in the game's format | a set without a free slot, wrapping, the key 0 |
| **Check reporting and goal**: `client.py` | queue of checks, reported set, what the server told, goal | collect in the worker, report on the loop, goal, resend | the server | hand-over between threads, connections that end, the goal ahead of its checks |
| **Purchase gate contents**: `memory/permits.py`, rules of `data.py` | gated, unlocked and written species | unlock, reconcile, write ids, then count | trampoline that reads them | lists rewritten under a reader, capacity, restarts, items out of order |
| **Session and park age**: `memory/session.py`, `memory/zoodate.py` | cached instances, last value, scan throttle | read, rescan, invalidate | the heap | stale cached values, memory used again |
| **Research**: `memory/research.py`, `memory/triggers.py` | gated categories, locations done | read completion and milestones, stop research, block its start | records that the game writes too | the client reads what it writes |
| **Reward granting**: `memory/rewards.py` | snapshot of names, levels and effects already applied | set flags, levels, effects, status gates back to what the items say | maps that the game writes too | names that appear late, counting twice |
| **Bytecode gates**: `memory/terrain.py`, `memory/exhibit_enrich.py` | located functions, original bytes | locate, patch, shut down | Lua functions in the heap | copies moved by a load, copies left by a killed client |
| **Self-check**: `memory/signatures.py`, `client.py` preflight | roots found | scan, resolve, recover, report | the image of the game | a report computed by other code than the installation it vouches for |
| **Placement and presence gates**: `facilities.py`, `presence.py` | as the purchase gate | | | the first has no known site, the second no caller |
| **Memory access, data, scripts, tools** | none | I/O, tables | | failures appear as failing steps elsewhere |

How they interact. The asyncio loop owns the connection: `on_package` calls `_apply_new_items` directly.
`poll_loop` runs `_poll_tick` in an executor thread about once a second and waits for it before the next
one; the tick polls the triggers, applies items and reconciles every gate. So two threads run the item and
gate code over the same objects, with no lock. Shutdown runs on the loop (`_shutdown_gates`), possibly
while a tick is still under way, and again through `atexit` once the executor has been joined. All detectors
share one process-wide trampoline arena. Detected checks go through a list to the loop.

What makes each component correct:

* ledger: no money twice and none lost, only ever added, never in a foreign park; the mark never skips an
  unapplied item; a stalled item delays nothing but itself;
* detours: a patched site always leads to mapped code of its own; records agree with the game; a normal exit
  restores everything; a crash is healed by the next process;
* exhibit releases: each release credits its species once, and eventually;
* habitat animals: no check is reported whose event did not happen, and every event of a known species is;
* market gates: the engine never refers to memory the client has freed, nor frees memory the client owns;
* installer: the backups are always vanilla, or the state is one from which install refuses;
* checks: each condition that was met is a check on the server in the end, and the goal never overtakes its checks;
* session and age: inert in foreign parks, and a zoo is new exactly in its first year;
* gates: blocked exactly while an item is missing, after any order of items, restarts and late attaches, and no reader of
  a list lets through what is blocked before and after;
* rewards: those of the items and no others, and a second tick changes nothing;
* reading what it writes itself: a location counts only when the player earned it;
* patches: each copy of a function computes what the items say, and is as it was when the client is gone;
* self-check: a site reported sound installs, and live code of others is left alone.

## 2. Plan

| Order | Module | Models | State |
|---|---|---|---|
| 1 | `ItemLedger`, refining `MoneyGrant` | item application and money | checked; every safety property and the refinement proved |
| 2 | `HookLifecycle` | detours, arena, shutdown, recovery | checked and proved |
| 3 | `ExhibitRelease` | exhibit release attribution | checked and proved |
| 4 | `MarketGate` | include-set ownership between client and engine | checked and proved |
| 5 | `MarketFill` | the listings of a market between client and engine | checked and proved |
| 6 | `OvlInstall` | status, install, restore, jobs that end early | checked and proved |
| 7 | `AnimalEvents`, refining `CheckSource` | rings, roster, cache, attribution, release gate | checked; types and the safety half of the refinement proved |
| 8 | `ParkSession`, `CheckReport`, composed in `ClientLoop` | session detection, checks, goal, connections | checked and proved |
| 9 | `GateLists`, `ResearchRules`, `ContentRewards`, `BytePatches`, `ParkAge` | the rules of the gates and rewards over all small histories | checked and proved |
| 10 | `SelfCheck`, `HashTables` | signatures and preflight; tables shared with the game | checked and proved |

The proofs go as far as the prover does: each safety invariant that a run checks is a theorem, of the state machines and of
the constant-level modules, and so is each action property and refinement without fairness. What TLC alone checks is liveness.

## 3. Modules

| Module | Content |
|---|---|
| `ItemLedger.tla` | the specification of item application; at its head, faulty variants used only to show that the properties can fail |
| `MoneyGrant.tla` | abstract specification: each kind of money is granted as one addition up to the worth of a prefix of the sent items |
| `ItemLedgerProofs.tla` | types, mark, bounds of the ledger, no money lost, every undisturbed pass settles; with one connection the exact ledger and the refinement of `MoneyGrant` |
| `HookLifecycle.tla` | the specification of detours and arena |
| `HookLifecycleProofs.tla` | types, records, the safety of the arena, that a normal exit restores everything; of the self-check `VerdictsAgree` |
| `ExhibitRelease.tla` | the specification of exhibit release attribution |
| `ExhibitReleaseProofs.tla` | types, and `OncePerRelease` under the condition `Orderly` |
| `MarketGate.tla` | the specification of the include-set buffers of both markets |
| `MarketGateProofs.tla` | types, the two ownership properties under the condition `Careful`, and `MarkedIsGated` under the condition `Writes` |
| `MarketFill.tla` | the specification of one market's listings and the two tick steps that work on them |
| `MarketFillProofs.tla` | types, `NoBlockedListing` while nothing leaves during the walk, no wake in vain; of the hash tables `SetsFound` |
| `OvlInstall.tla` | the specification of installing and removing the scenario shell |
| `OvlInstallProofs.tla` | types, and the three safety invariants under the condition `Careful` |
| `CheckSource.tla` | abstract specification: events happen, and are reported as checks, never before and in the end |
| `AnimalEvents.tla` | the specification of the detection of births, acquisitions and habitat releases |
| `AnimalEventsProofs.tla` | types, and that no check is reported whose event did not happen, under the condition `Steady` |
| `ParkSession.tla` | parks in the heap, and the reader that decides whether the scenario is loaded |
| `CheckReport.tla` | checks and goal between worker, event loop, connection and server |
| `ClientLoop.tla` | the tick that composes the two, with the properties that need both |
| `ClientLoopProofs.tla` | types, `GoalAfterChecks`, nothing reported is forgotten, `InertElsewhere` under the condition `Plain`, the scenario found at once, and of the rules `ScratchNeverGaps`, `GatesHold`, `AgeKnown`, `PatchesHold`, `RewardsInForce` and `ChecksTrue` |
| `GateLists.tla` | purchase and research gates: what is blocked, and how the lists are rewritten under a walk |
| `ResearchRules.tla` | completion, levels, milestones and the status gates, over records that client and game write |
| `ContentRewards.tla` | names, flags, levels, effects and counters of rewards |
| `BytePatches.tla` | the terrain and enrichment gates: finding, patching, leaving, and what the patches compute |
| `ParkAge.tla` | the reader of the years a park has been open |
| `Reachability.tla` | what so many steps lead to: the histories of the constant-level modules |
| `SelfCheck.tla` | signature scan, hook and root resolution, the report |
| `HashTables.tla` | building, probing and sweeping open-addressing tables |
| `MC*.tla`, `*.cfg` | instances and runs |

### ItemLedger

`pc[p]` says where thread `p` ("loop" or "worker") stands in `_apply_new_items`, `loc[p]` holds its locals:
the range it iterates, the targets computed once, the money kind in hand, the balance it read. One action
stands for one access to something another party can change: `ReadBalance`, `WriteBalance` and `PersistGrant`
are three steps because the game, the other thread or a kill can come in between; `Persisted` is one step
because the file is replaced atomically. `mem` and `disk` are the two copies of `ClientState`, keyed by slot.
`Crash` forgets everything but `disk` and the game. `SaveFails` is a save that raises: the setter has changed the memory,
the file stays as it was, and the exception ends the handler or the tick's step.

`gate` is the purchase gate as the threads share it: whether its hook is there, the permits it holds (`unlocked`), and those
its list in the game was built from (`listed`). `UnlockItem` is the permit of one item, `ReadItems` and `SetUnlocked` are
`_reconcile_permits` and `reconcile` up to their first write, and `BuildList`, `WriteList` are `_sync`: what it computes and what
it writes are two steps, as the other thread may come in between. The single writes of a list are in `GateLists`.

`Resolved` and `YearsKnown` are what the memory readers deliver: nothing without a loaded park, and not always
with one. `book[b]` is the balance of park `b` together with two history components, its last baseline and
what the player did since; `Given` is what remains, the client's own doing. `acked` records which items were
applied. `ledgerFor` says that the ledger in force is about the save now in the AP park; it is false between a
new save (or its baseline) and the reset of the ledger, and the money properties speak only when it is true.

`Races` selects interleavings and failures. Without `"overlap"` in `Races` a thread starts only when the other rests;
without `"player"` the player acts only then; `"save"` admits saves that fail. All are possible in the program; separating
them shows which property depends on which.

### HookLifecycle

`site`, `mapped` and `inside` belong to the game and survive the client; `hooks`, `active`, `used` and `live`
are `HookManager.hooks`, `_active_names`, `_arenas` and `_arena_live` and die with it. Installing runs
Resolve, Verify, (PickRoom, Bump | FreshBlock), WriteCode, Patch, Record; the arena's check and bump are two
steps because the loop in `_arena_alloc` is not atomic between threads. `BumpCountOnly`, `ReleaseFrees` and the
like are the faulty variants. `InstallFails` and `UnpatchFails` are memory accesses that raise, swallowed by
`ensure_installed` and `shutdown`; the slot then stays counted for ever. `JoinWorker` starts the second round of
restores, when the executor has been joined. `StopClient` ends the process at any step.

`Resolve` takes the recovery with it: whatever detour is at the site is one of ours, mapped (its trampoline
embeds the original bytes) or unmapped, and both cases rewrite the original bytes.

The further hooks of the release detector (`Best`: the two exhibit hooks and the species capture) are tried in the call that
installs its first hook (`Leader`), and never again, as `installed` is set by then (`releases.py:91-114`). `tried` says which of
them have had their try, `Unresolved` is one whose site is not found, and `failed` remembers those whose try fell to a fault.

`Races` allows an install to meet another one (`"install"`) or shutdown to meet an install (`"close"`).

### ExhibitRelease

One tick is a chain of steps, one per read: count, captures, id set (with the def map), census, give-up.
`where[a]` is where the game has the animal; the three sources are functions of it and of the ring. The faulty
reads return what the code makes of a failure: 0 for the count, no captures and an unmoved cursor, no def map,
no id set, no census. `credits` counts what `_released_species` only collects, so that crediting one release
twice at the expense of another is visible. `untold` marks a death, sale or arrival that the client's
snapshots do not show yet.

What the game does during a tick (`"mid"`) or in the window of a release (`"mixed"`), and whether its message
queue may take longer than a tick (`"slow"`), is selected by `Races`.

### MarketGate

`park`, `inc`, `mapped` and `content` belong to the game: the loaded park, what each market's include-set points at,
and the blocks the client allocated. A pointer is a block, 0, or the number of the park whose engine buffer it is;
a manager is an address, and addresses are reused. `buffer`, `orig`, `mgr` and `checked` are `_buffer`, `_orig`,
`_mgr_cache` and `_orphan_checked`; `marked` stands for the two variables that remember what was applied.
`apply_unlocked` is `Prepare`, `WriteBlob`, `Point`, `SwitchOn`, for the habitat gate and then the exhibit gate;
`Refuse` is every early return. An access through a manager of an earlier park reaches nothing of the loaded one
(`Hits`), and what is read through it is arbitrary. `Unload` is one gate of `_on_park_unload`, `ShutdownGate` one gate
of a round of `_shutdown_gates`. `LoadPark`, `Leave`, `Teardown` are the engine's; `freed` records what a teardown
freed that was not its own.

Faults: the allocation, the orphan check (`Looked`: as a whole, or after its first write), the read of the original (`Captured`:
`apply_unlocked` goes on without one), a write, the restore as a whole or after its first write.
`NeutralizeNothing`, `DropNoManager` and `FreeAlways` are the faulty variants.

### MarketFill

The engine's side is external, modelled from what `market.py` says it relies on: `Rebuild` and `Spawn` are the two
branches of the engine's update, which exclude each other; a rebuild rolls `target` and `batch` anew, and a batch
of 0 is the dead roll. The source is not of one mind on the target: `market.py:57-60`, 103 and 541 say that it is rolled with a
rebuild, 274-275 and 528 that the engine recomputes it every frame. The first reading is the module's; the second is
`Frame` with `"frames"` in `Races`. The client's side is the whole tick: `Read`, `Apply`, `Dirty` for `_reconcile_market` and
`apply_unlocked`; `ExpireNext` once per entry of `expire_blocked_listings`, which keeps the count it read at first
while the array moves; `Measure` and `Raise` for `ensure_min_fill`, with the measurement carried from one step
to the other.

### OvlInstall

The contents of an archive are a game version, how often a shell was injected over it, and the shell on top: a second
injection and a torn copy can be told from a first one and from vanilla. `status()` is the operator `Status`, which
like the code looks only at `Main.ovl`, its backup, the pack and the stamp. `install` and `restore` are one action per
file operation; the copies that are not atomic (the backups, and the copies back) are two actions with a torn file in
between, while a deployment, which moves a finished file into place, is one. `Stop` ends the job before any step
in `Stops`, whether it raises or the client is killed: nothing is rolled back in either case. `Update`, `VerifyFiles`,
`UpgradeClient`, `LosePack` and `Uninstall` come between jobs. `Advice` is what `/pz_mod` tells the user.

### AnimalEvents

The tick of `MemoryTriggerSource.poll` is a chain of steps, one per read: `ReadRing`, `DrainInsert` once per record,
`DrainExhibit`, `SweepRoster`, `ReadReleases`, `AttributeRelease`, `EndTick`; the game buys, bears, places, ages, loses
and releases animals between any two. `log` is what the detours have counted; what a reader finds in a slot is
`InSlot`, another record when the ring went round. A handle is looked up in the roster as it is when the record is
drained, and a release is attributed through `cache`, because its animal is gone by then. The species capture is a detour of its own: `InstallGate` is followed by `InstallCapture`, once,
and a capture that could not be installed leaves the gate without a handle to attribute a release by. `lock` is the flag in the
game, `locked` the client's wish. `happened` is history: the checks that the events stand for. `CheckSource` sees only
`happened` and `reported`, and `ReportsEvents` is the refinement.

### ClientLoop, ParkSession, CheckReport

`ParkSession`: `mem` is what each place of the heap holds (the loaded park, a park that is gone, free memory, or
a park whose name the script has not written yet); `cached`, `lastVal` and `cooling` are the reader's. `Reading` is
`read()` as one step: cached instances first, then a scan if the throttle allows one. `IsApSession` also asks for
the exchange, and `DecideSession` with `wasActive` drops the cache when the scenario is left.

`CheckReport`: `seen` and `pending` belong to the worker, `sent`, `checked`, `goalIds`, `finished` to the loop, `outbox` to the
connection, `recorded` and `won` to the server. `Send` loses what is sent while the slot is unknown; `OnConnected` puts
what is remembered first into the new connection, as the base client does, and then the goal. `Disconnect` loses the
outbox.

`ClientLoop` joins them in one tick: `BeginTick` decides, `PollTriggers` runs in the worker, `Drain` reports one queued
check per step on the loop, and packets, `/pz_check` and lost connections come in between.

### The constant-level modules

Gates and rewards are reconciled: the whole state is set to what the items say, in one call that nothing interrupts. What
can go wrong lies in the order of items, ticks, restarts, loads and the game's own writes. These modules hold the
code as operators from one state to the next, build every history of a bounded number of events as a set, and state
one formula over it. They have no variables; their formulas are read as invariants of the run of the step that applies
them: `MCClientLoop` (`ScratchNeverGaps`, `GatesHold`, `RewardsInForce`, `ChecksTrue`, `PatchesHold`, `AgeKnown`),
`MCHookLifecycle` (`VerdictsAgree`) and `MCMarketFill` (`SetsFound`).

* `GateLists`: `Written` is `_sync`, entry by entry with the count last; a walk of the trampoline reads any entry before
  or after any of these writes. `Sync` lists the species that have a handle (`named`) at that moment (`known`), and any of its writes
  may fail, which ends it (`whole`). `ReconcileResearch` closes the research gate and then stops what runs, when the gated set has
  changed; each of its writes may fail, the player may start research between its two steps, and a park may be loaded
  with research running. What a failed write or a load left running is `spared`.
* `ResearchRules` extends it: one park of records that the player completes, and that the client completes, stops and gates. `ReadTitles` reads
  the titles that can be resolved when the first of them can, and never again (`research.py:339-340`).
* `ContentRewards`: `_flip` with what it has counted, the families of levels, names that come late.
* `BytePatches`: the heap as a few places for copies of the functions, plain or patched. A load puts copies to any places and leaves
  any of the earlier ones; kills leave theirs patched, copies that do not run are freed, and a write may fail at any of them (`torn`).
  A replacement is a tuple of instructions and is executed on the registers it uses.
* `ParkAge`: reads over parks of any age, with the template that never ages.
* `SelfCheck`: the scan over a module of any size, with any matches and one unreadable chunk; every state of a hook site.
* `HashTables`: the table built from any list under any hash, the probe of the game and the readers of the client. The table is built by
  a recursive function over the list, so that it can be proved about.

## 4. Runs

| Run | Spec | Shows | States |
|---|---|---|---|
| `ledger_session` | `Spec` | `ExactGrant`; `ItemLedger` implements `MoneyGrant` | 535 thousand |
| `ledger_restarts` | `FairSpec` | `NeverShort`, `LedgerCatchesUp`, `GateCatchesUp` with kills at every step, a new save, an outage, a late park age and an item that stalls for ever | 1.22 million |
| `ledger_threads` | `Spec` | `MarkAcked`, `LedgerWithinSent` with overlapping threads and saves that fail | 2.32 million |
| `hooks_serial` | `Spec` | `DetourMapped`, `SlotsUnshared` over three client processes; `VerdictsAgree` | 1.05 million |
| `hooks_exit` | `FairSpec` | `RecordedIsLive`, `NormalExitRestores`, `HooksHeal` with shutdown meeting a tick | 43 thousand |
| `release_ticks` | `FairSpec` | types, `OncePerRelease`, `EveryReleaseCredited` | 86 thousand |
| `animal_events` | `FairSpec` | types; `AnimalEvents` implements `CheckSource` (`ReportsEvents`); `GateOpens` | 841 thousand |
| `market_parks` | `Spec` | `NoDangling`, `NoForeignFree`, `MarkedIsGated` over two parks and two client processes | 953 thousand |
| `market_fill` | `FairSpec` | `NoBlockedListing`, `Stocked`, `WakesStop`; `SetsFound` | 518 thousand |
| `ovl_jobs` | `FairSpec` | `BackupsVanilla`, `FilesCurrent`, `InstalledIsWhole`, `Recovers` | 7.9 thousand |
| `client_loop` | `FairSpec` | `InertElsewhere`, `GoalAfterChecks`, `Delivered`, `GoalReported`; the six formulas named above | 192 thousand |
| `ovl_failed_build` | `Spec` | **violation** of `BackupsVanilla` | |

The violation run checks one sentence of the repository; `PROJECT.json` quotes it under `findings` with the line of the code
that breaks it: an update of a stale shell replaces `Main.ovl` before `GameMain` is built. When that build fails the old
stamp remains, `status()` takes the new patched archive for an updated game, and the next install backs it up as vanilla.

Other limits of the code lie outside the passing runs because their race or fault is switched off there. What TLC finds
when one is switched on:

| Switched on | Violated | Why |
|---|---|---|
| nothing; `InertInForeignPark` as an invariant of `ItemLedger` | itself | `client.py:426-428` says that the client is inert in foreign parks; only the tick asks which park is loaded, the packet handlers (`client.py:541`) do not |
| `"unstamped"` of `OvlInstall` | `FilesCurrent` | `restore` drops the stamp and keeps the backup; after a game update `status()` says ambiguous, and the advice for that state (`ovl.py:564`) copies the old version back, against `ovl.py:37` |
| a kill between balance and ledger, in `ItemLedger` | `NoDoubleGrant` | the balance is written before the ledger file; the reverse order would lose money instead (that is the mutant of `NeverShort`), and no order of two separate writes is exact |
| `"player"`, `"overlap"` of `ItemLedger` | `ExactGrant`, `NoDoubleGrant` | balance read and written in two steps, two threads |
| `"overlap"` of `ItemLedger` | `GateCatchesUp` | `reconcile` sets the permits (`permits.py:120`) before it builds and writes the list, and neither thread takes a lock: the older list may be written last, and it stays, since `new == self.unlocked` from then on; `permits.py:114-116` calls the call "idempotent and authoritative" |
| `"save"` of `ItemLedger` | `NeverShort` | the ledger of an old save is zeroed in memory and not in the file; a client started next believes the file |
| `"install"` of `HookLifecycle` | `RecordedIsLive` | `install` verifies, allocates and patches without a lock |
| `"close"` of `HookLifecycle` | `DetourMapped`, `SlotsUnshared` | the loop frees the arena under an installing worker |
| game threads, in `HookLifecycle` | `ThreadsSafe` | restoring a site does not wait for threads past it |
| `"mid"`, `"mixed"`, a failing capture read, in `ExhibitRelease` | `OncePerRelease` | four reads of one tick at four moments; sources that cannot tell a death from a release |
| `GiveUp` = 20, a failing count read | `EveryReleaseCredited` | one waiting time for all pending releases |
| `"close"`, `"partial"`, or `"write"` with `"restore"`, of `MarketGate` | `NoDangling` (and `NoForeignFree` with `"partial"`) | shutdown frees the block the worker is about to install; an original is kept while the include-set is the engine's, and put into the next park |
| `"check"` of `MarketGate` | `NoForeignFree` | the orphan check counts as made though it failed (`market.py:576`): a killed client's block is captured as the engine's own |
| `"capture"` of `MarketGate` | `NoDangling` | `apply_unlocked` goes on without an original (`market.py:612`: "restore will be skipped"), the next one captures the client's block as the original, `restore` points the game back at it and succeeds, and the block is freed (`market.py:658`: "provably safe") |
| `"write"` of `MarketGate` | `MarkedIsGated` | the set written last is in the block, the one counted as applied is not |
| `"alloc"` of `MarketGate` | `BothGated` | the result for the exhibit market is not looked at |
| `"sale"`, `"rebuild"` of `MarketFill` | `NoBlockedListing`, `WakesStop` | count, base and pool size are read before they are used |
| `"frames"` of `MarketFill` | `WakesStop` | if the engine sets its target in every frame (`market.py:274-275`, 528), the raised floor is gone with the next one, and the client raises and wakes for ever, against `market.py:510-511` |
| `"burst"`, `"several"` of `AnimalEvents` | `ReportsEvents` | a ring of `INSERT_RING`, and one captured handle |
| `"quick"`, `"reuse"`, or a failing lookup (`"map"`), of `AnimalEvents` | `ReportsEvents` | handles are looked up a tick later; the cache outlives the animal; a record is drained once |
| a failing write of the lock (`"lock"`), of `AnimalEvents` | `GateOpens` | the wish counts as written |
| `"ghost"`, `"swift"` of `ParkSession` | `InertElsewhere` | the name of a park that is gone is still in memory, or was read a moment ago |
| `"nameless"` of `ParkSession` | `InertElsewhere` | a scenario loaded anew where the last one was and left before its script has named it: no tick sees the change, and the park after it is read through the old cache and value |
| `"ghost"`, `"menu"`, `"swift"` of `ParkAge` | `AgeKnown` | the cache of instances is kept from park to park |
| two overlapping writes (`Overlap` = 2) of `GateLists` | `ScratchNeverGaps` | an entry that moves up the list behind a walk is missed |
| nothing; `GrowsGapless` of `GateLists` | itself | the permit of a species that lacks its tool takes it off the list, and the reconcile right after puts it back (`permits.py:169`, `client.py:738-742`): what stands behind it moves down by one while the count is still the old one, and a walk misses the last species, against `permits.py:4` ("until the permit arrives, the species literally cannot be bought") |
| nothing; `NewcomersBlocked` of `GateLists` | itself | a species that gets a handle after the last rewrite is not on the list until the permits change (`permits.py:123`), against `permits.py:152-153` ("resolves as species enter the zoo") |
| nothing; `TiersForced` of `BytePatches` | itself | a write that failed counts as applied (`exhibit_enrich.py:241`, `terrain.py:184`) and is not repeated until the items change or the code is found anew, against `exhibit_enrich.py:220` ("Authoritative gate sync") |
| `"stay"`, `"reuse"` of `BytePatches` | `PatchesHold` | a left-over copy keeps `_cache_valid` true and hides the new one; a copy loaded to a place the client knows counts as patched already |
| kills in the histories of the terrain gate, of `BytePatches` | `PatchesHold` | it looks for unpatched code and never finds a copy left patched |
| `"single"`, `"outdated"` of `OvlInstall`, other `Stops` | see section 5 | `status()` looks at one archive; a backup is trusted however it came about |

### Bounds and why they are enough

* Items: two or four, one of each class that behaves differently (money, unlock, unsupported, not ours);
  sums are small integers with the baked balance 9 and starting money 4 chosen so that no sequence of grants
  and moves reproduces the baked balance by accident (the fingerprint is a coincidence of real amounts, which
  the client's documentation names as a limitation). One money kind: kinds are handled by a loop over
  independent entries; the proofs cover any set of kinds.
  The restarts run has the unsupported item at the head, so that a permit and both amounts wait behind it.
* `MaxConnects` (at most 3, shared by reconnects and crashes), `MaxSaves`, `MaxLoads`, `MaxMoves`,
  `MaxOutages` bound the environment; each is at least one where the property is about that event. `WaitMax`
  is 0 or 1: what matters is whether the wait is over.
* Hooks: two or three sites, blocks of two or three slots (the real block has sixteen), two or three blocks,
  up to three client processes, one failing access: enough to fill a block, to leak slots of two processes, to
  free the arena and to start it again.
* Exhibit releases: three animals of two species, a ring of two where overrun matters. `GiveUp` is 5 in the
  passing run: with at most three releases and one failing read nothing waits longer than the run allows.
* Market gates: one species, since the set matters only as empty, full or changed; three blocks, so that a killed
  client's two blocks and a new one coexist and the allocation can also fail for want of room; two
  addresses, two parks and two client processes, so that an address is reused or not, and a block is left behind and
  found. Blocks and addresses are symmetric.
* Market fill: two species, two listings of each, two changes of the unlocked set (one to apply over a full market, one
  to empty it); `MinListings` is 5, above what a pool of two can give, so that the cap is in force.
* Installer: three game versions, two shells, seven events outside the commands. The theorems cover any numbers.
* Animal events: two handles, one species that the research map knows and one that it does not, rings of one slot, two
  habitat inserts and one exhibit insert, two releases, four steps of the game, one failing install or drain: an animal
  can be born or bought, moved, released and replaced by another, with the second insert and release after the first.
* Client loop: two places for parks, three kinds of parks, three loads; one location, which is the goal, one lost connection,
  one location collected by another. The theorems cover any number of each.
* Gate lists: three events over five species that stand for the forms of gate expressions, a list of three entries, walks
  that overlap one write, species that have a handle from the start or get one, rewrites cut short after the first entry
  or not at all; two research records. Rewards: three events over nine contents of every family. Research: two moves over
  eight records, none of an advanced level (of those only the theorem tells).
  Bytecode: five events, three copies, a pause of one tick. Park age: ten events, parks of up to two years.
* Self-check: modules of seven places, chunks of three, signatures of two, at most two matches. Hash tables: keys 0 to 4 and
  one that is absent, five lists with and without repetitions, capacities for every size up to 45875, hashes to four of eight slots so that runs wrap around the end.
* `CHECK_DEADLOCK FALSE` in the runs of `ItemLedger`, `HookLifecycle`, `ExhibitRelease` and `MarketGate`: all
  environment actions are bounded there, so a run ends when they are used up. `MarketFill` and `OvlInstall` never stop.

### Assumptions of the passing runs

* `ledger_session`, `ledger_restarts`: no overlap of handler and tick, no move of the player between the
  read and the write of a balance, and saves that succeed; all are real and listed as hazards. The first two break
  `ExactGrant`, the first also `GateCatchesUp`, the last `NeverShort`. Without crashes and with one connection
  `LedgerCatchesUp` was found to hold with the overlap and with failing saves, too.
* `ledger_threads`: no player, no new save, no outage; mark and ledger only.
* `hooks_serial`: installs and shutdown take turns; with `"close"` TLC finds `DetourMapped` and `SlotsUnshared`
  violated (the loop frees the arena under an installing worker).
* `release_ticks`: releases fall between ticks, the census follows within a tick, deaths, sales and arrivals of
  placed animals do not fall in the window of a release, the ring overruns only ids the client had seen, and
  of the failing reads only those of def map, id set and census. A failing capture read breaks `OncePerRelease`, a
  failing count read breaks `EveryReleaseCredited`; both faults are in the module.
* `hooks_exit`: only one thread installs; shutdown may meet it. Two sites, the detector's first hook and one of its further ones. A
  further hook that a tick records during the shutdown is not tried again over its own record, and the `ensure_installed` at the head of
  `set_locked` counts as the next tick's.
* `market_parks`: a restore fails as a whole or not at all, the orphan check, the read of the original, writes and allocations do not fail, and shutdown does not
  run inside `apply_unlocked`. `Teardown` waits until a running client has noticed that the AP park is being left
  (`Noticed`): the client itself rests on that, its tick being shorter than a park's unloading. A name scan that still
  finds the old park's name (`client.py:1047`) is excluded with it; a scan that misses the name is not.
* `market_fill`: no sale or expiry while the listings are walked, no rebuild between measuring and raising the target; the engine
  sets its target with a rebuild only.
* `ovl_jobs`: one job at a time; Steam acts between two jobs and replaces both archives; no update while a
  backup exists without a stamp, and no restore of the user's own accord over an updated game; the build is deterministic.

* `animal_events`: no more inserts between two ticks than the ring holds, at most one release between two ticks, an animal
  neither ages nor leaves before its insert is drained, no handle with a cached species is used again; lookups and the
  write of the lock do not fail. The species capture is tried once and may fail; what is released then is not claimed to be reported. A slot is stored when it is counted.
* `client_loop`: a park that is left leaves no memory with the scenario's name behind, and no park is loaded within the pause
  of a scan that found it; none is left before its script has named it, which its `Init` does at the load. A failing
  connection loses everything on its way; the base client sends again what the client remembers. `Delivered` is claimed when the player stays in the scenario and the memory of other parks is reused.
* `GateLists`: nothing of a species is claimed that gets a handle after the last rewrite, nor of a list whose rewrite failed, nor of an
  entry that moves down in a rewrite. `ContentRewards`: a name appears no later than its record, and a
  map is not rehashed under a read. `BytePatches`: a load overwrites the copy that ran and puts none to a place the client knows; nothing is
  claimed of a copy whose last write failed; for the terrain tools no client is killed and no copy is freed while another runs. How
  instructions are packed into words is left out. `ParkAge`: no read while no park is loaded.
* `SelfCheck`: no signature matches at the very start of a chunk (it would be counted twice, since chunks overlap by one byte too
  many).

### Fairness

`ItemLedger`: `poll_loop` never stops ticking while connected and a started thread runs on (weak fairness of
each thread's steps and of `Tick`); the base client reconnects and delivers (strong fairness of `ReceiveItems`, as without the overlap a packet waits for
the tick under way); a lost anchor is found again.
Nothing is assumed of the player or of the park age: the wait bound alone must let items through.
`HookLifecycle`: while the client is up every tick tries every uninstalled hook (strong fairness of `Resolve`
per hook, as a tick may find another hook in hand), but a further hook of the detector only once after the first one was
recorded (`Tried` in its guard, so that fairness asks nothing after that); and an install that has begun goes on. A failing access is
not fair. `ExhibitRelease`: the tick goes on (weak), the game handles its messages (strong, since without
`"mid"` it acts only between ticks). `MarketFill`: the engine updates every frame, many times between two ticks, so
it rebuilds and expires although it may not at the excluded steps (strong), and spawns once it is forced to and can
(weak); the client ticks and time passes. Nothing makes the engine's own timer elapse or a player buy, so `Stocked`
rests on the client's wake alone. `AnimalEvents`: the poll loop goes on (weak fairness of its steps). `ClientLoop`: the poll loop goes on, throttles run out,
the library connects and sends, packets are handled, the script names its park (weak fairness of each); nothing is
assumed of the player or of other players. `OvlInstall`: a job that runs goes on, and the user follows the advice; a `Stop` is
never fair and bounded by the events.

## 5. Proofs

Checked by TLAPS for every value of the constants that satisfies the named assumptions of the module (`ItemsAssumption`,
`MoneyAssumption`, `EnvironmentAssumption` of `ItemLedger`; `SitesAssumption`, `BoundsAssumption` of `HookLifecycle`;
`ExhibitAssumption`; `PlacesAssumption`, `BoundsAssumption`, `NoneAssumption` of `MarketGate`; `StopsAssumption`,
`BoundsAssumption`, `NoneAssumption` of `OvlInstall`; `SizesAssumption` of `MarketFill`; `EventsAssumption` of `AnimalEvents`;
`SessionAssumption`, `ReportAssumption`, `AgeAssumption`, `ListsAssumption`, `PatchesAssumption`, `RewardsAssumption`,
`ResearchAssumption`, `TablesAssumption`; `ScanAssumption` of `SelfCheck`; `KeysAssumption` of `HashTables`). The `NoneAssumption`s and their like only say that the value that
stands for nothing is none of the others. Where a theorem does not hold for every race and fault, its condition has a name
(`Careful`, `Orderly`, `Steady`, `Writes`, `Plain`, `Measured`), is at most what the run of the property switches off, and holds in that run. Type
theorems are proved and, but for two modules, not checked by a run again. Every inductive invariant was checked by TLC on a small instance
before it was proved.

**ItemLedger.** `TypeCorrect`, `MarkIsAcknowledged`, `LedgerIsWithinSent`, all with overlapping threads,
crashes, disconnects, saves that fail and any number of kinds. None of the properties is inductive: a thread carries indices and
targets from one step to a later one. The invariant `IInv` adds

* `Cursors`: a thread at an item has acknowledged everything before its cursor, at "ack" the item itself too,
  and its range lies within the sent items;
* `Marks`: `MarkAcked` for memory, disk and the state object read but not yet adopted;
* `Ledgers`: `LedgerWithinSent` for the same three, and for the targets of a thread that is reconciling:
  they were computed from a prefix of what has been sent by now. Monotonicity of the sums (`MoneyAssumption`)
  carries them over `Send`.

The money properties need more. `NeverLosesMoney` assumes `Careful` (no overlap, no move of the player between read
and write, saves that succeed, no park of another scenario) but allows kills at every step and any number of saves and connections. Its
invariant `Sound` follows the one pass under way: memory repeats the file (`Pages`), the AP park holds at least what the file claims
(`Accounts`), and the balance read is still the balance when it is written (`Due`). Between `WriteBalance` and
`PersistGrant` the park is ahead of the ledger by one grant and never behind, so a kill there gives twice and takes nothing.
`EveryPassSettles` is the safety core of `LedgerCatchesUp`, also under `Careful`: a pass that meets no outage ends with
each kind granted for all the items received, those behind an item that cannot be applied included (`Settled`: the target is
what the received items are worth, and the kinds off the list are granted so, but for the one in hand).
`LedgerIsExact` and `MoneyIsGranted` assume `OneSession` too: one connection, so no kill whose
half-done grant is repeated; the refinement also that no new save is made. Both are stated as `Spec /\ []Telling => ...`: `Telling` says that a park whose balances
look like a fresh save is one. The client knows a fresh save by its balance alone, and could be deceived by a balance that
happens to equal the baked one; TLC shows that `Telling` holds in the run, and that a deception breaks `ExactGrant`.
`Exact` makes `NeverShort` an equation but for the kind in a thread's hand, and each step of `ItemLedger` is a grant of `MoneyGrant` or a stutter.

**HookLifecycle.** `TypeCorrect` holds for every race. `RecordsAreLive` assumes that two threads do not install
at once and holds even when shutdown meets an install. The strengthening follows one hook from Patch to Record:
what is recorded, or about to be, is what the site holds.

`DetoursStayMapped` and `SlotsAreUnshared` assume that installs and shutdown take turns (`Races = {}`). A
detour may be recorded, in hand, or leaked by a failed unpatch or an earlier process. The argument:
(1) *Fresh*: the slot in the installer's hand is above every slot of its block that any site of this process
holds, and the blocks listed by this process are disjoint from the blocks leaked by earlier ones, since a new
block is taken only where nothing is mapped. (2) *RefCount*: `live` is at least the number of detours counted
by this process, plus one for a slot allocated but not yet patched; so `live = 0` means that no site points
into a listed block, and freeing the listed blocks frees no code in use. `>=` and not `=`, because failed
installs never give their slot back. (3) *Serial*: no install is under way while the loop restores. TLC
checked the whole invariant on the instance of `hooks_serial` before it was proved.

`ExitRestores` has no hypothesis: also when two threads install at once and the loop shuts down meanwhile, a client whose
memory accesses have not failed leaves no detour of its own when it ends normally. `Traced` says that a site with a detour of this
client is recorded, or in the hands of the thread that patched it, or of the loop that has popped it; `LastRound` that the last round of
restores begins when the worker has been joined, and that what it has passed is recorded no more.

`VerdictsAreTrue` is about modules, chunks and signatures of any size, any number of matches, and every state of a hook site. The scan counts
a match once per chunk it was read in; two chunks start at least a chunk apart, and reach one byte further than they need to, so only a match at
the very start of a chunk is read twice (`OneChunk`), and without those hits and matches correspond one to one (`ScanIsExact`). That a verdict
agrees with the installation is not immediate, since `_classify_hook` and `resolve_hook` decide in different orders: the proof goes through
the verdicts one by one (`Verdicts`, `VerdictsHold`). `ReportVouches` says more than the run asks: a report without a bad
status can be relied on with any chunks unreadable too.

**ExhibitRelease.** `CreditedOnce` assumes `Orderly`: during a tick and in the window of a release nothing else moves, and no
failing read of the count or of the captures; failing reads of the def map, the id set and the census, ring overruns, a slow game and any
waiting time are allowed. `OncePerRelease` is a bound on a sum. The invariant `Ledger` bounds, per species, credits, releases still open and
the drops that the next census may still show together by the number of releases, so that each way to a
credit uses up one of them. `Sound` says what the client's copies are worth: a snapshot of the ids or of the census
is stale only where a death, sale or arrival made it so, which the next tick sees before a release begins (`Settled`, `Rosters`,
`Censuses`), and a capture stands for one release (`Captures`, `Parked`).

**MarketGate.** `TypeCorrect` holds for every race and fault. `NothingDangles` and `TeardownFreesItsOwn` assume
`Careful`: shutdown waits for a worker inside `apply_unlocked` of the gate it restores, the orphan check and the read of the original
do not fail, and a restore fails as a whole and only if no other write fails; TLC finds each part necessary. The argument follows the original pointer. Within one
park (`Originals`) what is kept for the loaded manager is the engine's, and it is kept exactly while the market is
redirected, so that a market that was looked at holds either the engine's buffer or a redirection that can be undone.
From one park to the next (`Departure`) nothing is kept once the client has noticed the park being left, except
where the restore failed; there the block stays in the include-set, the teardown frees it, and the model ends: no further park is
loaded into a heap that is corrupt. `Managers` covers addresses: a cached manager is the gated one, and one of an earlier park proves that this
park was loaded under this client, so that skipping the orphan check does no harm. `Buffers` (a block belongs to one
market) makes freeing it safe, and `Farewell` carries the state of the gates from shutdown to the process's end.

`MarkedSetIsInForce` assumes `Writes`, that is `Careful` and no failing write; allocations may fail. `Current` says that a
cached manager is the loaded park's; `Marking` that what counts as applied was applied by this gate and, outside `apply_unlocked`, is what the habitat market's block holds and the market refers to.

**OvlInstall.** `TypeCorrect` holds wherever a job ends and whatever Steam does: the part `Present` says that a
job reaches a step only past the ones that made the backup, the pack and the hash the step uses.

`BackupsStayVanilla`, `FilesStayCurrent` and `InstalledMeansWhole` assume `Careful`: jobs end only where nothing of
the game has been replaced yet or everything has been put back (at the deployment of GameMain and the stamp only
as long as there is no stamp), and none of the `Races`. The argument: `status()` judges both archives by the first one,
so install is safe when *what it takes for vanilla is vanilla*, in both. Between jobs the files are in one of three
states (`Resting`): clean; deployed by a completed install, with a stamp that says so (`StampTrue`); or left by a
first install that ended early, where the missing stamp makes `status()` compare the backup with the live archive.
`Founded` carries the state install found through the job that works over it; `JobInv` says what each step has behind
it. The condition on `Stops` cannot be weakened: for each other step TLC finds `BackupsVanilla` violated when a job
may end there, and `FilesCurrent` too inside the copies.

**MarketFill.** `TypeCorrect` holds for every race. `NothingBlockedStays` assumes `Careful`: nothing leaves the array during
the walk of the expiry; TLC finds that necessary. A listing outside the set can come from one place only, a pool that was
built before the set. `Filtered` says that from the clearing of the valid flag on a valid pool lies within the set, because
the rebuild it asks for is the only way to a valid pool; it is false between the write of the set and the clearing of the
flag, where `NoBlockedListing` is silent. `Passed` follows the walk: everything before the cursor, and everything that
came after the walk began, may stay or is about to go.

`NoWakeInVain` is why `WakesStop` can hold: a wake with a valid pool always leaves the engine something to spawn, so a
market that is full is not woken. It assumes `Measured`, that the pool is not rebuilt between the measurement and the raise, that the target changes with the pool
only, and that a species may be offered twice; with a rebuild in between TLC finds a wake in vain. `WithinReach` bounds the target, measured or raised, by what the pool can
offer; that a market short of its target has a species with room is then a matter of counting (`SharesCounted`).

`SetsAreFound` is about any keys, any hash function and any list of at most 45875 keys, the most that `_next_pow2_cap` puts into the largest
table that the readers accept. A table is sound when each taken slot holds a key of its own that the probe from its hash meets before a gap. An
insertion keeps that (`InsertSound`): the probe starts inside the table and wraps around, so it passes every slot, there is a free one
(`SlotsCounted`, `RoomIsLeft`), and what was met before is still met, as the run of taken slots only grows (`RunGrows`). The recursive
function over the list is shown to exist (`BuiltExists`) and to be sound at every prefix (`SetSound`) by the well-foundedness of the
numbers; the keys are counted by a one-to-one map to their slots.

**AnimalEvents.** `ReportsOnlyEvents` is the safety half of the refinement: every step is one of `CheckSource` or a stutter, so that
no check is reported whose event did not happen. `Steady` excludes only that an animal changes before its insert is drained and that
a handle with a cached species is used again; overruns, several releases at once, a species capture that is missing and every
failing access are allowed, since they
lose events and invent none. `Truthful` says of each thing the client believes that it is so: the handle of an insert
not yet drained is in the roster with its check due (`Pending`), every exhibit record's check is due, the cache does not mistake an animal of
the roster for another, and whatever the last release is attributed to was released. An overrun slot reads as a later
record, which is an event as well (`ReadersExact`).

**ClientLoop.** `TypeCorrect` covers the session reader and the report together. `GoalComesLast` is not inductive: the goal may be
in the outbox, or decided and lost with a connection. `IInv` adds what is on its way: a message about the goal stands
behind the locations it needs (`Backed`, by recursion-free unions over prefixes of the outbox); while a connection is up
everything that counts as sent is with the server or in the outbox; and what made the goal count as finished is
with the server or is remembered as sent, so that a new connection sends it again ahead of the goal.

`NothingIsForgotten` is the safety core of `Delivered` and `GoalReported`: a connected client that has been told all the
server has, with nothing on its way, has nothing left to tell. No lost connection has to be waited for: `Informed` says that such a client knows
what the goal consists of, has decided on it if it is complete, and that what it decided is with the server or in the outbox.

`InertAbroad` assumes `Plain`, no race of `ParkSession`. `Leftovers` says what the heap holds apart from the loaded park: free
memory, or parks with a name of their own. `Recalled` says what the reader's memory is worth: a marker was read from an instance that is still
cached, and while its scan is fresh no foreign park is loaded. The first instance in the order of addresses exists because the addresses are
natural numbers. `ScenarioIsFound` is the other side, with every race: once the scenario's instance is the only one with
a name and the throttle allows a scan, the next tick finds it: a cached instance that still yields a name can only be the
scenario's, and otherwise the reader scans.

`AgeIsKnown` is about every history of up to `AgeRounds` loads, departures, years and reads, for any `AgeRounds`, by induction over
the history: `OneByOne` is the induction over a range of numbers that the proofs need, from their well-foundedness, and with it recursive functions are
shown to exist (`RunExists`, `AgesUpToExists`). `ReaderOK` says that a cache holds
the template and one place, and that what was scanned a moment ago was scanned in this park: so a cache kept from an earlier park
is stale or is about the park that took its place.

`WalksAreSound` is about any species, gates and room in the scratch, any rewrite of a list of them by another, shorter or longer, and every
walk of the game's thread that overlaps at most one write; with two TLC finds a purchase that slips through. An entry
that is on both lists and not further down on the new one is met: where the walk misses it at its old place, because that has been
written over, it was written at an earlier place before, and the walk has read that place no more than one write ago (`WalkReads`).
As unlocking takes species out of a list that keeps its order, none moves down then (`ListsShift`). What moves down may be
missed: that is `GrowsGapless` in the table of section 4.

`GatesAlwaysHold` has no hypothesis and is about histories of any length, with items the game cannot take yet, restarts, species that enter and
leave the zoo, and writes that fail at any place. The invariant over the history, `Current`, says that after each event what is unlocked is what the
items say, so that a permit that unlocks its species too early is corrected before anything else happens, and (`InForce`) that the
list of an installed gate, unless its last rewrite was cut short, is that of the species that had a handle then. That a rewrite follows every change is
part of the statement, not of the model: a gate that forgot one would go on with the old handles (`SettleIs`). For research,
`ResearchOK` follows what runs: with the gated set as the gate knows it and its list written, a record of a gated category runs only if it
ran in a loaded park or its stop failed; a start between the two steps of `reconcile` meets a list that is written already.

`PatchesAlwaysHold` assumes `PatchRaces = {}`, that a load overwrites the copy that ran and puts none to a place the client knows; without either
TLC finds it false. It is about any number of places in the heap, any number of copies left over, writes that fail at any of them, any pause between two
scans and histories of any length; kills, freed copies and exits whose writes fail are in the histories of the tiers alone, as in the run. `Placed` says that a client whose cache is
valid knows the running copy, and that what it believes it applied is there, unless the last write to it failed; `Undoable`, for the terrain tools, that what is patched is known together with
what was there before. Each tick after a history patches the running copy or comes closer to finding it (`Ticked`): at most a
stale copy is dropped, a deferred scan begins and the pause runs out, so `FindCooldown + 3` ticks suffice (`TicksSettle`). The
replacements are executed instruction by instruction, for every number of copies and every level (`TierSite0` to `GridSite3`).

`RewardsAlwaysInForce` has no hypothesis and is about any finite set of contents, any levels and species, any names that come late, and
histories of any length of research, items, loads and restarts. What a history must keep is what the client believes of names
(`Counted`): its snapshot was made at no more records than the map has now, and is complete when there are as many, so the refresh
that begins each stage misses nothing. `Rewarded` states the whole of what a tick makes of a park, stage by stage, as a function
of the map, the items and what has no item: that is why it does not matter how the game's own unlocking, or the
client's grant on arrival, had counted before, and why a second tick changes nothing (`TickTwice`).

`ChecksAlwaysTrue` has no hypothesis and is about any research and locations, any statuses in the saved park and histories of any length of
play, ticks, loads and items, with titles that can be resolved one after the other and are read when the first of them can: what
could not be read then is not claimed to be reported. What it rests on is in `TablesAssumption`, which says of `data.json`, `SPECIES_WELFARE_ITEM` and the tables of
gates what they say of themselves: no location is named after a gate, gates and located titles are research of mechanics, a species has
one token, and its standard records have different levels. `Zoos` is what histories keep: what stands completed,
and no gate does, was collected by the player, also in the save that a load goes back to; what was reported was earned; and only
gates that an item opened are open. `CompleteIsEarned` is the core: as levels differ, the record at the client's place in the order of
levels and statuses is the one with so many below it (`LevelIs`), whichever the order of the ids. Each step of a tick completes
gates and nothing else (`WriteIs`, `HoldIs`, `ResearchTicks`), so the client never reports what it wrote itself. Without the
assumption the formula is false: a location named after a gate is reported when its item arrives.

**Only model-checked**: all liveness properties and the fairness they rest on (`LedgerCatchesUp`,
`GateCatchesUp`, `HooksHeal`, `EveryReleaseCredited`, `GateOpens`, `Stocked`, `WakesStop`, `Delivered`, `GoalReported`,
`Recovers`, and the liveness half of `ReportsEvents`), which are outside what the prover does. `EveryPassSettles`, `NoWakeInVain`,
`NothingIsForgotten` and `ScenarioIsFound` prove what some of them rest on besides fairness.

## 6. Not modelled

* The `fresh_pending` latch (kept for compatibility of the state file), the console applier, and loading an
  older save of the same park: the ledger is per slot, not per save, so an older save keeps the newer ledger;
  the code documents that a per-save identifier is missing.
* The thread that Windows starts for console-close events, and its `done` latch; a game restarted under an attached client;
  machine code of the trampolines; a ring slot that is read between its count and its store (`hook.py:792-810`).
* Gates that never act: the presence gate (`_reconcile_presence` has no caller), the placement gate beyond its list
  (`FACILITY_RVA` is `None`), `make_value_gate`; `grant_progressive` and `apply_unlocked_names`, which the client does not call.
* Switching slots in one process, which keeps `locations_checked` and `finished_game` of the base client.
* Market: `disable`, `activate` and `ScheduleSpawner`, which the client does not use; prices, and which candidate
  the engine picks. Installer: what the build makes of an archive (it is its base and the shell), the pack's localisation
  files, finding the game and the build tools.
* The GUI and the self-test, the developer tools, pure memory access: `PROJECT.json` gives the reason for each component.
