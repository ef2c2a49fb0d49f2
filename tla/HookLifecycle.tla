--------------------------- MODULE HookLifecycle ---------------------------
(***************************************************************************)
(* Detours of the Planet Zoo client: installation, restore, the shared     *)
(* trampoline arena and recovery of leaked detours                         *)
(* (pz_ap_client/memory/hook.py, memory/signatures.py, and the shutdown    *)
(* path of pz_ap_client/client.py).                                        *)
(*                                                                         *)
(* A hook site of the game holds its original bytes or a jump to a slot of *)
(* an arena block.  The sites and the blocks live in the game process and  *)
(* survive the client; the records of what is installed and of the arena   *)
(* live in the client process and die with it.                             *)
(*                                                                         *)
(* Two threads of the client install hooks: the poll worker in a tick, and *)
(* the asyncio loop when a handler applies items.  The loop also restores  *)
(* every hook at shutdown, and once more at interpreter exit, after the    *)
(* worker has been joined.  They share the arena and the records without a *)
(* lock.                                                                   *)
(***************************************************************************)
EXTENDS Integers, FiniteSets

CONSTANTS
  Hooks,        \* hook sites of the module
  LoopHooks,    \* those a handler on the asyncio loop may install: those of
                \* the permit gate and of the release detector
  Leader,       \* "release", whose installation installs the release detector
  Best,         \* its further hooks: tried once with it, never retried
  Blocks,       \* places near the module where the game has room for a block
  Cap,          \* slots of a block: _ARENA_BLOCK / _ARENA_SLOT
  GameThreads,  \* threads of the game that run hooked code
  Orig,         \* a site's content: the original bytes
  NoSlot,       \* no record, no slot; also: a game thread outside the arena
  Races,        \* interleavings allowed: see MayInstall
  MaxRuns, MaxFaults    \* bounds: client processes, failing memory accesses

Slots      == Blocks \X (1..Cap)
Block(s)   == s[1]
Installers == {"worker", "loop"}

ASSUME SitesAssumption ==
  /\ IsFiniteSet(Hooks) /\ LoopHooks \subseteq Hooks
  /\ Leader \in Hooks /\ Best \subseteq Hooks \ {Leader}
  /\ Orig \notin Slots /\ NoSlot \notin Slots /\ Orig # NoSlot

ASSUME BoundsAssumption ==
  /\ Cap \in Nat \ {0}
  /\ MaxRuns \in Nat /\ MaxFaults \in Nat
  /\ Races \subseteq {"install", "close"}

VARIABLES
  \* game process
  site,     \* what each hook site holds
  mapped,   \* blocks allocated in the game
  inside,   \* the slot whose trampoline a game thread is executing
  ours,     \* history: sites that hold a detour of the running client
  \* client process
  up,       \* the client runs
  hooks,    \* HookManager.hooks of all managers: recorded slot per name
  active,   \* HookManager._active_names
  tried,    \* best-effort hooks tried since the Leader was installed
  failed,   \* history: those whose one try fell to a fault
  used,     \* _arenas: slots handed out per listed block, 0 when not listed
  live,     \* _arena_live
  pc, loc,  \* control state and locals of the two threads
  \* bounds
  runs, faults

gameVars   == <<site, mapped, inside, ours>>
arenaVars  == <<used, live>>
recordVars == <<hooks, active, tried, failed>>
procVars   == <<pc, loc>>
boundVars  == <<runs, faults>>
vars == <<gameVars, arenaVars, recordVars, procVars, boundVars, up>>

-----------------------------------------------------------------------------
InstallLabels == {"verify", "alloc", "bump", "code", "patch", "record"}
CloseLabels   == {"close", "unpatch", "release", "free"}
Labels == InstallLabels \cup CloseLabels \cup {"idle", "exited"}

\* hook and slot in hand, block chosen, hooks still to restore, and whether
\* this is the last round of restores.
NoLocals == [hook |-> NoSlot, slot |-> NoSlot, todo |-> {}, last |-> FALSE]

At(p, l)   == pc[p] = l
Idle(p)    == At(p, "idle")
Goto(p, l) == pc' = [pc EXCEPT ![p] = l]
Hook(p)    == loc[p].hook
Slot(p)    == loc[p].slot

Installing(p) == pc[p] \in InstallLabels
Closing       == pc["loop"] \in CloseLabels
Closed        == loc["loop"].last \/ At("loop", "exited")

\* A thread starts installing while the other installs or restores only when
\* the race is allowed.
MayInstall(p) ==
  /\ \A q \in Installers \ {p} : Installing(q) => "install" \in Races
  /\ Closing => "close" \in Races

\* The `installed` flag of the hook's owner, which ensure_installed tests: set
\* with the record, reset once restore() has returned.
BeingRestored(h) == pc["loop"] \in {"unpatch", "release", "free"} /\ Hook("loop") = h
Installed(h)     == hooks[h] # NoSlot \/ BeingRestored(h)

\* Whether the owner of h comes to try it.  The detector's flag is set with the
\* Leader and reset when the last of its hooks is restored.
HalfRestored == /\ Closing /\ Leader \notin loc["loop"].todo
                /\ (Best \cap loc["loop"].todo) # {} \/ \E h \in Best : BeingRestored(h)
Tried(h) == IF h \in Best THEN hooks[Leader] # NoSlot /\ h \notin tried
                          ELSE h = Leader => ~HalfRestored

Listed(b) == used[b] > 0

\* A memory access of the client fails.
Fault == /\ faults < MaxFaults
         /\ faults' = faults + 1

\* The thread is done with the hook in hand.  When install() is left by an
\* exception, which ensure_installed catches, the slot is never given back.
Leave(p) == /\ Goto(p, "idle")
             /\ loc' = [loc EXCEPT ![p] = NoLocals]

-----------------------------------------------------------------------------
(* Faulty variants of definitions below, none part of Spec: each shows     *)
(* that a property fails when the code is wrong in a plausible way.        *)

\* Installs without recovering a leaked detour.
ResolveIntact(p, h) ==
  /\ up /\ Idle(p) /\ ~Installed(h) /\ Tried(h) /\ ~Closed /\ MayInstall(p)
  /\ p = "loop" => h \in LoopHooks
  /\ tried' = tried \cup ({h} \cap Best)
  /\ loc' = [loc EXCEPT ![p].hook = h]
  /\ Goto(p, "verify")
  /\ UNCHANGED <<gameVars, arenaVars, hooks, active, failed, boundVars, up>>

\* Counts the slot but leaves the block's cursor.
BumpCountOnly(p) ==
  /\ At(p, "bump")
  /\ live' = live + 1
  /\ Goto(p, "code")
  /\ UNCHANGED <<gameVars, used, recordVars, loc, boundVars, up>>

\* Drops the record, keeps the name among the active ones.
PopKeepsName ==
  /\ At("loop", "close")
  /\ \E h \in loc["loop"].todo :
       /\ loc' = [loc EXCEPT !["loop"].hook = h, !["loop"].slot = hooks[h],
                             !["loop"].todo = @ \ {h}]
       /\ hooks' = [hooks EXCEPT ![h] = NoSlot]
       /\ Goto("loop", IF hooks[h] = NoSlot THEN "close" ELSE "unpatch")
  /\ UNCHANGED <<gameVars, arenaVars, active, tried, failed, boundVars, up>>

\* Frees the blocks with every slot given back.
ReleaseFrees ==
  /\ At("loop", "release")
  /\ live' = IF live > 0 THEN live - 1 ELSE 0
  /\ Goto("loop", "free")
  /\ UNCHANGED <<gameVars, used, recordVars, loc, boundVars, up>>

\* Runs the last round without waiting for the tick under way.
JoinNobody ==
  /\ At("loop", "close") /\ loc["loop"].todo = {} /\ ~loc["loop"].last
  /\ loc' = [loc EXCEPT !["loop"] = [NoLocals EXCEPT !.todo = Hooks, !.last = TRUE]]
  /\ UNCHANGED <<gameVars, arenaVars, recordVars, pc, boundVars, up>>

-----------------------------------------------------------------------------
HasRoom(b) == Listed(b) /\ used[b] < Cap

Init ==
  /\ site = [h \in Hooks |-> Orig] /\ mapped = {}
  /\ inside = [g \in GameThreads |-> NoSlot] /\ ours = {}
  /\ up = FALSE
  /\ hooks = [h \in Hooks |-> NoSlot] /\ active = {} /\ tried = {} /\ failed = {}
  /\ used = [b \in Blocks |-> 0] /\ live = 0
  /\ pc = [p \in Installers |-> "idle"] /\ loc = [p \in Installers |-> NoLocals]
  /\ runs = 0 /\ faults = 0

-----------------------------------------------------------------------------
(* Installing: ensure_installed, resolve_hook, HookManager.install         *)

\* resolve_hook: the site is intact, or holds a detour of ours (its target is
\* mapped and embeds the original, or is unmapped) and is rewritten in place.
Resolve(p, h) ==
  /\ up /\ Idle(p) /\ ~Installed(h) /\ Tried(h) /\ ~Closed /\ MayInstall(p)
  /\ p = "loop" => h \in LoopHooks
  /\ site' = [site EXCEPT ![h] = Orig]
  /\ ours' = ours \ {h}
  /\ tried' = tried \cup ({h} \cap Best)
  /\ loc' = [loc EXCEPT ![p].hook = h]
  /\ Goto(p, "verify")
  /\ UNCHANGED <<mapped, inside, arenaVars, hooks, active, failed, boundVars, up>>

\* The site does not resolve: a hook of the detector has had its one try.
Unresolved(p, h) ==
  /\ up /\ Idle(p) /\ ~Installed(h) /\ Tried(h) /\ ~Closed /\ MayInstall(p)
  /\ p = "loop" => h \in LoopHooks
  /\ h \in Best /\ Fault
  /\ tried' = tried \cup {h} /\ failed' = failed \cup {h}
  /\ UNCHANGED <<gameVars, arenaVars, hooks, active, procVars, runs, up>>

\* install: abort unless the site holds the original bytes.
Verify(p) ==
  /\ At(p, "verify")
  /\ IF site[Hook(p)] = Orig
     THEN /\ Goto(p, "alloc")
          /\ UNCHANGED loc
     ELSE Leave(p)
  /\ UNCHANGED <<gameVars, arenaVars, recordVars, boundVars, up>>

\* _arena_alloc, first half: the room left in a listed block.
PickRoom(p) ==
  /\ At(p, "alloc")
  /\ \E b \in Blocks :
       /\ HasRoom(b)
       /\ loc' = [loc EXCEPT ![p].slot = <<b, used[b] + 1>>]
  /\ Goto(p, "bump")
  /\ UNCHANGED <<gameVars, arenaVars, recordVars, boundVars, up>>

\* _arena_alloc, second half: bump the block's cursor and the live count.
Bump(p) ==
  /\ At(p, "bump")
  /\ used' = IF Listed(Block(Slot(p)))
             THEN [used EXCEPT ![Block(Slot(p))] = @ + 1]
             ELSE used
  /\ live' = live + 1
  /\ Goto(p, "code")
  /\ UNCHANGED <<gameVars, recordVars, loc, boundVars, up>>

\* _arena_alloc: a fresh block of the game, listed with its first slot used.
FreshBlock(p) ==
  /\ At(p, "alloc") /\ \A b \in Blocks : ~HasRoom(b)
  /\ \E b \in Blocks \ mapped :
       /\ mapped' = mapped \cup {b}
       /\ used' = [used EXCEPT ![b] = 1]
       /\ loc' = [loc EXCEPT ![p].slot = <<b, 1>>]
  /\ live' = live + 1
  /\ Goto(p, "code")
  /\ UNCHANGED <<site, inside, ours, recordVars, boundVars, up>>

\* _arena_alloc returns 0: no hole near the module.
NoRoom(p) ==
  /\ At(p, "alloc") /\ mapped = Blocks /\ \A b \in Blocks : ~HasRoom(b)
  /\ Leave(p)
  /\ UNCHANGED <<gameVars, arenaVars, recordVars, boundVars, up>>

\* Scratch and trampoline: the write fails when the block is gone.
WriteCode(p) ==
  /\ At(p, "code")
  /\ IF Block(Slot(p)) \in mapped
     THEN /\ Goto(p, "patch")
          /\ UNCHANGED loc
     ELSE Leave(p)
  /\ UNCHANGED <<gameVars, arenaVars, recordVars, boundVars, up>>

\* The jump, written while the game process is suspended.
Patch(p) ==
  /\ At(p, "patch")
  /\ site' = [site EXCEPT ![Hook(p)] = Slot(p)]
  /\ ours' = ours \cup {Hook(p)}
  /\ Goto(p, "record")
  /\ UNCHANGED <<mapped, inside, arenaVars, recordVars, loc, boundVars, up>>

\* Any of the writes raises.
InstallFails(p) ==
  /\ pc[p] \in {"code", "patch"} /\ Fault
  /\ failed' = failed \cup ({Hook(p)} \cap Best)
  /\ Leave(p)
  /\ UNCHANGED <<gameVars, arenaVars, hooks, active, tried, runs, up>>

Record(p) ==
  /\ At(p, "record")
  /\ hooks'  = [hooks EXCEPT ![Hook(p)] = Slot(p)]
  /\ active' = active \cup {Hook(p)}
  /\ tried'  = IF Hook(p) = Leader THEN {} ELSE tried
  /\ failed' = IF Hook(p) = Leader THEN {} ELSE failed
  /\ Leave(p)
  /\ UNCHANGED <<gameVars, arenaVars, boundVars, up>>

-----------------------------------------------------------------------------
(* Restoring: _shutdown_gates, HookManager.restore, _arena_release         *)

\* exit_event: the loop restores gate by gate; a tick may still be under way.
BeginClose ==
  /\ up /\ Idle("loop") /\ ~Closed
  /\ Installing("worker") => "close" \in Races
  /\ Goto("loop", "close")
  /\ loc' = [loc EXCEPT !["loop"] = [NoLocals EXCEPT !.todo = Hooks]]
  /\ UNCHANGED <<gameVars, arenaVars, recordVars, boundVars, up>>

\* restore: pop the record, drop the name.
Pop ==
  /\ At("loop", "close")
  /\ \E h \in loc["loop"].todo :
       /\ loc' = [loc EXCEPT !["loop"].hook = h, !["loop"].slot = hooks[h],
                             !["loop"].todo = @ \ {h}]
       /\ hooks'  = [hooks EXCEPT ![h] = NoSlot]
       /\ active' = active \ {h}
       /\ Goto("loop", IF hooks[h] = NoSlot THEN "close" ELSE "unpatch")
  /\ UNCHANGED <<gameVars, arenaVars, tried, failed, boundVars, up>>

\* The original bytes, written while the game process is suspended.
Unpatch ==
  /\ At("loop", "unpatch")
  /\ site' = [site EXCEPT ![Hook("loop")] = Orig]
  /\ ours' = ours \ {Hook("loop")}
  /\ Goto("loop", "release")
  /\ UNCHANGED <<mapped, inside, arenaVars, recordVars, loc, boundVars, up>>

\* The write raises: the gate's shutdown swallows it, the slot stays counted.
UnpatchFails ==
  /\ At("loop", "unpatch") /\ Fault
  /\ Goto("loop", "close")
  /\ UNCHANGED <<gameVars, arenaVars, recordVars, loc, runs, up>>

\* _arena_release: one slot fewer; nothing is freed while any is outstanding.
Release ==
  /\ At("loop", "release")
  /\ live' = IF live > 0 THEN live - 1 ELSE 0
  /\ Goto("loop", IF live' = 0 THEN "free" ELSE "close")
  /\ UNCHANGED <<gameVars, used, recordVars, loc, boundVars, up>>

\* ... and the blocks are freed and forgotten when none is.
Free ==
  /\ At("loop", "free")
  /\ mapped' = {b \in mapped : ~Listed(b)}
  /\ used'   = [b \in Blocks |-> 0]
  /\ Goto("loop", "close")
  /\ UNCHANGED <<site, inside, ours, live, recordVars, loc, boundVars, up>>

\* The first round is over; at interpreter exit the executor joins the worker
\* before atexit runs the second one.
JoinWorker ==
  /\ At("loop", "close") /\ loc["loop"].todo = {} /\ ~loc["loop"].last
  /\ Idle("worker")
  /\ loc' = [loc EXCEPT !["loop"] = [NoLocals EXCEPT !.todo = Hooks, !.last = TRUE]]
  /\ UNCHANGED <<gameVars, arenaVars, recordVars, pc, boundVars, up>>

Exited ==
  /\ At("loop", "close") /\ loc["loop"].todo = {} /\ loc["loop"].last
  /\ Goto("loop", "exited")
  /\ UNCHANGED <<gameVars, arenaVars, recordVars, loc, boundVars, up>>

-----------------------------------------------------------------------------
(* Processes (external)                                                    *)

StartClient ==
  /\ ~up /\ runs < MaxRuns
  /\ up' = TRUE /\ runs' = runs + 1
  /\ UNCHANGED <<gameVars, arenaVars, recordVars, procVars, faults>>

\* The client process ends, by itself or killed, at any step.
StopClient ==
  /\ up /\ up' = FALSE
  /\ hooks' = [h \in Hooks |-> NoSlot] /\ active' = {} /\ tried' = {} /\ failed' = {}
  /\ used' = [b \in Blocks |-> 0] /\ live' = 0
  /\ pc' = [p \in Installers |-> "idle"] /\ loc' = [p \in Installers |-> NoLocals]
  /\ ours' = {}
  /\ UNCHANGED <<site, mapped, inside, boundVars>>

\* A game thread reaches a detoured site, runs the trampoline and leaves it.
EnterTrampoline(g) ==
  /\ inside[g] = NoSlot
  /\ \E h \in Hooks : /\ site[h] # Orig
                      /\ inside' = [inside EXCEPT ![g] = site[h]]
  /\ UNCHANGED <<site, mapped, ours, arenaVars, recordVars, procVars, boundVars, up>>

LeaveTrampoline(g) ==
  /\ inside[g] # NoSlot
  /\ inside' = [inside EXCEPT ![g] = NoSlot]
  /\ UNCHANGED <<site, mapped, ours, arenaVars, recordVars, procVars, boundVars, up>>

Install(p) ==
  \/ \E h \in Hooks : Resolve(p, h) \/ Unresolved(p, h)
  \/ Verify(p) \/ PickRoom(p) \/ Bump(p) \/ FreshBlock(p) \/ NoRoom(p)
  \/ WriteCode(p) \/ Patch(p) \/ InstallFails(p) \/ Record(p)

Close ==
  \/ BeginClose \/ Pop \/ Unpatch \/ UnpatchFails \/ Release \/ Free
  \/ JoinWorker \/ Exited

Next ==
  \/ \E p \in Installers : Install(p)
  \/ Close
  \/ StartClient \/ StopClient
  \/ \E g \in GameThreads : EnterTrampoline(g) \/ LeaveTrampoline(g)

Spec == Init /\ [][Next]_vars

\* While it runs the client ticks for ever, and every tick tries every hook
\* whose owner is not installed (the further hooks of the release detector only
\* once, right after its first); a thread that has started runs on.
Fairness ==
  /\ \A h \in Hooks : SF_vars(Resolve("worker", h))
  /\ \A p \in Installers :
       WF_vars(Verify(p) \/ PickRoom(p) \/ Bump(p) \/ FreshBlock(p) \/ NoRoom(p)
               \/ WriteCode(p) \/ Patch(p) \/ Record(p))

FairSpec == Spec /\ Fairness

-----------------------------------------------------------------------------
(* Properties                                                              *)

Locals == [hook : Hooks \cup {NoSlot}, slot : Slots \cup {NoSlot},
           todo : SUBSET Hooks, last : BOOLEAN]

\* Every variable holds a value of its type.
TypeOK ==
  /\ site \in [Hooks -> Slots \cup {Orig}] /\ mapped \in SUBSET Blocks
  /\ inside \in [GameThreads -> Slots \cup {NoSlot}] /\ ours \in SUBSET Hooks
  /\ up \in BOOLEAN
  /\ hooks \in [Hooks -> Slots \cup {NoSlot}] /\ active \in SUBSET Hooks
  /\ tried \in SUBSET Best /\ failed \in SUBSET Best
  /\ used \in [Blocks -> Nat] /\ live \in Nat
  /\ pc \in [Installers -> Labels] /\ loc \in [Installers -> Locals]
  /\ runs \in 0..MaxRuns /\ faults \in 0..MaxFaults

\* The game never jumps from a patched site into a freed block: neither a
\* failed write, nor a crash of the client, nor the shared reference count
\* frees a block that a site still points into.
DetourMapped == \A h \in Hooks : site[h] # Orig => Block(site[h]) \in mapped

\* No two sites share a trampoline, detours leaked by earlier processes
\* included.
SlotsUnshared ==
  \A g, h \in Hooks : site[g] = site[h] /\ site[g] # Orig => g = h

\* A recorded hook is the one the game runs: the client reads and writes the
\* scratch of the slot the site points to, and a name in _active_names never
\* hides a leaked detour from the preflight check.
RecordedIsLive ==
  \A h \in Hooks : /\ hooks[h] # NoSlot => site[h] = hooks[h]
                   /\ h \in active => hooks[h] # NoSlot

\* A normal exit leaves no detour of this client behind, even one that a tick
\* still under way installed after its gate had been shut down.
NormalExitRestores == At("loop", "exited") /\ faults = 0 => ours = {}

\* "Safe: a software detour can't crash the game even if it leaked": a game
\* thread is never inside a trampoline whose block is freed.
ThreadsSafe == \A g \in GameThreads : inside[g] # NoSlot => Block(inside[g]) \in mapped

\* Whatever an earlier process left behind and wherever an access fails, a
\* client that stays up ends with every hook installed and recorded, but for a
\* further hook of the release detector whose one try fell to a fault.
HooksHeal ==
  <>[](up /\ pc["loop"] \notin CloseLabels \cup {"exited"}) =>
    <>[](\A h \in Hooks : hooks[h] # NoSlot \/ h \in failed)
=============================================================================
