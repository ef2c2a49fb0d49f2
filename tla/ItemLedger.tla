----------------------------- MODULE ItemLedger -----------------------------
(***************************************************************************)
(* Item application and the money ledger of the Planet Zoo client          *)
(* (pz_ap_client/client.py, pz_ap_client/state.py).                        *)
(*                                                                         *)
(* Two threads run PZContext._apply_new_items over the same state and take *)
(* no lock: the asyncio loop, in the Connected and ReceivedItems handlers, *)
(* and the poll worker, in every tick of the AP park.  Each access to      *)
(* state another thread, the game or a crash can change is a step of its   *)
(* own; pure computation is folded into the step that reads its inputs,    *)
(* and the list of the purchase gate is written as one step (GateLists     *)
(* steps through that write).                                              *)
(*                                                                         *)
(* Money amounts are abstracted to the cumulative sums Owed[k][n]: what    *)
(* the first n items of the slot are worth in kind k (_cumulative_targets).*)
(***************************************************************************)
EXTENDS Integers

CONSTANTS
  NItems,      \* items the server ever sends to the slot
  Class,       \* Class[i]: "money", "unlock", "unsupported" or "unknown"
  Kinds,       \* money kinds the ledger reconciles: "cash" and others
  Owed,        \* Owed[k][n]: sum of kind k over the first n items
  Baked,       \* BAKED_STARTING_CASH, the untouched balance of a new save
  StartMoney,  \* slot_data["starting_money"], or NoStart when not sent
  WaitMax,     \* FRESH_WAIT_MAX
  Parks,       \* what the player loads: "ap", "foreign" and "none" (menu)
  Races,       \* what is allowed: see Overlap, PlayerRace and SaveFails
  PlayerMoves, \* balance changes the player makes
  MaxConnects, MaxSaves, MaxLoads, MaxMoves, MaxOutages   \* bounds

NoStart == -1
NoMark  == -1
Books   == {"ap", "foreign"}
Procs   == {"loop", "worker"}

\* A handler may run while a tick is applying items, and the reverse.
Overlap     == "overlap" \in Races
\* The player may act between two steps of a thread that applies items.
PlayerRace  == "player" \in Races

ASSUME ItemsAssumption ==
  /\ NItems \in Nat
  /\ Class \in [1..NItems -> {"money", "unlock", "unsupported", "unknown"}]

ASSUME MoneyAssumption ==
  /\ "cash" \in Kinds
  /\ Owed \in [Kinds -> [0..NItems -> Nat]]
  /\ \A k \in Kinds : /\ Owed[k][0] = 0
                      /\ \A m, n \in 0..NItems : m <= n => Owed[k][m] <= Owed[k][n]
  /\ Baked \in Nat
  /\ StartMoney \in Nat \cup {NoStart}

ASSUME EnvironmentAssumption ==
  /\ WaitMax \in Nat
  /\ Parks \subseteq Books \cup {"none"}
  /\ Races \subseteq {"overlap", "player", "save"}
  /\ PlayerMoves \subseteq Int
  /\ {MaxConnects, MaxSaves, MaxLoads, MaxMoves, MaxOutages} \subseteq Nat

VARIABLES
  \* server and base client (Archipelago CommonContext, external)
  sent,     \* items the server has sent to the slot so far
  rcvd,     \* len(items_received): a prefix of the sent items
  conn,     \* slot is set ("up") or None ("down")
  \* client process memory
  mem,      \* self.state: applied_count and granted, per slot key
  initialApplied, freshDone, waitTicks,
  gate,     \* the purchase gate: its hook, the permits it holds (unlocked)
            \* and those its list in the game was built from (listed)
  pc, loc,  \* control state and locals of the two threads
  loaded,   \* the state object the Connected handler has just read
  \* disk
  disk,     \* the state file
  \* game
  park, ageKnown, aged, anchor,
  book,     \* per park and kind: cash, and the history base + net
  \* histories and bounds
  acked,      \* items whose apply returned True, or skipped as unknown
  ledgerFor,  \* the ledger counts money of the AP save now in the book
  used        \* how often each bounded environment action was taken

clientVars == <<mem, initialApplied, freshDone, waitTicks, gate>>
procVars   == <<pc, loc>>
netVars    == <<sent, rcvd, conn, loaded>>
gameVars   == <<park, ageKnown, aged, anchor, book>>
histVars   == <<acked, ledgerFor, used>>
vars == <<clientVars, procVars, netVars, gameVars, histVars, disk>>

-----------------------------------------------------------------------------
Labels == {"idle", "adopt", "enter", "fresh", "baseline", "unledger", "rezero",
           "item", "ack", "targets", "ledger", "read", "write", "persist",
           "permits", "resync", "set", "build", "list"}

SlotKeys == {"slot", "none"}      \* "seed:<slot>" and "seed:None"
Key      == IF conn = "up" THEN "slot" ELSE "none"

NoMoney  == [k \in Kinds |-> 0]
NoEntry  == [mark |-> 0, granted |-> NoMoney]
NoState  == [s \in SlotKeys |-> NoEntry]
NoLocals == [idx |-> 0, end |-> 0, target |-> NoMoney, todo |-> {},
             kind |-> "cash", delta |-> 0, cur |-> 0,
             keys |-> {}, syncs |-> 0, back |-> "idle"]

BakedCash  == [k \in Kinds |-> IF k = "cash" THEN Baked ELSE 0]
\* Some other park, with a balance that is not the fingerprint.
OtherCash  == [k \in Kinds |-> IF k = "cash" THEN Baked + 1 ELSE 0]
NewBook(b) == [cash |-> b, base |-> b, net |-> NoMoney]

NoGate     == [hook |-> "absent", unlocked |-> {}, listed |-> {}]

Mark       == mem[Key].mark
Granted(k) == mem[Key].granted[k]
Cash(k)    == book[park].cash[k]
Min2(a, b) == IF a < b THEN a ELSE b

\* Anchors resolve, and hooks install, only while a park is loaded and its
\* structures have been located.
Resolved   == anchor /\ park # "none"
YearsKnown == ageKnown /\ park # "none"

At(p, l)   == pc[p] = l
Idle       == \A p \in Procs : At(p, "idle")
Goto(p, l) == pc' = [pc EXCEPT ![p] = l]

\* What _apply_new_items returns to: the worker goes on with the tick's own
\* permits step, a handler is done.
AfterApply(p) == IF p = "worker" THEN "resync" ELSE "idle"

\* A thread starts a run of steps; without Overlap only when the other rests.
MayStart(p) == /\ At(p, "idle")
               /\ Overlap \/ Idle
EnvMayAct == PlayerRace \/ Idle

\* What the purchase gate holds when the first n items were received.
Permits(n) == {i \in 1..n : Class[i] = "unlock"}

\* PermitGate.ensure_installed returns True; it writes the list itself when it
\* installs, and the caller does it (once more) when the permits changed.
Hooked         == gate.hook = "installed" \/ Resolved
Syncs(changed) == (IF gate.hook = "installed" THEN 0 ELSE 1) + (IF changed THEN 1 ELSE 0)

\* The item under the cursor, and whether its handler returns True now.
Applies(i) == \/ Class[i] = "money"
              \/ Class[i] = "unlock" /\ Hooked

AtItem(p) == At(p, "item") /\ loc[p].idx < loc[p].end

\* Every setter of ClientState flushes the whole state: memory, then the file.
Persisted(f) == /\ mem'  = f
                /\ disk' = f

-----------------------------------------------------------------------------
(* Faulty variants of actions below, none part of Spec: each shows that a  *)
(* property fails when the code is wrong in a plausible way.               *)

\* Moves the mark past an item whose handler returned False.
PauseAcknowledges(p) ==
  /\ AtItem(p) /\ loc[p].idx < rcvd
  /\ Class[loc[p].idx + 1] # "unknown" /\ ~Applies(loc[p].idx + 1)
  /\ Persisted([mem EXCEPT ![Key].mark = loc[p].idx + 1])
  /\ Goto(p, "targets")
  /\ UNCHANGED <<netVars, gameVars, histVars, loc,
                 initialApplied, freshDone, waitTicks, gate>>

\* Returns at a stalled item instead of reconciling the money.
PauseReturns(p) ==
  /\ AtItem(p) /\ loc[p].idx < rcvd
  /\ Class[loc[p].idx + 1] # "unknown" /\ ~Applies(loc[p].idx + 1)
  /\ Goto(p, AfterApply(p))
  /\ loc' = [loc EXCEPT ![p] = NoLocals]
  /\ UNCHANGED <<clientVars, netVars, gameVars, histVars, disk>>

\* Grants the whole sum where only the missing part is due.
MissingWhole(p) ==
  /\ At(p, "ledger")
  /\ \E k \in loc[p].todo :
       /\ loc[p].target[k] > Granted(k)
       /\ loc' = [loc EXCEPT ![p].kind = k, ![p].todo = @ \ {k},
                             ![p].delta = loc[p].target[k]]
  /\ Goto(p, "read")
  /\ UNCHANGED <<clientVars, netVars, gameVars, histVars, disk>>

\* Ledger first, balance second: a crash in between loses the grant.
ReadPersistsFirst(p) ==
  /\ At(p, "read")
  /\ IF Resolved
     THEN /\ loc' = [loc EXCEPT ![p].cur = Cash(loc[p].kind)]
          /\ Persisted([mem EXCEPT ![Key].granted[loc[p].kind] = loc[p].target[loc[p].kind]])
          /\ Goto(p, "write")
     ELSE /\ UNCHANGED <<loc, mem, disk>>
          /\ Goto(p, "ledger")
  /\ UNCHANGED <<netVars, gameVars, histVars,
                 initialApplied, freshDone, waitTicks, gate>>

\* Ignores that the anchor write failed.
WriteUnchecked(p) ==
  /\ At(p, "write")
  /\ book' = IF Resolved
             THEN [book EXCEPT ![park].cash[loc[p].kind] = loc[p].cur + loc[p].delta]
             ELSE book
  /\ Goto(p, "persist")
  /\ UNCHANGED <<clientVars, netVars, histVars, disk, loc,
                 park, ageKnown, aged, anchor>>

\* Adds the delta to whatever the ledger holds by now.
PersistAdds(p) ==
  /\ At(p, "persist")
  /\ Persisted([mem EXCEPT ![Key].granted[loc[p].kind] = @ + loc[p].delta])
  /\ Goto(p, "ledger")
  /\ UNCHANGED <<netVars, gameVars, histVars, loc,
                 initialApplied, freshDone, waitTicks, gate>>

\* Derives the purchase gate from the applied items only.
ReadApplied(p) ==
  /\ pc[p] \in {"permits", "resync"}
  /\ loc' = [loc EXCEPT ![p].keys = Permits(Min2(Mark, rcvd)),
                        ![p].back = IF At(p, "permits") THEN AfterApply(p) ELSE "idle"]
  /\ Goto(p, "set")
  /\ UNCHANGED <<clientVars, netVars, gameVars, histVars, disk>>

-----------------------------------------------------------------------------
Init ==
  /\ sent = 0 /\ rcvd = 0 /\ conn = "down"
  /\ mem = NoState /\ disk = NoState
  /\ initialApplied = NoMark /\ freshDone = FALSE /\ waitTicks = 0 /\ gate = NoGate
  /\ pc = [p \in Procs |-> "idle"]
  /\ loc = [p \in Procs |-> NoLocals] /\ loaded = NoState
  /\ park = "ap" /\ ageKnown = FALSE /\ aged = FALSE /\ anchor = TRUE
  /\ book = [b \in Books |-> NewBook(IF b = "ap" THEN BakedCash ELSE OtherCash)]
  /\ acked = {} /\ ledgerFor = TRUE
  /\ used = [connects |-> 0, saves |-> 0, loads |-> 0, moves |-> 0, outages |-> 0]

-----------------------------------------------------------------------------
(* The connection: what the base client does before it calls on_package.   *)

\* Connected: slot set, items_received still empty; ClientState.load reads
\* the file into a new object that LoadAdopt installs as self.state.
Connect ==
  /\ conn = "down" /\ MayStart("loop")
  /\ used.connects < MaxConnects
  /\ conn' = "up"
  /\ used' = [used EXCEPT !.connects = @ + 1]
  /\ loaded' = disk
  /\ Goto("loop", "adopt")
  /\ UNCHANGED <<clientVars, gameVars, loc, disk, sent, rcvd, acked, ledgerFor>>

LoadAdopt ==
  /\ At("loop", "adopt")
  /\ mem' = loaded /\ loaded' = NoState
  /\ Goto("loop", "enter")
  /\ UNCHANGED <<sent, rcvd, conn, gameVars, histVars, disk, loc,
                 initialApplied, freshDone, waitTicks, gate>>

\* ReceivedItems: the base client has extended items_received.
ReceiveItems ==
  /\ conn = "up" /\ MayStart("loop")
  /\ \E n \in (rcvd + 1)..sent : rcvd' = n
  /\ Goto("loop", "enter")
  /\ UNCHANGED <<clientVars, gameVars, histVars, disk, loc, sent, conn, loaded>>

\* The base client resets slot and items_received; a tick may be under way.
Disconnect ==
  /\ conn = "up" /\ MayStart("loop")
  /\ used.connects < MaxConnects
  /\ conn' = "down" /\ rcvd' = 0
  /\ UNCHANGED <<clientVars, procVars, gameVars, histVars, disk, sent, loaded>>

\* The client process dies at any step and is started again.
Crash ==
  /\ used.connects < MaxConnects
  /\ conn' = "down" /\ rcvd' = 0
  /\ mem' = NoState
  /\ initialApplied' = NoMark /\ freshDone' = FALSE /\ waitTicks' = 0 /\ gate' = NoGate
  /\ pc' = [p \in Procs |-> "idle"]
  /\ loc' = [p \in Procs |-> NoLocals] /\ loaded' = NoState
  /\ UNCHANGED <<gameVars, histVars, disk, sent>>

\* poll_loop runs a tick when slot is set; _poll_tick is inert outside the AP
\* park (_session_active).
Tick ==
  /\ conn = "up" /\ park = "ap" /\ MayStart("worker")
  /\ Goto("worker", "enter")
  /\ UNCHANGED <<clientVars, netVars, gameVars, histVars, disk, loc>>

-----------------------------------------------------------------------------
(* _apply_new_items                                                        *)

Leave(p, l) == /\ Goto(p, l)
               /\ loc' = [loc EXCEPT ![p] = NoLocals]

\* slot is None by now: return.
EnterOffline(p) ==
  /\ At(p, "enter") /\ conn = "down"
  /\ Leave(p, AfterApply(p))
  /\ UNCHANGED <<clientVars, netVars, gameVars, histVars, disk>>

\* Hold items while the park age is expected but unknown, at most WaitMax times.
Holding == Mark < rcvd /\ ~YearsKnown /\ waitTicks < WaitMax

Hold(p) ==
  /\ At(p, "enter") /\ conn = "up" /\ Holding
  /\ waitTicks' = waitTicks + 1
  /\ Leave(p, AfterApply(p))
  /\ UNCHANGED <<netVars, gameVars, histVars, disk,
                 mem, initialApplied, freshDone, gate>>

Enter(p) ==
  /\ At(p, "enter") /\ conn = "up" /\ ~Holding
  /\ initialApplied' = IF initialApplied = NoMark THEN Mark ELSE initialApplied
  /\ Goto(p, "fresh")
  /\ UNCHANGED <<netVars, gameVars, histVars, disk, loc,
                 mem, freshDone, waitTicks, gate>>

\* applied = min(mark, len); for idx in range(applied, len).
BeginItems(p, mark) ==
  /\ Goto(p, "item")
  /\ loc' = [loc EXCEPT ![p].idx = Min2(mark, rcvd), ![p].end = rcvd]

\* _maybe_fresh_reset: a young park that holds exactly the baked balance.
Young       == YearsKnown /\ (park = "ap" => ~aged)
Fingerprint == Resolved /\ Cash("cash") = Baked

NotFresh(p) ==
  /\ At(p, "fresh") /\ ~(Young /\ Fingerprint /\ ~freshDone)
  /\ freshDone' = IF Young /\ ~Fingerprint THEN FALSE ELSE freshDone
  /\ BeginItems(p, Mark)
  /\ UNCHANGED <<netVars, gameVars, histVars, disk,
                 mem, initialApplied, waitTicks, gate>>

FreshDetected(p) ==
  /\ At(p, "fresh") /\ Young /\ Fingerprint /\ ~freshDone
  /\ freshDone' = TRUE
  /\ Goto(p, "baseline")
  /\ UNCHANGED <<netVars, gameVars, histVars, disk, loc,
                 mem, initialApplied, waitTicks, gate>>

\* _apply_starting_money; a failed anchor write is only logged.
Baseline(p) ==
  /\ At(p, "baseline")
  /\ IF StartMoney # NoStart /\ Resolved
     THEN book' = [book EXCEPT ![park].cash["cash"] = StartMoney,
                               ![park].base["cash"] = StartMoney,
                               ![park].net["cash"]  = 0]
     ELSE UNCHANGED book
  /\ ledgerFor' = IF park = "ap" THEN FALSE ELSE ledgerFor
  /\ Goto(p, "unledger")
  /\ UNCHANGED <<clientVars, netVars, disk, loc, acked, used,
                 park, ageKnown, aged, anchor>>

\* reset_granted.
Unledger(p) ==
  /\ At(p, "unledger")
  /\ Persisted([mem EXCEPT ![Key].granted = NoMoney])
  /\ ledgerFor' = (park = "ap" \/ ledgerFor)
  /\ IF initialApplied > 0
     THEN Goto(p, "rezero") /\ UNCHANGED loc
     ELSE BeginItems(p, Mark)
  /\ UNCHANGED <<netVars, gameVars, acked, used,
                 initialApplied, freshDone, waitTicks, gate>>

Rezero(p) ==
  /\ At(p, "rezero")
  /\ Persisted([mem EXCEPT ![Key].mark = 0])
  /\ BeginItems(p, 0)
  /\ UNCHANGED <<netVars, gameVars, histVars,
                 initialApplied, freshDone, waitTicks, gate>>

\* items_received was replaced by a shorter list: IndexError ends the step.
ItemGone(p) ==
  /\ AtItem(p) /\ loc[p].idx >= rcvd
  /\ Leave(p, AfterApply(p))
  /\ UNCHANGED <<clientVars, netVars, gameVars, histVars, disk>>

SkipUnknown(p) ==
  /\ AtItem(p) /\ loc[p].idx < rcvd
  /\ Class[loc[p].idx + 1] = "unknown"
  /\ acked' = acked \cup {loc[p].idx + 1}
  /\ Goto(p, "ack")
  /\ UNCHANGED <<clientVars, netVars, gameVars, disk, loc, ledgerFor, used>>

ApplyItem(p) ==
  /\ AtItem(p) /\ loc[p].idx < rcvd
  /\ Class[loc[p].idx + 1] = "money"
  /\ acked' = acked \cup {loc[p].idx + 1}
  /\ Goto(p, "ack")
  /\ UNCHANGED <<clientVars, netVars, gameVars, disk, loc, ledgerFor, used>>

\* PermitGate.unlock: the permit is added, then the list is written.
UnlockItem(p) ==
  /\ AtItem(p) /\ loc[p].idx < rcvd
  /\ Class[loc[p].idx + 1] = "unlock" /\ Hooked
  /\ gate' = [gate EXCEPT !.hook = "installed", !.unlocked = @ \cup {loc[p].idx + 1}]
  /\ loc' = [loc EXCEPT ![p].syncs = Syncs(TRUE), ![p].back = "ack"]
  /\ Goto(p, "build")
  /\ UNCHANGED <<netVars, gameVars, histVars, disk, mem, initialApplied, freshDone, waitTicks>>

AckItem(p) ==
  /\ At(p, "ack")
  /\ Persisted([mem EXCEPT ![Key].mark = loc[p].idx + 1])
  /\ loc' = [loc EXCEPT ![p].idx = @ + 1]
  /\ Goto(p, "item")
  /\ UNCHANGED <<netVars, gameVars, histVars,
                 initialApplied, freshDone, waitTicks, gate>>

\* The handler returned False: stop at this item, leave the mark.  The permit
\* of an unlock was added all the same.
PauseItem(p) ==
  /\ AtItem(p) /\ loc[p].idx < rcvd
  /\ Class[loc[p].idx + 1] # "unknown" /\ ~Applies(loc[p].idx + 1)
  /\ gate' = [gate EXCEPT !.unlocked = @ \cup ({loc[p].idx + 1} \cap Permits(rcvd))]
  /\ Goto(p, "targets")
  /\ UNCHANGED <<netVars, gameVars, histVars, disk, loc,
                 mem, initialApplied, freshDone, waitTicks>>

ItemsDone(p) ==
  /\ At(p, "item") /\ loc[p].idx >= loc[p].end
  /\ Goto(p, "targets")
  /\ UNCHANGED <<clientVars, netVars, gameVars, histVars, disk, loc>>

-----------------------------------------------------------------------------
(* _reconcile_cumulative, then _reconcile_permits                          *)

Targets(p) ==
  /\ At(p, "targets")
  /\ loc' = [loc EXCEPT ![p].target = [k \in Kinds |-> Owed[k][rcvd]],
                        ![p].todo   = Kinds]
  /\ Goto(p, "ledger")
  /\ UNCHANGED <<clientVars, netVars, gameVars, histVars, disk>>

\* The ledger holds more than the received items are worth: adopt the target.
AdoptTarget(p) ==
  /\ At(p, "ledger")
  /\ \E k \in loc[p].todo :
       /\ loc[p].target[k] < Granted(k)
       /\ Persisted([mem EXCEPT ![Key].granted[k] = loc[p].target[k]])
       /\ loc' = [loc EXCEPT ![p].todo = @ \ {k}]
  /\ UNCHANGED <<netVars, gameVars, histVars, pc,
                 initialApplied, freshDone, waitTicks, gate>>

NothingMissing(p) ==
  /\ At(p, "ledger")
  /\ \E k \in loc[p].todo :
       /\ loc[p].target[k] = Granted(k)
       /\ loc' = [loc EXCEPT ![p].todo = @ \ {k}]
  /\ UNCHANGED <<clientVars, netVars, gameVars, histVars, disk, pc>>

Missing(p) ==
  /\ At(p, "ledger")
  /\ \E k \in loc[p].todo :
       /\ loc[p].target[k] > Granted(k)
       /\ loc' = [loc EXCEPT ![p].kind = k, ![p].todo = @ \ {k},
                             ![p].delta = loc[p].target[k] - Granted(k)]
  /\ Goto(p, "read")
  /\ UNCHANGED <<clientVars, netVars, gameVars, histVars, disk>>

\* anchors.read; an unresolved anchor leaves the delta for a later pass.
ReadBalance(p) ==
  /\ At(p, "read")
  /\ IF Resolved
     THEN /\ loc' = [loc EXCEPT ![p].cur = Cash(loc[p].kind)]
          /\ Goto(p, "write")
     ELSE /\ UNCHANGED loc
          /\ Goto(p, "ledger")
  /\ UNCHANGED <<clientVars, netVars, gameVars, histVars, disk>>

\* anchors.write(current + delta).
WriteBalance(p) ==
  /\ At(p, "write")
  /\ IF Resolved
     THEN /\ book' = [book EXCEPT ![park].cash[loc[p].kind] = loc[p].cur + loc[p].delta]
          /\ Goto(p, "persist")
     ELSE /\ UNCHANGED book
          /\ Goto(p, "ledger")
  /\ UNCHANGED <<clientVars, netVars, histVars, disk, loc,
                 park, ageKnown, aged, anchor>>

\* set_granted(target).
PersistGrant(p) ==
  /\ At(p, "persist")
  /\ Persisted([mem EXCEPT ![Key].granted[loc[p].kind] = loc[p].target[loc[p].kind]])
  /\ Goto(p, "ledger")
  /\ UNCHANGED <<netVars, gameVars, histVars, loc,
                 initialApplied, freshDone, waitTicks, gate>>

LedgerDone(p) ==
  /\ At(p, "ledger") /\ loc[p].todo = {}
  /\ Leave(p, "permits")
  /\ UNCHANGED <<clientVars, netVars, gameVars, histVars, disk>>

\* _reconcile_permits derives the permits from all received items: at the end
\* of an application and once more as a step of every tick.
ReadItems(p) ==
  /\ pc[p] \in {"permits", "resync"}
  /\ loc' = [loc EXCEPT ![p].keys = Permits(rcvd),
                        ![p].back = IF At(p, "permits") THEN AfterApply(p) ELSE "idle"]
  /\ Goto(p, "set")
  /\ UNCHANGED <<clientVars, netVars, gameVars, histVars, disk>>

\* PermitGate.reconcile: the list is written only on a change.
SetUnlocked(p) ==
  /\ At(p, "set")
  /\ IF Hooked
     THEN /\ gate' = [gate EXCEPT !.hook = "installed", !.unlocked = loc[p].keys]
          /\ loc' = [loc EXCEPT ![p].syncs = Syncs(loc[p].keys # gate.unlocked)]
          /\ Goto(p, "build")
     ELSE /\ gate' = [gate EXCEPT !.unlocked = loc[p].keys]
          /\ Leave(p, loc[p].back)
  /\ UNCHANGED <<netVars, gameVars, histVars, disk, mem, initialApplied, freshDone, waitTicks>>

\* PermitGate._sync builds the list from the permits held now ...
BuildList(p) ==
  /\ At(p, "build") /\ loc[p].syncs > 0
  /\ loc' = [loc EXCEPT ![p].keys = gate.unlocked, ![p].syncs = @ - 1]
  /\ Goto(p, "list")
  /\ UNCHANGED <<clientVars, netVars, gameVars, histVars, disk>>

\* ... and writes it.
WriteList(p) ==
  /\ At(p, "list")
  /\ gate' = [gate EXCEPT !.listed = loc[p].keys]
  /\ Goto(p, "build")
  /\ UNCHANGED <<netVars, gameVars, histVars, disk, loc,
                 mem, initialApplied, freshDone, waitTicks>>

\* unlock and reconcile return True.
Unlocked(p) ==
  /\ At(p, "build") /\ loc[p].syncs = 0 /\ loc[p].back = "ack"
  /\ acked' = acked \cup {loc[p].idx + 1}
  /\ Goto(p, "ack")
  /\ UNCHANGED <<clientVars, netVars, gameVars, disk, loc, ledgerFor, used>>

Reconciled(p) ==
  /\ At(p, "build") /\ loc[p].syncs = 0 /\ loc[p].back # "ack"
  /\ Leave(p, loc[p].back)
  /\ UNCHANGED <<clientVars, netVars, gameVars, histVars, disk>>

-----------------------------------------------------------------------------
(* A save that fails.                                                      *)

\* What a setter under way leaves in memory.
Storing(p) ==
  CASE At(p, "unledger") -> {[mem EXCEPT ![Key].granted = NoMoney]}
    [] At(p, "rezero")   -> {[mem EXCEPT ![Key].mark = 0]}
    [] At(p, "ack")      -> {[mem EXCEPT ![Key].mark = loc[p].idx + 1]}
    [] At(p, "ledger")   -> {[mem EXCEPT ![Key].granted[k] = loc[p].target[k]] :
                               k \in {k \in loc[p].todo : loc[p].target[k] < Granted(k)}}
    [] At(p, "persist")  -> {[mem EXCEPT ![Key].granted[loc[p].kind] = loc[p].target[loc[p].kind]]}
    [] OTHER -> {}

\* The file cannot be written: it stays as it was, and the exception ends the
\* step.
SaveFails(p) ==
  /\ "save" \in Races
  /\ mem' \in Storing(p)
  /\ ledgerFor' = ((At(p, "unledger") /\ park = "ap") \/ ledgerFor)
  /\ Leave(p, AfterApply(p))
  /\ UNCHANGED <<netVars, gameVars, acked, used, disk,
                 initialApplied, freshDone, waitTicks, gate>>

Step(p) ==
  \/ EnterOffline(p) \/ Hold(p) \/ Enter(p)
  \/ NotFresh(p) \/ FreshDetected(p) \/ Baseline(p) \/ Unledger(p) \/ Rezero(p)
  \/ ItemGone(p) \/ SkipUnknown(p) \/ ApplyItem(p) \/ UnlockItem(p) \/ AckItem(p)
  \/ PauseItem(p) \/ ItemsDone(p)
  \/ Targets(p) \/ AdoptTarget(p) \/ NothingMissing(p) \/ Missing(p)
  \/ ReadBalance(p) \/ WriteBalance(p) \/ PersistGrant(p) \/ LedgerDone(p)
  \/ ReadItems(p) \/ SetUnlocked(p) \/ BuildList(p) \/ WriteList(p)
  \/ Unlocked(p) \/ Reconciled(p) \/ SaveFails(p)

-----------------------------------------------------------------------------
(* The server, the game and the player (external).                         *)

Send ==
  /\ sent < NItems
  /\ sent' = sent + 1
  /\ UNCHANGED <<clientVars, procVars, gameVars, histVars, disk, rcvd, conn, loaded>>

LoadPark ==
  /\ EnvMayAct /\ used.loads < MaxLoads
  /\ \E q \in Parks \ {park} : park' = q
  /\ ageKnown' = FALSE
  /\ used' = [used EXCEPT !.loads = @ + 1]
  /\ UNCHANGED <<clientVars, procVars, netVars, disk, aged, anchor, book,
                 acked, ledgerFor>>

\* The player starts the AP scenario anew; the old save is given up.
NewSave ==
  /\ EnvMayAct /\ used.saves < MaxSaves
  /\ book' = [book EXCEPT !["ap"] = NewBook(BakedCash)]
  /\ park' = "ap" /\ ageKnown' = FALSE /\ aged' = FALSE
  /\ ledgerFor' = (disk["slot"].granted = NoMoney)
  /\ used' = [used EXCEPT !.saves = @ + 1]
  /\ UNCHANGED <<clientVars, procVars, netVars, disk, anchor, acked>>

AgeResolves ==
  /\ EnvMayAct /\ park # "none" /\ ~ageKnown
  /\ ageKnown' = TRUE
  /\ UNCHANGED <<clientVars, procVars, netVars, histVars, disk,
                 park, aged, anchor, book>>

YearEnds ==
  /\ EnvMayAct /\ park = "ap" /\ ~aged
  /\ aged' = TRUE
  /\ UNCHANGED <<clientVars, procVars, netVars, histVars, disk,
                 park, ageKnown, anchor, book>>

AnchorLost ==
  /\ anchor /\ used.outages < MaxOutages
  /\ anchor' = FALSE
  /\ used' = [used EXCEPT !.outages = @ + 1]
  /\ UNCHANGED <<clientVars, procVars, netVars, disk, park, ageKnown, aged,
                 book, acked, ledgerFor>>

AnchorFound ==
  /\ ~anchor
  /\ anchor' = TRUE
  /\ UNCHANGED <<clientVars, procVars, netVars, histVars, disk,
                 park, ageKnown, aged, book>>

PlayerMove ==
  /\ EnvMayAct /\ park = "ap" /\ used.moves < MaxMoves
  /\ \E d \in PlayerMoves :
       /\ Cash("cash") + d >= 0
       /\ book' = [book EXCEPT !["ap"].cash["cash"] = @ + d,
                               !["ap"].net["cash"]  = @ + d]
  /\ used' = [used EXCEPT !.moves = @ + 1]
  /\ UNCHANGED <<clientVars, procVars, netVars, disk, park, ageKnown, aged,
                 anchor, acked, ledgerFor>>

Environment ==
  \/ Send \/ LoadPark \/ NewSave \/ AgeResolves \/ YearEnds
  \/ AnchorLost \/ AnchorFound \/ PlayerMove

Next ==
  \/ Connect \/ LoadAdopt \/ ReceiveItems \/ Disconnect \/ Crash \/ Tick
  \/ \E p \in Procs : Step(p)
  \/ Environment

Spec == Init /\ [][Next]_vars

\* poll_loop never stops ticking, a started thread runs on, the base client
\* reconnects and delivers (the event loop is free while a tick runs: where
\* Overlap is off, between two ticks), a lost anchor is found again.  Nothing is
\* assumed of the player or of the park-age signal.
Fairness ==
  /\ \A p \in Procs : WF_vars(Step(p))
  /\ WF_vars(LoadAdopt) /\ WF_vars(Tick)
  /\ WF_vars(Connect) /\ SF_vars(ReceiveItems) /\ WF_vars(AnchorFound)

FairSpec == Spec /\ Fairness
-----------------------------------------------------------------------------
(* Properties                                                              *)

\* Money of kind k the client has put into a park since its last baseline,
\* as the balance shows it.
Given(b, k) == book[b].cash[k] - book[b].base[k] - book[b].net[k]

Entries == [mark : 0..NItems, granted : [Kinds -> Nat]]
Locals  == [idx : 0..NItems, end : 0..NItems, target : [Kinds -> Nat],
            todo : SUBSET Kinds, kind : Kinds, delta : Nat, cur : Int,
            keys : SUBSET (1..NItems), syncs : 0..2,
            back : {"idle", "resync", "ack"}]
Gates   == [hook : {"absent", "installed"},
            unlocked : SUBSET (1..NItems), listed : SUBSET (1..NItems)]

\* Every variable holds a value of its type.
TypeOK ==
  /\ sent \in 0..NItems /\ rcvd \in 0..NItems /\ conn \in {"up", "down"}
  /\ mem \in [SlotKeys -> Entries] /\ disk \in [SlotKeys -> Entries]
  /\ initialApplied \in 0..NItems \cup {NoMark}
  /\ freshDone \in BOOLEAN /\ waitTicks \in 0..WaitMax /\ gate \in Gates
  /\ pc \in [Procs -> Labels] /\ loc \in [Procs -> Locals]
  /\ loaded \in [SlotKeys -> Entries]
  /\ park \in Books \cup {"none"}
  /\ ageKnown \in BOOLEAN /\ aged \in BOOLEAN /\ anchor \in BOOLEAN
  /\ book \in [Books -> [cash : [Kinds -> Int], base : [Kinds -> Int],
                         net : [Kinds -> Int]]]
  /\ acked \in SUBSET (1..NItems) /\ ledgerFor \in BOOLEAN
  /\ used \in [connects : Nat, saves : Nat, loads : Nat, moves : Nat, outages : Nat]

\* The high-water mark, in memory and in the file, never moves past an item
\* that was not applied (or skipped as unknown), whichever thread moved it.
MarkAcked ==
  \A s \in SlotKeys : /\ 1..mem[s].mark \subseteq acked
                      /\ 1..disk[s].mark \subseteq acked

\* Neither thread can make the ledger claim more than the server sent items
\* for, however their passes over the two kinds interleave.
LedgerWithinSent ==
  \A s \in SlotKeys, k \in Kinds : /\ mem[s].granted[k] <= Owed[k][sent]
                                   /\ disk[s].granted[k] <= Owed[k][sent]

\* The money in the AP park never exceeds what the received items are worth
\* ("a reconnect never double-grants").
NoDoubleGrant == \A k \in Kinds : Given("ap", k) <= Owed[k][sent]

\* Between two passes the park holds exactly the money its ledger claims, on
\* top of its baseline and of what the player did ("the player's spending is
\* never overwritten").
ExactGrant ==
  Idle /\ ledgerFor => \A k \in Kinds : Given("ap", k) = mem["slot"].granted[k]

\* Crashes and reconnects never lose money: between two passes the park holds
\* at least what the ledger file claims.
NeverShort ==
  Idle /\ ledgerFor => \A k \in Kinds : Given("ap", k) >= disk["slot"].granted[k]

\* "The client is INERT in foreign parks - no hooks, no item writes": the
\* client never changes the money of a park that is not the AP park.
InertInForeignPark == \A k \in Kinds : Given("foreign", k) = 0

\* While the AP park stays loaded the ledger catches up with the server: a
\* stalled item, an unresolved park age or an outage only delays the money.
LedgerCatchesUp ==
  <>[](park = "ap") =>
    <>[](\A k \in Kinds : mem["slot"].granted[k] = Owed[k][sent])

\* While the AP park stays loaded the purchase gate in the game ends up listing
\* what every item sent leaves blocked, though the hook comes late, a stalled
\* item holds the mark back, and the list is only written when the permits
\* changed ("idempotent and authoritative").  With two threads at once an older
\* list may be written last.
GateCatchesUp ==
  <>[](park = "ap") =>
    <>[](gate.hook = "installed" /\ gate.listed = Permits(sent))

\* The money a park receives implements the abstract grant of MoneyGrant.
Grant == INSTANCE MoneyGrant WITH
  given <- [k \in Kinds |-> Given("ap", k)]
GrantSpec == Grant!Spec
=============================================================================
