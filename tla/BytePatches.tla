----------------------------- MODULE BytePatches -----------------------------
(***************************************************************************)
(* Gates that overwrite instructions of Lua functions in the heap of the   *)
(* game: the terrain tools (memory/terrain.py) and the tiers of exhibit    *)
(* enrichment (memory/exhibit_enrich.py).  A function is found by its      *)
(* bytes and lies elsewhere after every load of a scenario; there can be   *)
(* several copies, of this load and of earlier ones.  What the             *)
(* replacements compute is worked out on the few instructions they use;    *)
(* an instruction is a tuple, its packing into bits is left out.           *)
(*                                                                         *)
(* Constant-level: operators over a heap with what the client remembers,   *)
(* and formulas over all small histories.                                  *)
(***************************************************************************)
EXTENDS Integers, Sequences, FiniteSets, Reachability

CONSTANTS
  MaxCopies,     \* bound: places in the heap for copies of the functions
  FindCooldown,  \* _FIND_COOLDOWN
  PatchRaces,    \* what a load may do besides, see Loads
  PatchRounds    \* bound: events of a history

MaxLevel == 3
Copies   == 1..MaxCopies

ASSUME PatchesAssumption ==
  /\ MaxCopies \in Nat /\ FindCooldown \in Nat /\ PatchRounds \in Nat
  /\ PatchRaces \subseteq {"stay", "reuse"}

-----------------------------------------------------------------------------
(* The instructions of Lua 5.3 that the replacements use                   *)

LoadBool(a, b, skip) == <<"LOADBOOL", a, b, skip>>
LoadK(a, value)      == <<"LOADK", a, value, 0>>
AddOnes(a)           == <<"ADD", a, 1, 1>>
EqOne(is, b)         == <<"EQ", is, b, 0>>
Le(is, b, c)         == <<"LE", is, b, c>>
Jmp(d)               == <<"JMP", d, 0, 0>>

\* One instruction: the registers and the place after it.  A comparison whose
\* outcome is not `is` skips the next instruction.
Skip(b)  == IF b THEN 2 ELSE 1
Bit(b)   == IF b THEN 1 ELSE 0
Exec(i, pc, reg) ==
  CASE i[1] = "LOADBOOL" -> [reg |-> [reg EXCEPT ![i[2]] = i[3]], pc |-> pc + 1 + i[4]]
    [] i[1] = "LOADK"    -> [reg |-> [reg EXCEPT ![i[2]] = i[3]], pc |-> pc + 1]
    [] i[1] = "ADD"      -> [reg |-> [reg EXCEPT ![i[2]] = i[3] + i[4]], pc |-> pc + 1]
    [] i[1] = "EQ"       -> [reg |-> reg, pc |-> pc + Skip(Bit(reg[i[3]] = 1) # i[2])]
    [] i[1] = "LE"       -> [reg |-> reg, pc |-> pc + Skip(Bit(reg[i[3]] <= reg[i[4]]) # i[2])]
    [] i[1] = "JMP"      -> [reg |-> reg, pc |-> pc + 1 + i[2]]

\* A window of code at place `from`, until control leaves it; no replacement
\* jumps back, so as many steps as there are instructions are enough.
Run(code, from, reg) ==
  LET inside(s) == s.pc >= from /\ s.pc < from + Len(code)
      s[n \in 0..Len(code)] ==
        IF n = 0 THEN [reg |-> reg, pc |-> from]
        ELSE IF inside(s[n - 1]) THEN Exec(code[s[n - 1].pc - from + 1], s[n - 1].pc, s[n - 1].reg)
        ELSE s[n - 1]
  IN  s[Len(code)]

\* variant54: R8 = (R7 <= n), then on at 49.
Variant54(n) ==
  CASE n <= 0 -> <<LoadBool(8, 0, 0), Jmp(0), Jmp(0), Jmp(0), Jmp(0)>>
    [] n = 1  -> <<EqOne(1, 7), Jmp(1), LoadBool(8, 0, 1), LoadBool(8, 1, 0), Jmp(0)>>
    [] n = 2  -> <<AddOnes(8), Le(1, 7, 8), Jmp(1), LoadBool(8, 0, 1), LoadBool(8, 1, 0)>>
    [] n >= 3 -> <<LoadBool(8, 1, 0), Jmp(0), Jmp(0), Jmp(0), Jmp(0)>>

\* variant32: on at 89 when R14 <= n, at 132 otherwise.
Variant32(n) ==
  CASE n <= 0 -> <<Jmp(45), Jmp(0), Jmp(0)>>
    [] n = 1  -> <<LoadK(15, 1), Le(0, 14, 15), Jmp(43)>>
    [] n = 2  -> <<AddOnes(15), Le(0, 14, 15), Jmp(43)>>
    [] n >= 3 -> <<Jmp(2), Jmp(0), Jmp(0)>>

Registers(level) == [r \in {7, 8, 14, 15} |-> IF r \in {7, 14} THEN level ELSE -1]

-----------------------------------------------------------------------------
(* A heap and the client.  The window of a copy is as it was loaded or     *)
(* patched; `here` is the copy that the game runs; `torn` are the copies   *)
(* to which the last write failed.  Both sites of a tier lie in one chunk, *)
(* loaded together and written one after the other.                        *)

NoCopy     == <<>>
Original   == <<"original">>
Patched(v) == <<"patched", v>>

Clean == [addrs |-> {}, orig |-> FALSE, applied |-> NoCopy, cooldown |-> 0, first |-> TRUE]
Ground == [heap |-> [c \in Copies |-> NoCopy], here |-> 0, torn |-> {}, count |-> 0, client |-> Clean]

Intact(w) == {c \in Copies : w.heap[c] # NoCopy}

\* _cache_valid: by bytes that are never patched.
CacheValid(w) == w.client.addrs # {} /\ w.client.addrs \subseteq Intact(w)

\* _find: TerrainGate looks for the whole code as it was loaded,
\* ExhibitEnrichmentGate for the bytes before the window.
FindTerrain(w) == {c \in Copies : w.heap[c] = Original}
FindTiers(w)   == Intact(w)

\* _ensure_located, with the copies that would be found: [w, ok].
EnsureLocated(w, found) ==
  LET k == w.client IN
  IF CacheValid(w) THEN [w |-> w, ok |-> TRUE]
  ELSE IF k.first THEN [w |-> [w EXCEPT !.client.first = FALSE], ok |-> FALSE]
  ELSE IF k.cooldown > 0 THEN [w |-> [w EXCEPT !.client.cooldown = @ - 1], ok |-> FALSE]
  ELSE [w |-> [w EXCEPT !.client = [addrs |-> found, orig |-> FALSE, applied |-> NoCopy, first |-> FALSE,
                                    cooldown |-> IF found = {} THEN FindCooldown ELSE 0]],
        ok |-> found # {}]

\* All copies that the client knows are written; the writes to `lost` fail.
WriteAll(w, value, lost) ==
  [w EXCEPT !.heap = [c \in Copies |-> IF c \in w.client.addrs \ lost THEN value ELSE w.heap[c]],
            !.torn = (@ \ w.client.addrs) \cup (w.client.addrs \cap lost)]

\* _reconcile_terrain: the flag of the tool is true until its item is there.
Greyed(w) == IF w.count > 0 THEN 0 ELSE 1

\* TerrainGate.reconcile, _patch: the value counts as applied, whether or not
\* its writes were made.  The register of the instruction is taken from what
\* is there.
ReconcileTerrain(w, lost) ==
  LET l == EnsureLocated(w, FindTerrain(w))
      v == Patched(Greyed(w))
  IN  IF ~l.ok \/ l.w.client.applied = v THEN l.w
      ELSE [WriteAll(l.w, v, lost) EXCEPT !.client.orig = TRUE, !.client.applied = v]

\* ExhibitEnrichmentGate.reconcile, the same; a window it knows is the original
\* one or one of the variants.
Tier(n) == IF n > MaxLevel THEN MaxLevel ELSE n
ReconcileTiers(w, lost) ==
  LET l == EnsureLocated(w, FindTiers(w))
      n == Tier(w.count)
  IN  IF ~l.ok \/ l.w.client.applied = Patched(n) THEN l.w
      ELSE [WriteAll(l.w, Patched(n), lost) EXCEPT !.client.applied = Patched(n)]

\* shutdown: TerrainGate puts back what it read before it wrote,
\* ExhibitEnrichmentGate what the code says.
ShutdownTerrain(w, lost) ==
  LET v == IF CacheValid(w) /\ w.client.orig THEN WriteAll(w, Original, lost) ELSE w
  IN  [v EXCEPT !.client = [w.client EXCEPT !.addrs = {}, !.orig = FALSE, !.applied = NoCopy]]
ShutdownTiers(w, lost) ==
  LET v == IF CacheValid(w) THEN WriteAll(w, Original, lost) ELSE w
  IN  [v EXCEPT !.client = [w.client EXCEPT !.addrs = {}, !.applied = NoCopy]]

\* The game loads the function anew (external): copies at the places `new`, of
\* which it runs the one at `to`; of the earlier ones those in `left` are still
\* there, the others are overwritten.
LoadCopy(w, new, to, left) ==
  [w EXCEPT !.heap = [c \in Copies |-> IF c \in new THEN Original
                                       ELSE IF c \in left THEN w.heap[c] ELSE NoCopy],
            !.here = to, !.torn = @ \cap (left \ new)]

\* _cache_valid: "a scenario reload moves it".  The copy that ran is overwritten
\* and none is loaded to a place that the client knows; "stay": the copy that
\* ran can be left over as well; "reuse": any place can be used again.
Loads(w) ==
  UNION {{LoadCopy(w, new, to, left) :
            to \in new, left \in SUBSET (IF "stay" \in PatchRaces THEN Intact(w) ELSE Intact(w) \ {w.here})} :
         new \in SUBSET (IF "reuse" \in PatchRaces THEN Copies ELSE Copies \ w.client.addrs)}

\* Between two loads a copy that does not run is overwritten.
Freed(w, c) == [w EXCEPT !.heap[c] = NoCopy, !.torn = @ \ {c}]

\* The client is gone without a shutdown and starts again.
Killed(w) == [w EXCEPT !.client = Clean]

\* Where one event leads; a kill, or an exit whose writes fail, and freed copies
\* only where they are `faults`.
PatchSteps(w, Tick(_, _), Shutdown(_, _), faults) ==
  {Tick(w, lost) : lost \in SUBSET Copies}
  \cup {[Shutdown(w, lost) EXCEPT !.client = Clean] :
           lost \in IF "kill" \in faults THEN SUBSET Copies ELSE {{}}}
  \cup {[w EXCEPT !.count = @ + 1]}
  \cup Loads(w)
  \cup {Killed(w) : f \in faults \cap {"kill"}}
  \cup {Freed(w, f[2]) : f \in (faults \cap {"free"}) \X (Intact(w) \ {w.here})}

TierSteps(w)    == PatchSteps(w, ReconcileTiers, ShutdownTiers, {"kill", "free"})
TerrainSteps(w) == PatchSteps(w, ReconcileTerrain, ShutdownTerrain, {})
TiersReached    == Reachable({Ground}, PatchRounds, TierSteps)
TerrainReached  == Reachable({Ground}, PatchRounds, TerrainSteps)

\* Ticks enough for the deferred first scan and a pause after a failed one.
Settled(w, Tick(_, _)) ==
  LET v[n \in 0..(FindCooldown + 3)] == IF n = 0 THEN w ELSE Tick(v[n - 1], {})
  IN  v[FindCooldown + 3]

-----------------------------------------------------------------------------
(* Properties                                                              *)

\* At both sites the replacement for n received copies tells the levels up to
\* n from the others and goes on where the original code goes on.
VariantsCompute ==
  \A n \in 0..4, level \in 1..MaxLevel :
    LET a == Run(Variant54(n), 44, Registers(level))
        b == Run(Variant32(n), 86, Registers(level))
    IN  /\ a.pc = 49 /\ a.reg[8] = Bit(level <= n) /\ a.reg[7] = level
        /\ b.pc = (IF level <= n THEN 89 ELSE 132) /\ b.reg[14] = level

\* Whatever was loaded, left over, received, stopped or killed before, some
\* ticks later the tiers that the game shows are those of the copies received,
\* unless the last write to the copy that runs failed, and a regular exit
\* leaves the code as it was loaded.
TiersFollow ==
  \A before \in TiersReached :
    LET w == Settled(before, ReconcileTiers) IN
    w.here # 0 /\ w.here \notin w.torn =>
      w.heap[w.here] = Patched(Tier(w.count)) /\ ShutdownTiers(w, {}).heap[w.here] = Original

\* The same for the terrain tools, as long as no client ends without putting the
\* code back and no copy is freed while another runs: a copy that is already
\* patched is not found again.
ToolsFollow ==
  \A before \in TerrainReached :
    LET w == Settled(before, ReconcileTerrain) IN
    w.here # 0 /\ w.here \notin w.torn =>
      w.heap[w.here] = Patched(Greyed(w)) /\ ShutdownTerrain(w, {}).heap[w.here] = Original

\* What the code does not keep when a write has failed: some ticks force the
\* code to what the items say (exhibit_enrich.py:220, "Authoritative gate sync").
TiersForced(before) ==
  LET w == Settled(before, ReconcileTiers) IN w.here # 0 => w.heap[w.here] = Patched(Tier(w.count))
==============================================================================
