------------------------ MODULE HookLifecycleProofs ------------------------
(***************************************************************************)
(* Proofs about HookLifecycle: every variable keeps its type; the client's *)
(* records of installed hooks agree with the game's sites as long as two   *)
(* threads do not install at once; a normal exit leaves no detour behind;  *)
(* and, when the threads take turns, the shared arena never frees a block  *)
(* that a site points into nor hands a slot out twice.                     *)
(* Then the self-check: what its report says of the sites and the roots of *)
(* any module is what the installations and the readers find.              *)
(***************************************************************************)
EXTENDS MCHookLifecycle, FiniteSetTheorems, TLAPS

-----------------------------------------------------------------------------
(* Types: a thread between two steps of an installation or a restore holds *)
(* a hook and a slot.                                                      *)

InHand ==
  /\ pc["worker"] \in InstallLabels \cup {"idle"}
  /\ \A p \in Installers :
       /\ Installing(p) => Hook(p) \in Hooks
       /\ pc[p] \in {"bump", "code", "patch", "record"} => Slot(p) \in Slots
  /\ pc["loop"] \in {"unpatch", "release", "free"} => Hook("loop") \in Hooks

Typed == TypeOK /\ InHand

\* What the proofs need of the constants and of the small sets.
LEMMA Facts ==
  /\ IsFiniteSet(Hooks) /\ LoopHooks \subseteq Hooks
  /\ Orig \notin Slots /\ NoSlot \notin Slots
  /\ Cap \in Nat /\ Cap >= 1 /\ MaxRuns \in Nat /\ MaxFaults \in Nat
  /\ Installers = {"worker", "loop"}
BY SitesAssumption, BoundsAssumption DEF SitesAssumption, BoundsAssumption, Installers

\* The updates of a thread's locals keep their type.
LEMMA LocalsTyped ==
  /\ NoLocals \in Locals
  /\ \A r \in Locals :
       /\ \A h \in Hooks : [r EXCEPT !.hook = h] \in Locals
       /\ \A s \in Slots : [r EXCEPT !.slot = s] \in Locals
       /\ \A h \in Hooks, s \in Slots \cup {NoSlot}, t \in SUBSET Hooks :
            [r EXCEPT !.hook = h, !.slot = s, !.todo = t] \in Locals
  /\ [NoLocals EXCEPT !.todo = Hooks] \in Locals
  /\ [NoLocals EXCEPT !.todo = Hooks, !.last = TRUE] \in Locals
BY DEF NoLocals, Locals

\* Block and index of a slot.
LEMMA SlotParts ==
  ASSUME NEW s \in Slots
  PROVE  Block(s) \in Blocks /\ s[2] \in 1..Cap /\ s[2] \in Nat /\ s = <<Block(s), s[2]>>
BY Facts DEF Slots, Block

LEMMA TypedInit == Init => Typed
<1> SUFFICES ASSUME Init PROVE Typed
  OBVIOUS
<1>1. TypeOK
  <2>1. pc \in [Installers -> Labels] /\ loc \in [Installers -> Locals]
    BY LocalsTyped DEF Init, Labels
  <2>2. /\ site \in [Hooks -> Slots \cup {Orig}] /\ mapped \in SUBSET Blocks
        /\ inside \in [GameThreads -> Slots \cup {NoSlot}] /\ ours \in SUBSET Hooks
        /\ hooks \in [Hooks -> Slots \cup {NoSlot}] /\ active \in SUBSET Hooks
        /\ tried \in SUBSET Best /\ failed \in SUBSET Best
    BY DEF Init
  <2>3. /\ used \in [Blocks -> Nat] /\ live \in Nat
        /\ runs \in 0..MaxRuns /\ faults \in 0..MaxFaults
    BY Facts DEF Init
  <2>4. up \in BOOLEAN
    BY DEF Init
  <2> QED
    BY <2>1, <2>2, <2>3, <2>4 DEF TypeOK
<1>2. \A p \in Installers : pc[p] = "idle"
  BY DEF Init
<1>3. InHand
  BY <1>2, Facts DEF InHand, Installing, InstallLabels
<1> QED
  BY <1>1, <1>3 DEF Typed

\* A step that takes one thread to label l with locals r.
Moves(p, l, r) == /\ pc'  = [pc EXCEPT ![p] = l]
                  /\ loc' = [loc EXCEPT ![p] = r]

LEMMA TypedMoves ==
  ASSUME Typed, NEW p \in Installers, NEW l \in Labels, NEW r \in Locals, Moves(p, l, r),
         p = "worker" => l \in InstallLabels \cup {"idle"},
         l \in InstallLabels \cup {"unpatch", "release", "free"} => r.hook \in Hooks,
         l \in {"bump", "code", "patch", "record"} => r.slot \in Slots
  PROVE  pc' \in [Installers -> Labels] /\ loc' \in [Installers -> Locals] /\ InHand'
<1>1. pc' \in [Installers -> Labels] /\ loc' \in [Installers -> Locals]
  BY DEF Typed, TypeOK, Moves
<1>2. \A q \in Installers : pc'[q] = (IF q = p THEN l ELSE pc[q])
                            /\ loc'[q] = (IF q = p THEN r ELSE loc[q])
  BY DEF Typed, TypeOK, Moves
<1>3. InHand'
  BY <1>2, Facts DEF Typed, InHand, Installing, Hook, Slot, InstallLabels
<1> QED
  BY <1>1, <1>3

\* The locals after each kind of update.
LEMMA LocalsAfter ==
  ASSUME Typed, NEW p \in Installers
  PROVE  /\ UNCHANGED loc => loc' = [loc EXCEPT ![p] = loc[p]]
         /\ \A h : loc' = [loc EXCEPT ![p].hook = h]
                     => loc' = [loc EXCEPT ![p] = [loc[p] EXCEPT !.hook = h]]
         /\ \A s : loc' = [loc EXCEPT ![p].slot = s]
                     => loc' = [loc EXCEPT ![p] = [loc[p] EXCEPT !.slot = s]]
         /\ loc[p] \in Locals
BY DEF Typed, TypeOK, Locals

LEMMA TypedInstall ==
  ASSUME Typed, NEW p \in Installers, Install(p)
  PROVE  Typed'
<1> USE Facts DEF Typed, gameVars, arenaVars, recordVars, procVars, boundVars
<1> DEFINE Rest == /\ site' \in [Hooks -> Slots \cup {Orig}] /\ mapped' \in SUBSET Blocks
                   /\ inside' \in [GameThreads -> Slots \cup {NoSlot}] /\ ours' \in SUBSET Hooks
                   /\ up' \in BOOLEAN
                   /\ hooks' \in [Hooks -> Slots \cup {NoSlot}] /\ active' \in SUBSET Hooks
                   /\ tried' \in SUBSET Best /\ failed' \in SUBSET Best
                   /\ used' \in [Blocks -> Nat] /\ live' \in Nat
                   /\ runs' \in 0..MaxRuns /\ faults' \in 0..MaxFaults
           Hands == pc' \in [Installers -> Labels] /\ loc' \in [Installers -> Locals] /\ InHand'
<1>0. SUFFICES Rest /\ Hands
  BY DEF TypeOK
<1>1. ASSUME NEW h \in Hooks, Resolve(p, h) PROVE Rest /\ Hands
  <2>1. Rest
    BY <1>1 DEF Resolve, TypeOK
  <2>2. Moves(p, "verify", [loc[p] EXCEPT !.hook = h])
    BY <1>1, LocalsAfter DEF Resolve, Moves, Goto
  <2>3. [loc[p] EXCEPT !.hook = h] \in Locals /\ [loc[p] EXCEPT !.hook = h].hook = h
    BY LocalsAfter, LocalsTyped, ZenonT(60) DEF Locals
  <2> QED
    BY <2>1, <2>2, <2>3, TypedMoves DEF Labels, InstallLabels
<1>2. CASE Verify(p)
  <2>1. Rest
    BY <1>2 DEF Verify, TypeOK
  <2>2. Moves(p, "alloc", loc[p]) \/ Moves(p, "idle", NoLocals)
    BY <1>2, LocalsAfter DEF Verify, Leave, Moves, Goto
  <2>3. Hook(p) \in Hooks
    BY <1>2 DEF Verify, At, InHand, Installing, InstallLabels
  <2> QED
    BY <2>1, <2>2, <2>3, LocalsAfter, LocalsTyped, TypedMoves DEF Labels, InstallLabels, Hook
<1>3. CASE PickRoom(p)
  <2>1. PICK b \in Blocks : HasRoom(b) /\ loc' = [loc EXCEPT ![p].slot = <<b, used[b] + 1>>]
    BY <1>3 DEF PickRoom
  <2> DEFINE s == <<b, used[b] + 1>>
  <2>2. s \in Slots
    BY <2>1 DEF HasRoom, Listed, TypeOK, Slots
  <2>3. Moves(p, "bump", [loc[p] EXCEPT !.slot = s])
    BY <1>3, <2>1, LocalsAfter DEF PickRoom, Moves, Goto
  <2>4. [loc[p] EXCEPT !.slot = s] \in Locals
    BY <2>2, LocalsAfter, LocalsTyped
  <2>5. [loc[p] EXCEPT !.slot = s].slot = s /\ [loc[p] EXCEPT !.slot = s].hook = loc[p].hook
    BY LocalsAfter DEF Locals
  <2>6. loc[p].hook \in Hooks
    BY <1>3 DEF PickRoom, At, InHand, Installing, InstallLabels, Hook
  <2>7. Rest
    BY <1>3 DEF PickRoom, TypeOK
  <2>8. Hands
    BY <2>2, <2>3, <2>4, <2>5, <2>6, TypedMoves DEF Labels, InstallLabels
  <2> QED
    BY <2>7, <2>8
<1>4. CASE Bump(p)
  <2>1. loc[p].hook \in Hooks /\ loc[p].slot \in Slots
    BY <1>4 DEF Bump, At, InHand, Installing, InstallLabels, Hook, Slot
  <2>2. Moves(p, "code", loc[p])
    BY <1>4, LocalsAfter DEF Bump, Moves, Goto
  <2>3. Rest
    <3>1. Block(loc[p].slot) \in Blocks
      BY <2>1, SlotParts
    <3>2. used' \in [Blocks -> Nat]
      BY <1>4, <3>1 DEF Bump, TypeOK, Slot
    <3> QED
      BY <1>4, <3>2 DEF Bump, TypeOK
  <2>4. Hands
    BY <2>1, <2>2, LocalsAfter, TypedMoves DEF Labels, InstallLabels
  <2> QED
    BY <2>3, <2>4
<1>5. CASE FreshBlock(p)
  <2>1. PICK b \in Blocks \ mapped : /\ mapped' = mapped \cup {b}
                                     /\ used' = [used EXCEPT ![b] = 1]
                                     /\ loc' = [loc EXCEPT ![p].slot = <<b, 1>>]
    BY <1>5 DEF FreshBlock
  <2> DEFINE s == <<b, 1>>
  <2>2. s \in Slots
    BY DEF Slots
  <2>3. Moves(p, "code", [loc[p] EXCEPT !.slot = s])
    BY <1>5, <2>1, LocalsAfter DEF FreshBlock, Moves, Goto
  <2>4. [loc[p] EXCEPT !.slot = s] \in Locals
    BY <2>2, LocalsAfter, LocalsTyped
  <2>5. [loc[p] EXCEPT !.slot = s].slot = s /\ [loc[p] EXCEPT !.slot = s].hook = loc[p].hook
    BY LocalsAfter DEF Locals
  <2>6. loc[p].hook \in Hooks
    BY <1>5 DEF FreshBlock, At, InHand, Installing, InstallLabels, Hook
  <2>7. Rest
    BY <1>5, <2>1 DEF FreshBlock, TypeOK
  <2>8. Hands
    BY <2>2, <2>3, <2>4, <2>5, <2>6, TypedMoves DEF Labels, InstallLabels
  <2> QED
    BY <2>7, <2>8
<1>6. CASE NoRoom(p)
  <2>1. Rest
    BY <1>6 DEF NoRoom, TypeOK
  <2>2. Moves(p, "idle", NoLocals)
    BY <1>6 DEF NoRoom, Leave, Moves, Goto
  <2> QED
    BY <2>1, <2>2, LocalsTyped, TypedMoves DEF Labels, InstallLabels
<1>7. CASE WriteCode(p)
  <2>1. loc[p].hook \in Hooks /\ loc[p].slot \in Slots
    BY <1>7 DEF WriteCode, At, InHand, Installing, InstallLabels, Hook, Slot
  <2>2. Moves(p, "patch", loc[p]) \/ Moves(p, "idle", NoLocals)
    BY <1>7, LocalsAfter DEF WriteCode, Leave, Moves, Goto
  <2>3. Rest
    BY <1>7 DEF WriteCode, TypeOK
  <2> QED
    BY <2>1, <2>2, <2>3, LocalsAfter, LocalsTyped, TypedMoves DEF Labels, InstallLabels
<1>8. CASE Patch(p)
  <2>1. loc[p].hook \in Hooks /\ loc[p].slot \in Slots
    BY <1>8 DEF Patch, At, InHand, Installing, InstallLabels, Hook, Slot
  <2>2. Moves(p, "record", loc[p])
    BY <1>8, LocalsAfter DEF Patch, Moves, Goto
  <2>3. Rest
    BY <1>8, <2>1 DEF Patch, TypeOK, Hook, Slot
  <2> QED
    BY <2>1, <2>2, <2>3, LocalsAfter, TypedMoves DEF Labels, InstallLabels
<1>9. CASE InstallFails(p)
  <2>1. Rest
    BY <1>9 DEF InstallFails, Fault, TypeOK
  <2>2. Moves(p, "idle", NoLocals)
    BY <1>9 DEF InstallFails, Leave, Moves, Goto
  <2> QED
    BY <2>1, <2>2, LocalsTyped, TypedMoves DEF Labels, InstallLabels
<1>10. CASE Record(p)
  <2>1. loc[p].hook \in Hooks /\ loc[p].slot \in Slots
    BY <1>10 DEF Record, At, InHand, Installing, InstallLabels, Hook, Slot
  <2>2. Rest
    BY <1>10, <2>1 DEF Record, TypeOK, Hook, Slot
  <2>3. Moves(p, "idle", NoLocals)
    BY <1>10 DEF Record, Leave, Moves, Goto
  <2> QED
    BY <2>2, <2>3, LocalsTyped, TypedMoves DEF Labels, InstallLabels
<1>11. ASSUME NEW h \in Hooks, Unresolved(p, h) PROVE Rest /\ Hands
  <2>1. Rest
    BY <1>11 DEF Unresolved, Fault, TypeOK
  <2>2. Hands
    BY <1>11 DEF Unresolved, TypeOK, InHand, Installing, Hook, Slot
  <2> QED
    BY <2>1, <2>2
<1> QED
  BY <1>1, <1>2, <1>3, <1>4, <1>5, <1>6, <1>7, <1>8, <1>9, <1>10,
     <1>11 DEF Install

LEMMA TypedClose ==
  ASSUME Typed, Close
  PROVE  Typed'
<1> USE Facts DEF Typed, gameVars, arenaVars, recordVars, procVars, boundVars
<1> DEFINE Rest == /\ site' \in [Hooks -> Slots \cup {Orig}] /\ mapped' \in SUBSET Blocks
                   /\ inside' \in [GameThreads -> Slots \cup {NoSlot}] /\ ours' \in SUBSET Hooks
                   /\ up' \in BOOLEAN
                   /\ hooks' \in [Hooks -> Slots \cup {NoSlot}] /\ active' \in SUBSET Hooks
                   /\ tried' \in SUBSET Best /\ failed' \in SUBSET Best
                   /\ used' \in [Blocks -> Nat] /\ live' \in Nat
                   /\ runs' \in 0..MaxRuns /\ faults' \in 0..MaxFaults
           Hands == pc' \in [Installers -> Labels] /\ loc' \in [Installers -> Locals] /\ InHand'
           round(last) == [NoLocals EXCEPT !.todo = Hooks, !.last = last]
<1>0. SUFFICES Rest /\ Hands
  BY DEF TypeOK
<1>a. "loop" \in Installers
  BY DEF Installers
<1>1. CASE BeginClose
  <2>1. Rest
    BY <1>1 DEF BeginClose, TypeOK
  <2>2. Moves("loop", "close", [NoLocals EXCEPT !.todo = Hooks])
    BY <1>1 DEF BeginClose, Moves, Goto
  <2> QED
    BY <1>a, <2>1, <2>2, LocalsTyped, TypedMoves DEF Labels, CloseLabels, InstallLabels
<1>2. CASE Pop
  <2>1. PICK h \in loc["loop"].todo :
          /\ loc' = [loc EXCEPT !["loop"].hook = h, !["loop"].slot = hooks[h],
                                !["loop"].todo = @ \ {h}]
          /\ hooks'  = [hooks EXCEPT ![h] = NoSlot]
          /\ active' = active \ {h}
          /\ Goto("loop", IF hooks[h] = NoSlot THEN "close" ELSE "unpatch")
    BY <1>2 DEF Pop
  <2> DEFINE l == IF hooks[h] = NoSlot THEN "close" ELSE "unpatch"
             r == [loc["loop"] EXCEPT !.hook = h, !.slot = hooks[h],
                                      !.todo = loc["loop"].todo \ {h}]
  <2>2. h \in Hooks /\ loc["loop"].todo \in SUBSET Hooks
    BY <1>a DEF TypeOK, Locals
  <2>3. r \in Locals /\ r.hook = h
    <3>1. /\ loc["loop"] \in Locals /\ hooks[h] \in Slots \cup {NoSlot}
          /\ loc["loop"].todo \ {h} \in SUBSET Hooks
      BY <1>a, <2>2 DEF TypeOK
    <3>2. r \in Locals
      BY <2>2, <3>1, LocalsTyped
    <3>3. r.hook = h
      BY <3>1 DEF Locals
    <3> QED
      BY <3>2, <3>3
  <2>4. Moves("loop", l, r)
    BY <1>a, <2>1 DEF Moves, Goto, TypeOK, Locals
  <2>5. Hands
    BY <1>a, <2>2, <2>3, <2>4, TypedMoves DEF Labels, CloseLabels, InstallLabels
  <2>6. Rest
    BY <1>2, <2>1, <2>2 DEF Pop, TypeOK
  <2> QED
    BY <2>5, <2>6
<1>3. CASE Unpatch
  <2>1. loc["loop"].hook \in Hooks
    BY <1>3 DEF Unpatch, At, InHand, Hook
  <2>2. Rest
    BY <1>3, <2>1 DEF Unpatch, TypeOK, Hook
  <2>3. Moves("loop", "release", loc["loop"])
    BY <1>3, <1>a, LocalsAfter DEF Unpatch, Moves, Goto
  <2> QED
    BY <1>a, <2>1, <2>2, <2>3, LocalsAfter, TypedMoves DEF Labels, CloseLabels, InstallLabels
<1>4. CASE UnpatchFails
  <2>1. Rest
    BY <1>4 DEF UnpatchFails, Fault, TypeOK
  <2>2. Moves("loop", "close", loc["loop"])
    BY <1>4, <1>a, LocalsAfter DEF UnpatchFails, Moves, Goto
  <2> QED
    BY <1>a, <2>1, <2>2, LocalsAfter, TypedMoves DEF Labels, CloseLabels, InstallLabels
<1>5. CASE Release
  <2>1. loc["loop"].hook \in Hooks
    BY <1>5 DEF Release, At, InHand, Hook
  <2>2. Rest
    BY <1>5 DEF Release, TypeOK
  <2>3. Moves("loop", "free", loc["loop"]) \/ Moves("loop", "close", loc["loop"])
    BY <1>5, <1>a, LocalsAfter DEF Release, Moves, Goto
  <2> QED
    BY <1>a, <2>1, <2>2, <2>3, LocalsAfter, TypedMoves DEF Labels, CloseLabels, InstallLabels
<1>6. CASE Free
  <2>1. Rest
    BY <1>6 DEF Free, TypeOK
  <2>2. Moves("loop", "close", loc["loop"])
    BY <1>6, <1>a, LocalsAfter DEF Free, Moves, Goto
  <2> QED
    BY <1>a, <2>1, <2>2, LocalsAfter, TypedMoves DEF Labels, CloseLabels, InstallLabels
<1>7. CASE JoinWorker
  <2>1. Rest
    BY <1>7 DEF JoinWorker, TypeOK
  <2>2. Moves("loop", "close", round(TRUE))
    BY <1>7, <1>a DEF JoinWorker, Moves, At, TypeOK
  <2> QED
    BY <1>a, <2>1, <2>2, LocalsTyped, TypedMoves DEF Labels, CloseLabels, InstallLabels
<1>8. CASE Exited
  <2>1. Rest
    BY <1>8 DEF Exited, TypeOK
  <2>2. Moves("loop", "exited", loc["loop"])
    BY <1>8, <1>a, LocalsAfter DEF Exited, Moves, Goto
  <2> QED
    BY <1>a, <2>1, <2>2, LocalsAfter, TypedMoves DEF Labels, CloseLabels, InstallLabels
<1> QED
  BY <1>1, <1>2, <1>3, <1>4, <1>5, <1>6, <1>7, <1>8 DEF Close

LEMMA TypedElsewhere ==
  ASSUME Typed,
         \/ StartClient \/ StopClient
         \/ \E g \in GameThreads : EnterTrampoline(g) \/ LeaveTrampoline(g)
         \/ UNCHANGED vars
  PROVE  Typed'
<1> USE Facts DEF Typed, gameVars, arenaVars, recordVars, procVars, boundVars
<1>1. CASE StartClient
  BY <1>1 DEF StartClient, TypeOK, InHand, Installing, Hook, Slot
<1>2. CASE StopClient
  <2>1. \A p \in Installers : pc'[p] = "idle"
    BY <1>2 DEF StopClient
  <2>2. InHand'
    BY <2>1 DEF InHand, Installing, InstallLabels
  <2>3. pc' \in [Installers -> Labels] /\ loc' \in [Installers -> Locals]
    BY <1>2, LocalsTyped DEF StopClient, Labels
  <2>4. TypeOK'
    BY <1>2, <2>3 DEF StopClient, TypeOK
  <2> QED
    BY <2>2, <2>4
<1>3. ASSUME NEW g \in GameThreads, EnterTrampoline(g) PROVE Typed'
  BY <1>3 DEF EnterTrampoline, TypeOK, InHand, Installing, Hook, Slot
<1>4. ASSUME NEW g \in GameThreads, LeaveTrampoline(g) PROVE Typed'
  BY <1>4 DEF LeaveTrampoline, TypeOK, InHand, Installing, Hook, Slot
<1>5. CASE UNCHANGED vars
  BY <1>5 DEF vars, TypeOK, InHand, Installing, Hook, Slot
<1> QED
  BY <1>1, <1>2, <1>3, <1>4, <1>5

LEMMA TypedStep == Typed /\ [Next]_vars => Typed'
BY TypedInstall, TypedClose, TypedElsewhere DEF Next

\* Every variable keeps its type, whatever the interleaving.
THEOREM TypeCorrect == Spec => []TypeOK
<1>1. Typed => TypeOK
  BY DEF Typed
<1> QED
  BY <1>1, TypedInit, TypedStep, PTL DEF Spec

-----------------------------------------------------------------------------
(* Records agree with the sites, unless two threads install at once.       *)

\* One thread installs at a time, a hook that nobody else has or restores.
OneInstaller ==
  /\ Installing("worker") => ~Installing("loop")
  /\ \A p \in Installers : Installing(p) => ~Installed(Hook(p))

\* A thread about to record has patched its site; the loop has dropped the
\* record of the hook it restores.
Patched ==
  /\ \A p \in Installers : At(p, "record") => site[Hook(p)] = Slot(p)
  /\ pc["loop"] \in {"unpatch", "release", "free"} => hooks[Hook("loop")] = NoSlot

Records == Typed /\ OneInstaller /\ Patched /\ RecordedIsLive

LEMMA RecordsInit == Init => Records
<1> SUFFICES ASSUME Init PROVE Records
  OBVIOUS
<1>1. \A p \in Installers : pc[p] = "idle"
  BY DEF Init
<1>2. pc["loop"] = "idle" /\ pc["worker"] = "idle"
  BY <1>1, Facts
<1>3. OneInstaller /\ Patched
  BY <1>1, <1>2, Facts DEF OneInstaller, Patched, Installing, InstallLabels, At
<1>4. RecordedIsLive
  BY DEF Init, RecordedIsLive
<1> QED
  BY <1>3, <1>4, TypedInit DEF Records

\* The other thread does not install while this one does.
LEMMA Alone ==
  ASSUME Records, NEW p \in Installers, NEW q \in Installers, Installing(p), Installing(q)
  PROVE  p = q
BY Facts DEF Records, OneInstaller

\* How one thread's step shows in the control state and the locals.
LEMMA MovesApart ==
  ASSUME Typed, NEW p \in Installers, NEW l, NEW r, Moves(p, l, r)
  PROVE  /\ pc'[p] = l /\ loc'[p] = r
         /\ \A q \in Installers : q # p => pc'[q] = pc[q] /\ loc'[q] = loc[q]
BY DEF Typed, TypeOK, Moves

\* A step within an installation that touches neither sites nor records.
LEMMA RecordsQuiet ==
  ASSUME Records, NEW p \in Installers, NEW l, NEW r, Moves(p, l, r), Installing(p),
         l = "idle" \/ (l \in InstallLabels \ {"record"} /\ r.hook = loc[p].hook),
         UNCHANGED <<site, hooks, active>>
  PROVE  OneInstaller' /\ Patched' /\ RecordedIsLive'
<1>1. /\ pc'[p] = l /\ loc'[p] = r
      /\ \A q \in Installers : q # p => pc'[q] = pc[q] /\ loc'[q] = loc[q]
  BY MovesApart DEF Records
<1>2. \A h : BeingRestored(h)' => BeingRestored(h)
  BY <1>1, Facts DEF BeingRestored, Hook, InstallLabels
<1>3. OneInstaller'
  BY <1>1, <1>2, Facts DEF Records, OneInstaller, Installing, Installed, Hook, InstallLabels
<1>4. Patched'
  BY <1>1, Facts DEF Records, Patched, At, Hook, Slot, InstallLabels
<1>5. RecordedIsLive'
  BY DEF Records, RecordedIsLive
<1> QED
  BY <1>3, <1>4, <1>5

LEMMA RecordsInstall ==
  ASSUME "install" \notin Races, Records, NEW p \in Installers, Install(p)
  PROVE  Records'
<1>0. Typed'
  BY TypedInstall DEF Records
<1>a. SUFFICES OneInstaller' /\ Patched' /\ RecordedIsLive'
  BY <1>0 DEF Records
<1> USE Facts DEF recordVars, gameVars, arenaVars, boundVars
<1>b. Typed
  BY DEF Records
<1>1. ASSUME NEW h \in Hooks, Resolve(p, h)
      PROVE  OneInstaller' /\ Patched' /\ RecordedIsLive'
  <2>1. Moves(p, "verify", [loc[p] EXCEPT !.hook = h]) /\ [loc[p] EXCEPT !.hook = h].hook = h
    BY <1>1, <1>b, LocalsAfter DEF Resolve, Moves, Goto, Locals
  <2>2. /\ pc'[p] = "verify" /\ Hook(p)' = h
        /\ \A q \in Installers : q # p => pc'[q] = pc[q] /\ loc'[q] = loc[q]
    <3>1. /\ pc'[p] = "verify" /\ loc'[p] = [loc[p] EXCEPT !.hook = h]
          /\ \A q \in Installers : q # p => pc'[q] = pc[q] /\ loc'[q] = loc[q]
      BY <2>1, <1>b, MovesApart
    <3> QED
      BY <2>1, <3>1 DEF Hook
  <2>3. /\ pc[p] = "idle" /\ hooks[h] = NoSlot /\ ~BeingRestored(h)
        /\ \A q \in Installers : ~Installing(q)
    BY <1>1 DEF Resolve, Idle, At, Installed, MayInstall, Installing, InstallLabels
  <2>4. /\ hooks' = hooks /\ active' = active /\ site' = [site EXCEPT ![h] = Orig]
    BY <1>1 DEF Resolve
  <2>5. \A g : BeingRestored(g)' => BeingRestored(g)
    BY <2>2 DEF BeingRestored, Hook
  <2>6. OneInstaller'
    BY <2>2, <2>3, <2>4, <2>5 DEF OneInstaller, Installing, Installed, Hook
  <2>7. Patched'
    BY <2>2, <2>3, <2>4 DEF Patched, At, Installing, InstallLabels, Records, Hook, Slot
  <2>8. RecordedIsLive'
    BY <2>3, <2>4 DEF RecordedIsLive, Records, Typed, TypeOK
  <2> QED
    BY <2>6, <2>7, <2>8
<1>2. CASE Verify(p)
  <2>1. Moves(p, "alloc", loc[p]) \/ Moves(p, "idle", NoLocals)
    BY <1>2, <1>b, LocalsAfter DEF Verify, Leave, Moves, Goto
  <2> QED
    BY <1>2, <2>1, RecordsQuiet DEF Verify, At, Installing, InstallLabels
<1>3. CASE PickRoom(p)
  <2>1. PICK s : loc' = [loc EXCEPT ![p].slot = s]
    BY <1>3 DEF PickRoom
  <2>2. Moves(p, "bump", [loc[p] EXCEPT !.slot = s]) /\ [loc[p] EXCEPT !.slot = s].hook = loc[p].hook
    BY <1>3, <1>b, <2>1, LocalsAfter DEF PickRoom, Moves, Goto, Locals
  <2> QED
    BY <1>3, <2>2, RecordsQuiet DEF PickRoom, At, Installing, InstallLabels
<1>4. CASE Bump(p)
  <2>1. Moves(p, "code", loc[p])
    BY <1>4, <1>b, LocalsAfter DEF Bump, Moves, Goto
  <2> QED
    BY <1>4, <2>1, RecordsQuiet DEF Bump, At, Installing, InstallLabels
<1>5. CASE FreshBlock(p)
  <2>1. PICK s : loc' = [loc EXCEPT ![p].slot = s]
    BY <1>5 DEF FreshBlock
  <2>2. Moves(p, "code", [loc[p] EXCEPT !.slot = s]) /\ [loc[p] EXCEPT !.slot = s].hook = loc[p].hook
    BY <1>5, <1>b, <2>1, LocalsAfter DEF FreshBlock, Moves, Goto, Locals
  <2> QED
    BY <1>5, <2>2, RecordsQuiet DEF FreshBlock, At, Installing, InstallLabels
<1>6. CASE NoRoom(p)
  <2>1. Moves(p, "idle", NoLocals)
    BY <1>6 DEF NoRoom, Leave, Moves, Goto
  <2> QED
    BY <1>6, <2>1, RecordsQuiet DEF NoRoom, At, Installing, InstallLabels
<1>7. CASE WriteCode(p)
  <2>1. Moves(p, "patch", loc[p]) \/ Moves(p, "idle", NoLocals)
    BY <1>7, <1>b, LocalsAfter DEF WriteCode, Leave, Moves, Goto
  <2> QED
    BY <1>7, <2>1, RecordsQuiet DEF WriteCode, At, Installing, InstallLabels
<1>8. CASE Patch(p)
  <2>1. Moves(p, "record", loc[p])
    BY <1>8, <1>b, LocalsAfter DEF Patch, Moves, Goto
  <2>2. /\ pc'[p] = "record" /\ loc' = loc
        /\ \A q \in Installers : q # p => pc'[q] = pc[q]
    BY <2>1, <1>8, <1>b, MovesApart DEF Patch
  <2>3. /\ pc[p] = "patch" /\ Installing(p) /\ Hook(p) \in Hooks /\ ~Installed(Hook(p))
    BY <1>8 DEF Patch, At, Installing, InstallLabels, Records, Typed, InHand, OneInstaller
  <2>4. hooks' = hooks /\ active' = active /\ site' = [site EXCEPT ![Hook(p)] = Slot(p)]
    BY <1>8 DEF Patch
  <2>5. OneInstaller'
    <3>1. \A q \in Installers : Installing(q)' => Installing(q)
      BY <2>2, <2>3 DEF Installing
    <3>2. \A g : BeingRestored(g)' => BeingRestored(g)
      BY <2>2 DEF BeingRestored, Hook
    <3> QED
      BY <2>2, <2>4, <3>1, <3>2 DEF Records, OneInstaller, Installed, Hook
  <2>6. Patched'
    <3>1. \A q \in Installers : At(q, "record")' => q = p
      BY <2>2, <2>3, Alone DEF At, Installing, InstallLabels
    <3>2. site'[Hook(p)] = Slot(p)
      BY <2>3, <2>4, <1>b DEF Typed, TypeOK
    <3> QED
      BY <2>2, <2>4, <3>1, <3>2 DEF Patched, Records, Hook, Slot
  <2>7. RecordedIsLive'
    BY <2>3, <2>4, <1>b DEF RecordedIsLive, Records, Typed, TypeOK, Installed
  <2> QED
    BY <2>5, <2>6, <2>7
<1>9. CASE InstallFails(p)
  <2>1. Moves(p, "idle", NoLocals)
    BY <1>9 DEF InstallFails, Leave, Moves, Goto
  <2> QED
    BY <1>9, <2>1, RecordsQuiet DEF InstallFails, At, Installing, InstallLabels
<1>10. CASE Record(p)
  <2>1. Moves(p, "idle", NoLocals)
    BY <1>10 DEF Record, Leave, Moves, Goto
  <2>2. /\ pc'[p] = "idle"
        /\ \A q \in Installers : q # p => pc'[q] = pc[q] /\ loc'[q] = loc[q]
    BY <2>1, <1>b, MovesApart
  <2>3. /\ Installing(p) /\ Hook(p) \in Hooks /\ ~BeingRestored(Hook(p))
        /\ site[Hook(p)] = Slot(p)
    BY <1>10 DEF Record, At, Installing, InstallLabels, Records, Typed, InHand, OneInstaller,
                 Installed, Patched
  <2>4. /\ hooks' = [hooks EXCEPT ![Hook(p)] = Slot(p)] /\ active' = active \cup {Hook(p)}
        /\ site' = site
    BY <1>10 DEF Record
  <2>5. \A q \in Installers : ~Installing(q)'
    BY <2>2, <2>3, Alone DEF Installing, InstallLabels
  <2>6. OneInstaller'
    BY <2>5 DEF OneInstaller
  <2>7. Patched'
    <3>1. \A q \in Installers : ~At(q, "record")'
      BY <2>5 DEF At, Installing, InstallLabels
    <3>2. ASSUME pc'["loop"] \in {"unpatch", "release", "free"}
          PROVE  pc["loop"] = pc'["loop"] /\ loc'["loop"] = loc["loop"]
      BY <3>2, <2>2
    <3> QED
      BY <2>3, <2>4, <3>1, <3>2, <1>b DEF Patched, Records, BeingRestored, Hook, Typed, TypeOK
  <2>8. RecordedIsLive'
    <3>1. Slot(p) # NoSlot
      BY <1>10 DEF Record, At, Records, Typed, InHand
    <3> QED
      BY <2>3, <2>4, <3>1, <1>b DEF RecordedIsLive, Records, Typed, TypeOK
  <2> QED
    BY <2>6, <2>7, <2>8
<1>11. ASSUME NEW h \in Hooks, Unresolved(p, h)
       PROVE  OneInstaller' /\ Patched' /\ RecordedIsLive'
  <2>1. UNCHANGED <<pc, loc, hooks, active, site>>
    BY <1>11 DEF Unresolved, procVars
  <2> QED
    BY <2>1 DEF Records, OneInstaller, Patched, RecordedIsLive, Installing, Installed,
                BeingRestored, At, Hook, Slot
<1> QED
  BY <1>1, <1>2, <1>3, <1>4, <1>5, <1>6, <1>7, <1>8, <1>9, <1>10,
     <1>11 DEF Install

LEMMA RecordsClose ==
  ASSUME Records, Close
  PROVE  Records'
<1>0. Typed'
  BY TypedClose DEF Records
<1>a. SUFFICES OneInstaller' /\ Patched' /\ RecordedIsLive'
  BY <1>0 DEF Records
<1> USE Facts DEF recordVars, gameVars, arenaVars, boundVars
<1>b. Typed /\ "loop" \in Installers
  BY DEF Records, Installers
\* A step of the loop that leaves sites and records alone and does not start
\* a restore.
<1>c. ASSUME NEW l, NEW r, Moves("loop", l, r), ~Installing("loop"),
             l \notin InstallLabels \cup {"unpatch"},
             l \in {"release", "free"} => /\ pc["loop"] \in {"unpatch", "release", "free"}
                                          /\ r.hook = loc["loop"].hook,
             UNCHANGED <<hooks, active>>,
             \/ UNCHANGED site
             \/ pc["loop"] = "unpatch" /\ site' = [site EXCEPT ![Hook("loop")] = Orig]
      PROVE  OneInstaller' /\ Patched' /\ RecordedIsLive'
  <2>1. /\ pc'["loop"] = l /\ loc'["loop"] = r
        /\ pc'["worker"] = pc["worker"] /\ loc'["worker"] = loc["worker"]
    BY <1>b, <1>c, MovesApart
  <2>2. \A g : BeingRestored(g)' => BeingRestored(g)
    BY <1>c, <2>1 DEF BeingRestored, Hook
  <2>3. \A q \in Installers : Installing(q)' => q = "worker" /\ Installing("worker")
    BY <1>c, <2>1 DEF Installing
  <2>4. OneInstaller'
    BY <1>c, <2>1, <2>2, <2>3 DEF Records, OneInstaller, Installed, Hook
  <2>5. At("worker", "record") => site'[Hook("worker")] = Slot("worker")
    <3>1. CASE UNCHANGED site
      BY <3>1 DEF Records, Patched
    <3>2. CASE pc["loop"] = "unpatch" /\ site' = [site EXCEPT ![Hook("loop")] = Orig]
      <4>1. At("worker", "record") => ~BeingRestored(Hook("worker")) /\ Hook("worker") \in Hooks
        BY <1>b DEF At, Records, OneInstaller, Installed, Installing, InstallLabels, Typed, InHand
      <4> QED
        BY <3>2, <4>1, <1>b DEF BeingRestored, Records, Patched, Typed, TypeOK
    <3> QED
      BY <1>c, <3>1, <3>2
  <2>6. Patched'
    BY <1>c, <2>1, <2>3, <2>5 DEF Records, Patched, At, Hook, Slot, Installing, InstallLabels
  <2>7. RecordedIsLive'
    <3>1. CASE UNCHANGED site
      BY <3>1, <1>c DEF Records, RecordedIsLive
    <3>2. CASE pc["loop"] = "unpatch" /\ site' = [site EXCEPT ![Hook("loop")] = Orig]
      BY <3>2, <1>b, <1>c DEF Records, RecordedIsLive, Patched, Typed, TypeOK
    <3> QED
      BY <1>c, <3>1, <3>2
  <2> QED
    BY <2>4, <2>6, <2>7
<1>1. CASE BeginClose
  <2>1. Moves("loop", "close", [NoLocals EXCEPT !.todo = Hooks]) /\ pc["loop"] = "idle"
    BY <1>1 DEF BeginClose, Moves, Goto, Idle, At
  <2> QED
    BY <1>1, <1>c, <2>1 DEF BeginClose, Installing, InstallLabels
<1>2. CASE Pop
  <2>1. PICK h \in loc["loop"].todo :
          /\ loc' = [loc EXCEPT !["loop"].hook = h, !["loop"].slot = hooks[h],
                                !["loop"].todo = @ \ {h}]
          /\ hooks'  = [hooks EXCEPT ![h] = NoSlot]
          /\ active' = active \ {h}
          /\ Goto("loop", IF hooks[h] = NoSlot THEN "close" ELSE "unpatch")
    BY <1>2 DEF Pop
  <2>2. h \in Hooks
    BY <1>b DEF Typed, TypeOK, Locals
  <2>3. /\ pc["loop"] = "close" /\ site' = site
        /\ pc'["loop"] = (IF hooks[h] = NoSlot THEN "close" ELSE "unpatch")
        /\ loc'["loop"].hook = h
        /\ pc'["worker"] = pc["worker"] /\ loc'["worker"] = loc["worker"]
    BY <1>2, <1>b, <2>1 DEF Pop, At, Goto, Typed, TypeOK, Locals
  <2>4. hooks'[h] = NoSlot /\ \A g \in Hooks : g # h => hooks'[g] = hooks[g]
    BY <2>1, <2>2, <1>b DEF Typed, TypeOK
  <2>5. OneInstaller'
    <3>1. \A q \in Installers : Installing(q)' => q = "worker" /\ Installing("worker")
      BY <2>3 DEF Installing, InstallLabels
    <3>2. Installing("worker") => /\ Hook("worker") \in Hooks /\ hooks[Hook("worker")] = NoSlot
      BY <1>b DEF Records, OneInstaller, Installed, Typed, InHand
    <3>3. Installing("worker") => hooks'[Hook("worker")] = NoSlot
      BY <3>2, <2>4
    <3>4. Installing("worker") => ~BeingRestored(Hook("worker"))'
      BY <3>2, <2>3 DEF BeingRestored, Hook
    <3> QED
      BY <3>1, <3>3, <3>4, <2>3 DEF OneInstaller, Installed, Hook
  <2>6. Patched'
    BY <2>3, <2>4 DEF Records, Patched, At, Hook, Slot
  <2>7. RecordedIsLive'
    BY <2>1, <2>2, <2>3, <2>4 DEF Records, RecordedIsLive
  <2> QED
    BY <2>5, <2>6, <2>7
<1>3. CASE Unpatch
  <2>1. Moves("loop", "release", loc["loop"]) /\ pc["loop"] = "unpatch"
    BY <1>3, <1>b, LocalsAfter DEF Unpatch, Moves, Goto, At
  <2> QED
    BY <1>3, <1>c, <2>1 DEF Unpatch, Installing, InstallLabels
<1>4. CASE UnpatchFails
  <2>1. Moves("loop", "close", loc["loop"]) /\ pc["loop"] = "unpatch"
    BY <1>4, <1>b, LocalsAfter DEF UnpatchFails, Moves, Goto, At
  <2> QED
    BY <1>4, <1>c, <2>1 DEF UnpatchFails, Installing, InstallLabels
<1>5. CASE Release
  <2>1. /\ Moves("loop", "free", loc["loop"]) \/ Moves("loop", "close", loc["loop"])
        /\ pc["loop"] = "release"
    BY <1>5, <1>b, LocalsAfter DEF Release, Moves, Goto, At
  <2> QED
    BY <1>5, <1>c, <2>1 DEF Release, Installing, InstallLabels
<1>6. CASE Free
  <2>1. Moves("loop", "close", loc["loop"]) /\ pc["loop"] = "free"
    BY <1>6, <1>b, LocalsAfter DEF Free, Moves, Goto, At
  <2> QED
    BY <1>6, <1>c, <2>1 DEF Free, Installing, InstallLabels
<1>7. CASE JoinWorker
  <2>1. /\ Moves("loop", "close", [NoLocals EXCEPT !.todo = Hooks, !.last = TRUE])
        /\ pc["loop"] = "close"
    BY <1>7, <1>b DEF JoinWorker, Moves, At, Typed, TypeOK
  <2> QED
    BY <1>7, <1>c, <2>1 DEF JoinWorker, Installing, InstallLabels
<1>8. CASE Exited
  <2>1. Moves("loop", "exited", loc["loop"]) /\ pc["loop"] = "close"
    BY <1>8, <1>b, LocalsAfter DEF Exited, Moves, Goto, At
  <2> QED
    BY <1>8, <1>c, <2>1 DEF Exited, Installing, InstallLabels
<1> QED
  BY <1>1, <1>2, <1>3, <1>4, <1>5, <1>6, <1>7, <1>8 DEF Close

LEMMA RecordsElsewhere ==
  ASSUME Records,
         \/ StartClient \/ StopClient
         \/ \E g \in GameThreads : EnterTrampoline(g) \/ LeaveTrampoline(g)
         \/ UNCHANGED vars
  PROVE  Records'
<1> USE DEF recordVars, gameVars, arenaVars, boundVars, procVars
<1>1. Typed'
  BY TypedElsewhere DEF Records
<1>2. CASE StopClient
  <2>1. \A p \in Installers : pc'[p] = "idle"
    BY <1>2 DEF StopClient
  <2>2. pc'["loop"] = "idle" /\ pc'["worker"] = "idle"
    BY <2>1, Facts
  <2>3. OneInstaller' /\ Patched'
    BY <2>1, <2>2 DEF OneInstaller, Patched, Installing, InstallLabels, At
  <2>4. RecordedIsLive'
    BY <1>2 DEF StopClient, RecordedIsLive
  <2> QED
    BY <1>1, <2>3, <2>4 DEF Records
<1>3. CASE UNCHANGED <<pc, loc, hooks, active, site>>
  BY <1>1, <1>3 DEF Records, OneInstaller, Patched, RecordedIsLive, Installing, Installed,
                    BeingRestored, At, Hook, Slot
<1> QED
  BY <1>2, <1>3 DEF StartClient, EnterTrampoline, LeaveTrampoline, vars

\* Unless two threads install at once, every recorded hook is the detour the
\* game runs, across failures, crashes, restarts and shutdowns.
THEOREM RecordsAreLive == "install" \notin Races => (Spec => []RecordedIsLive)
<1> SUFFICES ASSUME "install" \notin Races PROVE Spec => []RecordedIsLive
  OBVIOUS
<1>1. Records /\ [Next]_vars => Records'
  BY RecordsInstall, RecordsClose, RecordsElsewhere DEF Next
<1>2. Records => RecordedIsLive
  BY DEF Records
<1> QED
  BY <1>1, <1>2, RecordsInit, PTL DEF Spec

-----------------------------------------------------------------------------
(* A normal exit leaves no detour behind, whatever the threads interleave. *)

\* As long as no memory access has failed, a site that holds a detour of this
\* client is recorded, or is in the hands of the thread that has patched it and
\* is about to record it, or of the loop, which has popped it and is about to
\* unpatch it.
Traced ==
  faults = 0 => \A h \in ours :
    \/ hooks[h] # NoSlot
    \/ \E p \in Installers : At(p, "record") /\ Hook(p) = h
    \/ At("loop", "unpatch") /\ Hook("loop") = h

\* In the last round of restores the worker has been joined, and what the round
\* has passed is no longer recorded; the exit comes after the whole round.
LastRound ==
  /\ Closed => Idle("worker")
  /\ loc["loop"].last => /\ Closing \/ At("loop", "exited")
                         /\ \A h \in Hooks \ loc["loop"].todo : hooks[h] = NoSlot
  /\ At("loop", "exited") => loc["loop"].last /\ loc["loop"].todo = {}

Leaving == Typed /\ Traced /\ LastRound

LEMMA LeavingInit == Init => Leaving
<1> SUFFICES ASSUME Init PROVE Leaving
  OBVIOUS
<1>1. pc["loop"] = "idle" /\ pc["worker"] = "idle" /\ loc["loop"].last = FALSE
  BY Facts DEF Init, NoLocals
<1>2. Traced
  BY DEF Init, Traced
<1>3. LastRound
  BY <1>1 DEF LastRound, Closed, At
<1> QED
  BY <1>2, <1>3, TypedInit DEF Leaving

\* A step of an installation that neither patches nor records.
LEMMA LeavingQuiet ==
  ASSUME Leaving, NEW p \in Installers, NEW l, NEW r, Moves(p, l, r), ~At(p, "record"),
         \/ Installing(p) \/ (Idle(p) /\ ~Closed),
         l \in InstallLabels \/ l = "idle",
         r.last = loc[p].last \/ r.last = FALSE,
         ours' \subseteq ours, hooks' = hooks, faults' = 0 => faults = 0
  PROVE  Traced' /\ LastRound'
<1>1. /\ pc'[p] = l /\ loc'[p] = r
      /\ \A q \in Installers : q # p => pc'[q] = pc[q] /\ loc'[q] = loc[q]
  BY MovesApart DEF Leaving
<1>2. pc[p] # "unpatch" /\ pc[p] # "record" /\ pc[p] # "exited" /\ pc[p] \notin CloseLabels
  BY DEF Installing, Idle, At, InstallLabels, CloseLabels
<1>3. l # "unpatch" /\ l # "exited" /\ l \notin CloseLabels
  BY DEF InstallLabels, CloseLabels
<1>4. Traced'
  <2>1. ASSUME NEW q \in Installers, NEW h, At(q, "record") /\ Hook(q) = h
        PROVE  At(q, "record")' /\ Hook(q)' = h
    BY <2>1, <1>1, <1>2 DEF At, Hook
  <2>2. ASSUME NEW h, At("loop", "unpatch") /\ Hook("loop") = h
        PROVE  At("loop", "unpatch")' /\ Hook("loop")' = h
    BY <2>2, <1>1, <1>2, Facts DEF At, Hook
  <2> QED
    BY <2>1, <2>2 DEF Leaving, Traced
<1>5. ~Closed
  BY <1>2, Facts DEF Leaving, LastRound, Closed, Idle, At, Installing, InstallLabels,
                     Closing
<1>6. ~loc["loop"].last /\ ~At("loop", "exited")
  BY <1>5 DEF Closed
<1>7. ~loc'["loop"].last /\ ~(pc'["loop"] = "exited")
  BY <1>1, <1>3, <1>6, Facts DEF At
<1>8. LastRound'
  BY <1>7 DEF LastRound, Closed, At
<1> QED
  BY <1>4, <1>8

LEMMA LeavingInstall ==
  ASSUME Leaving, NEW p \in Installers, Install(p)
  PROVE  Leaving'
<1>0. Typed'
  BY TypedInstall DEF Leaving
<1>a. SUFFICES Traced' /\ LastRound'
  BY <1>0 DEF Leaving
<1> USE Facts DEF recordVars, gameVars, arenaVars, boundVars
<1>b. Typed /\ NoLocals.last = FALSE
  BY DEF Leaving, NoLocals
<1>1. ASSUME NEW h \in Hooks, Resolve(p, h) PROVE Traced' /\ LastRound'
  <2>1. Moves(p, "verify", [loc[p] EXCEPT !.hook = h])
    BY <1>1, <1>b, LocalsAfter DEF Resolve, Moves, Goto
  <2>2. [loc[p] EXCEPT !.hook = h].last = loc[p].last
    BY <1>b, LocalsAfter DEF Locals
  <2>3. Idle(p) /\ ~Closed /\ ~At(p, "record")
    BY <1>1 DEF Resolve, Idle, At
  <2>4. ours' \subseteq ours /\ hooks' = hooks /\ faults' = faults
    BY <1>1 DEF Resolve
  <2> QED
    BY <2>1, <2>2, <2>3, <2>4, LeavingQuiet DEF InstallLabels
<1>2. CASE Verify(p)
  <2>1. Moves(p, "alloc", loc[p]) \/ Moves(p, "idle", NoLocals)
    BY <1>2, <1>b, LocalsAfter DEF Verify, Leave, Moves, Goto
  <2> QED
    BY <1>2, <1>b, <2>1, LeavingQuiet DEF Verify, At, Installing, InstallLabels
<1>3. CASE PickRoom(p)
  <2>1. PICK s : loc' = [loc EXCEPT ![p].slot = s]
    BY <1>3 DEF PickRoom
  <2>2. Moves(p, "bump", [loc[p] EXCEPT !.slot = s]) /\ [loc[p] EXCEPT !.slot = s].last = loc[p].last
    BY <1>3, <1>b, <2>1, LocalsAfter DEF PickRoom, Moves, Goto, Locals
  <2> QED
    BY <1>3, <2>2, LeavingQuiet DEF PickRoom, At, Installing, InstallLabels
<1>4. CASE Bump(p)
  <2>1. Moves(p, "code", loc[p])
    BY <1>4, <1>b, LocalsAfter DEF Bump, Moves, Goto
  <2> QED
    BY <1>4, <2>1, LeavingQuiet DEF Bump, At, Installing, InstallLabels
<1>5. CASE FreshBlock(p)
  <2>1. PICK s : loc' = [loc EXCEPT ![p].slot = s]
    BY <1>5 DEF FreshBlock
  <2>2. Moves(p, "code", [loc[p] EXCEPT !.slot = s]) /\ [loc[p] EXCEPT !.slot = s].last = loc[p].last
    BY <1>5, <1>b, <2>1, LocalsAfter DEF FreshBlock, Moves, Goto, Locals
  <2> QED
    BY <1>5, <2>2, LeavingQuiet DEF FreshBlock, At, Installing, InstallLabels
<1>6. CASE NoRoom(p)
  <2>1. Moves(p, "idle", NoLocals)
    BY <1>6 DEF NoRoom, Leave, Moves, Goto
  <2> QED
    BY <1>6, <1>b, <2>1, LeavingQuiet DEF NoRoom, At, Installing, InstallLabels
<1>7. CASE WriteCode(p)
  <2>1. Moves(p, "patch", loc[p]) \/ Moves(p, "idle", NoLocals)
    BY <1>7, <1>b, LocalsAfter DEF WriteCode, Leave, Moves, Goto
  <2> QED
    BY <1>7, <1>b, <2>1, LeavingQuiet DEF WriteCode, At, Installing, InstallLabels
<1>8. CASE Patch(p)
  <2>1. Moves(p, "record", loc[p])
    BY <1>8, <1>b, LocalsAfter DEF Patch, Moves, Goto
  <2>2. /\ pc'[p] = "record" /\ loc' = loc /\ pc[p] = "patch"
        /\ \A q \in Installers : q # p => pc'[q] = pc[q]
    BY <2>1, <1>8, <1>b, MovesApart DEF Patch, At
  <2>3. Traced'
    BY <1>8, <2>2 DEF Patch, Leaving, Traced, At, Hook
  <2>4. ~Closed
    BY <2>2 DEF Leaving, LastRound, Closed, Idle, At, Closing, CloseLabels
  <2>5. LastRound'
    BY <2>2, <2>4 DEF LastRound, Closed, At
  <2> QED
    BY <2>3, <2>5
<1>9. CASE InstallFails(p)
  <2>1. Moves(p, "idle", NoLocals)
    BY <1>9 DEF InstallFails, Leave, Moves, Goto
  <2>2. faults' # 0
    BY <1>9, <1>b DEF InstallFails, Fault, Typed, TypeOK
  <2> QED
    BY <1>9, <1>b, <2>1, <2>2, LeavingQuiet DEF InstallFails, At, Installing, InstallLabels
<1>10. CASE Record(p)
  <2>1. Moves(p, "idle", NoLocals)
    BY <1>10 DEF Record, Leave, Moves, Goto
  <2>2. /\ pc[p] = "record" /\ pc'[p] = "idle" /\ loc'[p] = NoLocals
        /\ \A q \in Installers : q # p => pc'[q] = pc[q] /\ loc'[q] = loc[q]
    BY <1>10, <2>1, <1>b, MovesApart DEF Record, At
  <2>3. Hook(p) \in Hooks /\ Slot(p) # NoSlot
    BY <2>2, <1>b DEF Typed, InHand, Installing, InstallLabels
  <2>4. /\ hooks'[Hook(p)] # NoSlot
        /\ \A h \in Hooks : hooks[h] # NoSlot => hooks'[h] # NoSlot
    BY <1>10, <1>b, <2>3 DEF Record, Typed, TypeOK
  <2>5. ours' = ours /\ ours \subseteq Hooks /\ faults' = faults
    BY <1>10, <1>b DEF Record, Typed, TypeOK
  <2>6. Traced'
    <3> SUFFICES ASSUME faults = 0, NEW h \in ours
                 PROVE  \/ hooks'[h] # NoSlot
                        \/ \E q \in Installers : At(q, "record")' /\ Hook(q)' = h
                        \/ At("loop", "unpatch")' /\ Hook("loop")' = h
      BY <2>5 DEF Traced
    <3>1. CASE hooks[h] # NoSlot
      BY <3>1, <2>4, <2>5
    <3>2. ASSUME NEW q \in Installers, At(q, "record"), Hook(q) = h
          PROVE  hooks'[h] # NoSlot \/ (At(q, "record")' /\ Hook(q)' = h)
      BY <3>2, <2>2, <2>4 DEF At, Hook
    <3>3. CASE At("loop", "unpatch") /\ Hook("loop") = h
      BY <3>3, <2>2 DEF At, Hook
    <3> QED
      BY <3>1, <3>2, <3>3 DEF Leaving, Traced
  <2>7. ~Closed
    BY <2>2 DEF Leaving, LastRound, Closed, Idle, At, Closing, CloseLabels
  <2>8. ~loc'["loop"].last /\ ~(pc'["loop"] = "exited")
    BY <2>2, <2>7, <1>b DEF Closed, At
  <2>9. LastRound'
    BY <2>8 DEF LastRound, Closed, At
  <2> QED
    BY <2>6, <2>9
<1>11. ASSUME NEW h \in Hooks, Unresolved(p, h) PROVE Traced' /\ LastRound'
  <2>1. UNCHANGED <<pc, loc, hooks, ours>> /\ (faults' = 0 => faults = 0)
    BY <1>11, <1>b DEF Unresolved, Fault, procVars, Typed, TypeOK
  <2> QED
    BY <2>1 DEF Leaving, Traced, LastRound, Closed, Closing, Idle, At, Hook
<1> QED
  BY <1>1, <1>2, <1>3, <1>4, <1>5, <1>6, <1>7, <1>8, <1>9, <1>10,
     <1>11 DEF Install

LEMMA LeavingClose ==
  ASSUME Leaving, Close
  PROVE  Leaving'
<1>0. Typed'
  BY TypedClose DEF Leaving
<1>a. SUFFICES Traced' /\ LastRound'
  BY <1>0 DEF Leaving
<1> USE Facts DEF recordVars, gameVars, arenaVars, boundVars
<1>b. Typed /\ "loop" \in Installers /\ "worker" \in Installers /\ ours \subseteq Hooks
  BY DEF Leaving, Installers, Typed, TypeOK
\* A step of the round that drops no record.
<1>c. ASSUME NEW l, Moves("loop", l, loc["loop"]), Closing, l \in CloseLabels \ {"unpatch"},
             UNCHANGED <<hooks, ours, faults>>, pc["loop"] # "unpatch"
      PROVE  Traced' /\ LastRound'
  <2>1. /\ pc'["loop"] = l /\ loc'["loop"] = loc["loop"]
        /\ pc'["worker"] = pc["worker"] /\ loc'["worker"] = loc["worker"]
    BY <1>b, <1>c, MovesApart
  <2>2. LastRound'
    BY <1>c, <2>1 DEF Leaving, LastRound, Closed, Closing, Idle, At, CloseLabels
  <2>3. ~At("loop", "record")
    BY <1>c DEF Closing, CloseLabels, At
  <2>4. Traced'
    BY <1>c, <2>1, <2>3 DEF Leaving, Traced, At, Hook
  <2> QED
    BY <2>2, <2>4
<1>1. CASE BeginClose
  <2>1. Moves("loop", "close", [NoLocals EXCEPT !.todo = Hooks]) /\ pc["loop"] = "idle"
    BY <1>1 DEF BeginClose, Moves, Goto, Idle, At
  <2>2. /\ pc'["loop"] = "close" /\ loc'["loop"].last = FALSE
        /\ pc'["worker"] = pc["worker"] /\ loc'["worker"] = loc["worker"]
    BY <1>b, <2>1, MovesApart DEF NoLocals
  <2>3. Traced'
    BY <1>1, <2>1, <2>2 DEF BeginClose, Leaving, Traced, At, Hook
  <2>4. LastRound'
    BY <2>2 DEF LastRound, Closed, At
  <2> QED
    BY <2>3, <2>4
<1>2. CASE Pop
  <2>1. PICK h \in loc["loop"].todo :
          /\ loc' = [loc EXCEPT !["loop"].hook = h, !["loop"].slot = hooks[h],
                                !["loop"].todo = @ \ {h}]
          /\ hooks'  = [hooks EXCEPT ![h] = NoSlot]
          /\ Goto("loop", IF hooks[h] = NoSlot THEN "close" ELSE "unpatch")
    BY <1>2 DEF Pop
  <2>2. h \in Hooks
    BY <1>b DEF Typed, TypeOK, Locals
  <2>3. /\ pc["loop"] = "close"
        /\ pc'["loop"] = (IF hooks[h] = NoSlot THEN "close" ELSE "unpatch")
        /\ loc'["loop"].hook = h /\ loc'["loop"].last = loc["loop"].last
        /\ loc'["loop"].todo = loc["loop"].todo \ {h}
        /\ pc'["worker"] = pc["worker"] /\ loc'["worker"] = loc["worker"]
    BY <1>2, <1>b, <2>1 DEF Pop, At, Goto, Typed, TypeOK, Locals
  <2>4. hooks'[h] = NoSlot /\ \A g \in Hooks : g # h => hooks'[g] = hooks[g]
    BY <2>1, <2>2, <1>b DEF Typed, TypeOK
  <2>5. Traced'
    <3> SUFFICES ASSUME faults = 0, NEW g \in ours
                 PROVE  \/ hooks'[g] # NoSlot
                        \/ \E q \in Installers : At(q, "record")' /\ Hook(q)' = g
                        \/ At("loop", "unpatch")' /\ Hook("loop")' = g
      BY <1>2 DEF Traced, Pop
    <3>1. CASE hooks[g] # NoSlot
      BY <3>1, <2>3, <2>4, <1>b DEF At, Hook
    <3>2. ASSUME NEW q \in Installers, At(q, "record"), Hook(q) = g
          PROVE  At(q, "record")' /\ Hook(q)' = g
      BY <3>2, <2>3 DEF At, Hook
    <3>3. ~At("loop", "unpatch")
      BY <2>3 DEF At
    <3> QED
      BY <3>1, <3>2, <3>3 DEF Leaving, Traced
  <2>6. LastRound'
    BY <2>2, <2>3, <2>4 DEF Leaving, LastRound, Closed, Closing, CloseLabels, Idle, At
  <2> QED
    BY <2>5, <2>6
<1>3. CASE Unpatch
  <2>1. Moves("loop", "release", loc["loop"]) /\ pc["loop"] = "unpatch"
    BY <1>3, <1>b, LocalsAfter DEF Unpatch, Moves, Goto, At
  <2>2. /\ pc'["loop"] = "release" /\ loc'["loop"] = loc["loop"]
        /\ pc'["worker"] = pc["worker"] /\ loc'["worker"] = loc["worker"]
    BY <1>b, <2>1, MovesApart
  <2>3. Traced'
    BY <1>3, <2>1, <2>2 DEF Unpatch, Leaving, Traced, At, Hook
  <2>4. LastRound'
    BY <1>3, <2>1, <2>2 DEF Unpatch, Leaving, LastRound, Closed, Closing, CloseLabels, Idle, At
  <2> QED
    BY <2>3, <2>4
<1>4. CASE UnpatchFails
  <2>1. Moves("loop", "close", loc["loop"]) /\ pc["loop"] = "unpatch"
    BY <1>4, <1>b, LocalsAfter DEF UnpatchFails, Moves, Goto, At
  <2>2. /\ pc'["loop"] = "close" /\ loc'["loop"] = loc["loop"]
        /\ pc'["worker"] = pc["worker"] /\ loc'["worker"] = loc["worker"]
    BY <1>b, <2>1, MovesApart
  <2>3. faults' # 0
    BY <1>4, <1>b DEF UnpatchFails, Fault, Typed, TypeOK
  <2>4. Traced'
    BY <2>3 DEF Traced
  <2>5. LastRound'
    BY <1>4, <2>1, <2>2 DEF UnpatchFails, Leaving, LastRound, Closed, Closing, CloseLabels, Idle, At
  <2> QED
    BY <2>4, <2>5
<1>5. CASE Release
  <2>1. /\ Moves("loop", "free", loc["loop"]) \/ Moves("loop", "close", loc["loop"])
        /\ pc["loop"] = "release"
    BY <1>5, <1>b, LocalsAfter DEF Release, Moves, Goto, At
  <2> QED
    BY <1>5, <1>c, <2>1 DEF Release, Closing, CloseLabels
<1>6. CASE Free
  <2>1. Moves("loop", "close", loc["loop"]) /\ pc["loop"] = "free"
    BY <1>6, <1>b, LocalsAfter DEF Free, Moves, Goto, At
  <2> QED
    BY <1>6, <1>c, <2>1 DEF Free, Closing, CloseLabels
<1>7. CASE JoinWorker
  <2>1. /\ Moves("loop", "close", [NoLocals EXCEPT !.todo = Hooks, !.last = TRUE])
        /\ pc["loop"] = "close" /\ Idle("worker")
    BY <1>7, <1>b DEF JoinWorker, Moves, At, Typed, TypeOK
  <2> DEFINE r == [NoLocals EXCEPT !.todo = Hooks, !.last = TRUE]
  <2>a. r.todo = Hooks
    BY DEF NoLocals
  <2> HIDE DEF r
  <2>b. /\ pc'["loop"] = "close" /\ loc'["loop"] = r
        /\ pc'["worker"] = pc["worker"] /\ loc'["worker"] = loc["worker"]
    BY <1>b, <2>1, MovesApart DEF r
  <2>2. /\ pc'["loop"] = "close" /\ loc'["loop"].todo = Hooks
        /\ pc'["worker"] = pc["worker"] /\ loc'["worker"] = loc["worker"]
    BY <2>a, <2>b
  <2>3. Traced'
    BY <1>7, <2>1, <2>2 DEF JoinWorker, Leaving, Traced, At, Hook
  <2>4. LastRound'
    BY <2>1, <2>2 DEF LastRound, Closed, Closing, CloseLabels, Idle, At
  <2> QED
    BY <2>3, <2>4
<1>8. CASE Exited
  <2>1. /\ Moves("loop", "exited", loc["loop"]) /\ pc["loop"] = "close"
        /\ loc["loop"].todo = {} /\ loc["loop"].last
    BY <1>8, <1>b, LocalsAfter DEF Exited, Moves, Goto, At
  <2>2. /\ pc'["loop"] = "exited" /\ loc'["loop"] = loc["loop"]
        /\ pc'["worker"] = pc["worker"] /\ loc'["worker"] = loc["worker"]
    BY <1>b, <2>1, MovesApart
  <2>3. Traced'
    BY <1>8, <2>1, <2>2 DEF Exited, Leaving, Traced, At, Hook
  <2>4. LastRound'
    BY <1>8, <2>1, <2>2 DEF Exited, Leaving, LastRound, Closed, Closing, Idle, At
  <2> QED
    BY <2>3, <2>4
<1> QED
  BY <1>1, <1>2, <1>3, <1>4, <1>5, <1>6, <1>7, <1>8 DEF Close

LEMMA LeavingElsewhere ==
  ASSUME Leaving,
         \/ StartClient \/ StopClient
         \/ \E g \in GameThreads : EnterTrampoline(g) \/ LeaveTrampoline(g)
         \/ UNCHANGED vars
  PROVE  Leaving'
<1> USE DEF recordVars, gameVars, arenaVars, boundVars, procVars
<1>1. Typed'
  BY TypedElsewhere DEF Leaving
<1>2. CASE StopClient
  <2>1. pc'["loop"] = "idle" /\ loc'["loop"].last = FALSE /\ ours' = {}
    BY <1>2, Facts DEF StopClient, NoLocals
  <2>2. Traced' /\ LastRound'
    BY <2>1 DEF Traced, LastRound, Closed, At
  <2> QED
    BY <1>1, <2>2 DEF Leaving
<1>3. CASE UNCHANGED <<pc, loc, hooks, ours, faults>>
  BY <1>1, <1>3 DEF Leaving, Traced, LastRound, Closed, Closing, Idle, At, Hook
<1> QED
  BY <1>2, <1>3 DEF StartClient, EnterTrampoline, LeaveTrampoline, vars

\* A client whose memory accesses have all succeeded leaves no detour of its
\* own behind when it exits normally: the second round of restores, run after
\* the worker has been joined, takes away what the worker installed during the
\* first.  No interleaving is excluded, two threads installing at once included.
THEOREM ExitRestores == Spec => []NormalExitRestores
<1>1. Leaving /\ [Next]_vars => Leaving'
  BY LeavingInstall, LeavingClose, LeavingElsewhere DEF Next
<1>2. Leaving => NormalExitRestores
  BY Facts DEF Leaving, Traced, LastRound, NormalExitRestores, Closed, Idle, At, Typed, TypeOK
<1> QED
  BY <1>1, <1>2, LeavingInit, PTL DEF Spec

-----------------------------------------------------------------------------
(* The shared arena: when no thread installs while another installs or     *)
(* restores, no site points into a freed block and no two sites share a    *)
(* trampoline.  What makes it true is that _arena_live never falls below   *)
(* the number of sites that point into a listed block, plus the slot in    *)
(* the hands of a thread; failures and crashes only make it larger.        *)

\* No restore is under way while the worker installs.
Serial == Installing("worker") => At("loop", "idle")

\* The sites the reference count stands for.
Pointing(h) == site[h] # Orig /\ Listed(Block(site[h]))
Counted     == {h \in Hooks : Pointing(h)}

\* A listed block exists; its slots in use were handed out; the arena knows
\* the block of every recorded hook and of the hook about to be unpatched.
Arena ==
  /\ \A b \in Blocks : Listed(b) => b \in mapped
  /\ \A h \in Hooks : Pointing(h) => site[h][2] <= used[Block(site[h])]
  /\ \A h \in Hooks : hooks[h] # NoSlot => Listed(Block(hooks[h]))
  /\ At("loop", "unpatch") => Hook("loop") \in Counted

\* The slot in the hands of an installing thread is nobody else's.
Fresh(p) ==
  /\ pc[p] \in {"bump", "code", "patch", "record"} => Listed(Block(Slot(p)))
  /\ At(p, "bump") => Slot(p)[2] = used[Block(Slot(p))] + 1
  /\ pc[p] \in {"code", "patch", "record"} => Slot(p)[2] <= used[Block(Slot(p))]
  /\ pc[p] \in {"code", "patch"} => \A h \in Hooks : site[h] # Slot(p)

\* A counted slot that no site points to: handed out and not yet patched in,
\* or unpatched and not yet given back.
Unplaced == At("loop", "release") \/ \E p \in Installers : pc[p] \in {"code", "patch"}

RefCount ==
  /\ live >= Cardinality(Counted) + (IF Unplaced THEN 1 ELSE 0)
  /\ At("loop", "free") => live = 0

Safe  == DetourMapped /\ SlotsUnshared
Parts == Serial /\ Arena /\ (\A p \in Installers : Fresh(p)) /\ RefCount /\ Safe
IInv  == Records /\ Parts

-----------------------------------------------------------------------------
(* Sets and counts.                                                        *)

\* The counted sites are finitely many.
LEMMA CountedFinite ==
  /\ IsFiniteSet(Counted) /\ Cardinality(Counted) \in Nat
  /\ \A S \in SUBSET Counted : Cardinality(S) \in Nat /\ Cardinality(S) <= Cardinality(Counted)
<1>1. Counted \in SUBSET Hooks
  BY DEF Counted
<1>2. IsFiniteSet(Counted)
  BY <1>1, Facts, FS_Subset
<1>3. \A S \in SUBSET Counted : IsFiniteSet(S) /\ Cardinality(S) <= Cardinality(Counted)
  BY <1>2, FS_Subset
<1> QED
  BY <1>2, <1>3, FS_CardinalityType

\* A site that starts to point into a listed block adds at most one.
LEMMA CountedPlus ==
  ASSUME NEW h, NEW S \in SUBSET (Counted \cup {h})
  PROVE  Cardinality(S) \in Nat /\ Cardinality(S) <= Cardinality(Counted) + 1
<1>1. /\ IsFiniteSet(Counted \cup {h})
      /\ Cardinality(Counted \cup {h}) = IF h \in Counted THEN Cardinality(Counted)
                                         ELSE Cardinality(Counted) + 1
  BY CountedFinite, FS_AddElement
<1>2. IsFiniteSet(S) /\ Cardinality(S) <= Cardinality(Counted \cup {h})
  BY <1>1, FS_Subset
<1>3. Cardinality(S) \in Nat
  BY <1>2, FS_CardinalityType
<1> QED
  BY <1>1, <1>2, <1>3, CountedFinite

\* A counted site that no longer points removes one.
LEMMA CountedMinus ==
  ASSUME NEW h \in Counted, NEW S \in SUBSET (Counted \ {h})
  PROVE  Cardinality(S) \in Nat /\ Cardinality(S) + 1 <= Cardinality(Counted)
<1>1. IsFiniteSet(Counted \ {h}) /\ Cardinality(Counted \ {h}) = Cardinality(Counted) - 1
  BY CountedFinite, FS_RemoveElement
<1>2. IsFiniteSet(S) /\ Cardinality(S) <= Cardinality(Counted \ {h})
  BY <1>1, FS_Subset
<1>3. Cardinality(S) \in Nat
  BY <1>2, FS_CardinalityType
<1> QED
  BY <1>1, <1>2, <1>3, CountedFinite

\* When nothing is outstanding no site is counted.
LEMMA NothingCounted ==
  ASSUME RefCount, live = 0
  PROVE  Counted = {}
<1>1. Cardinality(Counted) = 0
  BY CountedFinite DEF RefCount
<1> QED
  BY <1>1, CountedFinite, FS_EmptySet

-----------------------------------------------------------------------------
LEMMA PartsInit == Init => Parts
<1> SUFFICES ASSUME Init PROVE Parts
  OBVIOUS
<1>1. \A p \in Installers : pc[p] = "idle"
  BY DEF Init
<1>2. pc["loop"] = "idle" /\ pc["worker"] = "idle"
  BY <1>1, Facts
<1>3. Serial /\ \A p \in Installers : Fresh(p)
  BY <1>1, <1>2 DEF Serial, Fresh, At
<1>4. \A h \in Hooks : site[h] = Orig /\ hooks[h] = NoSlot
  BY DEF Init
<1>5. Counted = {}
  BY <1>4 DEF Counted, Pointing
<1>6. Arena
  BY <1>2, <1>4 DEF Arena, Pointing, Init, Listed, At
<1>7. RefCount
  <2>1. Cardinality(Counted) = 0 /\ live = 0
    BY <1>5, FS_EmptySet DEF Init
  <2>2. ~Unplaced
    BY <1>1, <1>2 DEF Unplaced, At
  <2> QED
    BY <2>1, <2>2 DEF RefCount
<1>8. Safe
  BY <1>4 DEF Safe, DetourMapped, SlotsUnshared
<1> QED
  BY <1>3, <1>6, <1>7, <1>8 DEF Parts

-----------------------------------------------------------------------------
(* Installing.                                                             *)

\* Only p may be installing, and nothing is being restored.
Quiet(p) ==
  /\ pc[p] \in InstallLabels \cup {"idle"}
  /\ \A q \in Installers : q # p => pc[q] = "idle"

LEMMA QuietOf ==
  ASSUME IInv, NEW p \in Installers, Installing(p)
  PROVE  Quiet(p)
<1>1. pc["worker"] \in InstallLabels \cup {"idle"}
  BY DEF IInv, Records, Typed, InHand
<1> QED
  BY <1>1, Facts DEF IInv, Records, OneInstaller, Parts, Serial, Installing, Quiet, At

\* What a step of p in its turn leaves to show.
LEMMA Turn ==
  ASSUME IInv, NEW p \in Installers, Quiet(p),
         NEW l \in InstallLabels \cup {"idle"}, NEW r, Moves(p, l, r)
  PROVE  /\ Serial'
         /\ pc'[p] = l /\ loc'[p] = r
         /\ Fresh(p)' => \A q \in Installers : Fresh(q)'
         /\ pc'["loop"] \notin {"unpatch", "release", "free"}
         /\ Unplaced <=> pc[p] \in {"code", "patch"}
         /\ Unplaced' <=> l \in {"code", "patch"}
<1>1. /\ pc'[p] = l /\ loc'[p] = r
      /\ \A q \in Installers : q # p => pc'[q] = pc[q] /\ pc'[q] = "idle"
  BY MovesApart DEF IInv, Records, Quiet
<1>2. \A q \in Installers : q # p => Fresh(q)'
  BY <1>1 DEF Fresh, At
<1>3. pc["loop"] \in InstallLabels \cup {"idle"} /\ pc'["loop"] \in InstallLabels \cup {"idle"}
  BY <1>1, Facts DEF Quiet
<1>4. Serial'
  BY <1>1, Facts DEF Serial, Installing, InstallLabels, At
<1>5. Unplaced <=> pc[p] \in {"code", "patch"}
  BY <1>3 DEF Unplaced, Quiet, At, InstallLabels
<1>6. Unplaced' <=> l \in {"code", "patch"}
  BY <1>1, <1>3 DEF Unplaced, At, InstallLabels
<1> QED
  BY <1>1, <1>2, <1>3, <1>4, <1>5, <1>6 DEF InstallLabels

\* A step of an installation that leaves the game and the arena alone.
LEMMA PartsQuiet ==
  ASSUME IInv, NEW p \in Installers, Quiet(p),
         NEW l \in InstallLabels \cup {"idle"}, NEW r, Moves(p, l, r),
         l \in {"code", "patch"} => pc[p] \in {"code", "patch"},
         UNCHANGED <<site, mapped, used, live, hooks>>,
         Fresh(p)'
  PROVE  Parts'
<1> USE DEF IInv, Parts
<1>1. /\ Serial' /\ \A q \in Installers : Fresh(q)'
      /\ pc'["loop"] \notin {"unpatch", "release", "free"}
      /\ Unplaced' => Unplaced
  BY Turn
<1>2. Arena'
  BY <1>1 DEF Arena, Pointing, Listed, At
<1>3. Counted' = Counted
  BY DEF Counted, Pointing, Listed
<1>4. RefCount'
  BY <1>1, <1>3, CountedFinite DEF RefCount, At, Records, Typed, TypeOK
<1>5. Safe'
  BY DEF Safe, DetourMapped, SlotsUnshared
<1> QED
  BY <1>1, <1>2, <1>4, <1>5

LEMMA PartsInstall ==
  ASSUME Races = {}, IInv, NEW p \in Installers, Install(p)
  PROVE  Parts'
<1> USE Facts DEF IInv, gameVars, arenaVars, recordVars, boundVars
<1>a. Typed /\ Records
  BY DEF Records
<1>b. /\ site \in [Hooks -> Slots \cup {Orig}] /\ used \in [Blocks -> Nat] /\ live \in Nat
      /\ hooks \in [Hooks -> Slots \cup {NoSlot}] /\ mapped \in SUBSET Blocks
      /\ loc[p] \in Locals
  BY <1>a DEF Typed, TypeOK
<1>c. Installing(p) => Quiet(p) /\ Hook(p) \in Hooks
  BY <1>a, QuietOf DEF Typed, InHand
\* The slot in hand.
<1>d. pc[p] \in {"bump", "code", "patch", "record"} =>
        /\ Installing(p) /\ Slot(p) \in Slots /\ Block(Slot(p)) \in Blocks /\ Slot(p)[2] \in Nat
        /\ Listed(Block(Slot(p))) /\ Block(Slot(p)) \in mapped
  BY <1>a, SlotParts DEF Typed, InHand, Parts, Fresh, Arena, Installing, InstallLabels
<1>e. \A h \in Hooks : site[h] # Orig =>
        /\ site[h] \in Slots /\ Block(site[h]) \in Blocks /\ site[h][2] \in Nat
        /\ Block(site[h]) \in mapped
  BY <1>b, SlotParts DEF Parts, Safe, DetourMapped
<1>1. ASSUME NEW h \in Hooks, Resolve(p, h) PROVE Parts'
  <2>1. /\ Moves(p, "verify", [loc[p] EXCEPT !.hook = h])
        /\ site' = [site EXCEPT ![h] = Orig]
        /\ UNCHANGED <<mapped, used, live, hooks>>
    BY <1>1, <1>a, LocalsAfter DEF Resolve, Moves, Goto
  <2>2. Quiet(p)
    <3>1. pc["worker"] \in InstallLabels \cup {"idle"}
      BY <1>a DEF Typed, InHand
    <3>2. pc["loop"] \in Labels
      BY <1>a DEF Typed, TypeOK
    <3> QED
      BY <1>1, <3>1, <3>2 DEF Resolve, Idle, At, MayInstall, Installing, Closing, Closed, Quiet,
                              Labels
  <2>3. pc[p] = "idle"
    BY <1>1 DEF Resolve, Idle, At
  <2>4. "verify" \in InstallLabels
    BY DEF InstallLabels
  <2>5. /\ Serial' /\ pc'[p] = "verify"
        /\ Fresh(p)' => \A q \in Installers : Fresh(q)'
        /\ pc'["loop"] \notin {"unpatch", "release", "free"}
        /\ ~Unplaced /\ ~Unplaced'
    BY <2>1, <2>2, <2>3, <2>4, Turn
  <2>6. Fresh(p)'
    BY <2>5 DEF Fresh, At
  <2>7. \A g \in Hooks : site'[g] = site[g] \/ site'[g] = Orig
    BY <2>1, <1>b
  <2>8. Arena'
    BY <2>1, <2>5, <2>7 DEF Parts, Arena, Pointing, Listed, At
  <2>9. Counted' \in SUBSET Counted
    BY <2>1, <2>7 DEF Counted, Pointing, Listed
  <2>10. RefCount'
    BY <2>1, <2>5, <2>9, <1>b, CountedFinite DEF Parts, RefCount, At
  <2>11. Safe'
    BY <2>1, <2>7 DEF Parts, Safe, DetourMapped, SlotsUnshared
  <2> QED
    BY <2>5, <2>6, <2>8, <2>10, <2>11 DEF Parts
<1>2. CASE Verify(p)
  <2>1. Moves(p, "alloc", loc[p]) \/ Moves(p, "idle", NoLocals)
    BY <1>2, <1>a, LocalsAfter DEF Verify, Leave, Moves, Goto
  <2>2. pc'[p] \in {"alloc", "idle"}
    BY <1>a, <2>1, MovesApart
  <2>3. Fresh(p)'
    BY <2>2 DEF Fresh, At
  <2> QED
    BY <1>2, <1>c, <2>1, <2>3, PartsQuiet DEF Verify, At, Installing, InstallLabels
<1>3. CASE PickRoom(p)
  <2>1. PICK b \in Blocks : HasRoom(b) /\ loc' = [loc EXCEPT ![p].slot = <<b, used[b] + 1>>]
    BY <1>3 DEF PickRoom
  <2> DEFINE s == <<b, used[b] + 1>>
             r == [loc[p] EXCEPT !.slot = s]
  <2>2. Moves(p, "bump", r)
    BY <1>3, <1>a, <2>1, LocalsAfter DEF PickRoom, Moves, Goto
  <2>3. r.slot = s
    BY <1>b DEF Locals
  <2>4. pc'[p] = "bump" /\ Slot(p)' = s /\ used' = used
    <3>1. pc'[p] = "bump" /\ loc'[p] = r
      BY <1>a, <2>2, MovesApart
    <3> QED
      BY <1>3, <2>3, <3>1 DEF Slot, PickRoom
  <2>5. Fresh(p)'
    BY <2>1, <2>4 DEF Fresh, At, Block, HasRoom, Listed
  <2> QED
    BY <1>3, <1>c, <2>2, <2>5, PartsQuiet DEF PickRoom, At, Installing, InstallLabels
<1>4. CASE Bump(p)
  <2> DEFINE b == Block(Slot(p))
  <2>1. /\ pc[p] = "bump" /\ Moves(p, "code", loc[p]) /\ loc' = loc
        /\ used' = [used EXCEPT ![b] = @ + 1] /\ live' = live + 1
        /\ UNCHANGED <<site, mapped, hooks>>
    BY <1>4, <1>a, <1>d, LocalsAfter DEF Bump, Moves, Goto, At
  <2>2. "code" \in InstallLabels /\ Quiet(p) /\ b \in Blocks /\ Listed(b)
    BY <2>1, <1>c, <1>d DEF InstallLabels
  <2>3. /\ Serial' /\ pc'[p] = "code"
        /\ Fresh(p)' => \A q \in Installers : Fresh(q)'
        /\ pc'["loop"] \notin {"unpatch", "release", "free"}
        /\ ~Unplaced /\ Unplaced'
    BY <2>1, <2>2, Turn
  <2>4. Slot(p)' = Slot(p) /\ Slot(p)[2] = used[b] + 1
    BY <2>1 DEF Slot, Parts, Fresh, At
  <2>5. \A c \in Blocks : (Listed(c)' <=> Listed(c)) /\ used'[c] >= used[c]
    BY <2>1, <2>2, <1>b DEF Listed
  <2>6. used'[b] = used[b] + 1
    BY <2>1, <2>2, <1>b
  <2>7. ASSUME NEW h \in Hooks, site[h] = Slot(p) PROVE FALSE
    <3>1. Pointing(h)
      BY <2>1, <2>2, <2>7, <1>d, Facts DEF Pointing
    <3>2. site[h][2] <= used[b]
      BY <3>1, <2>7 DEF Parts, Arena
    <3> QED
      BY <2>2, <2>4, <2>7, <3>2, <1>b
  <2>8. Fresh(p)'
    BY <2>1, <2>2, <2>3, <2>4, <2>5, <2>6, <2>7, <1>b, <1>d DEF Fresh, At
  <2>9. \A h \in Hooks : Pointing(h)' <=> Pointing(h)
    BY <2>1, <2>5, <1>e DEF Pointing
  <2>10. Arena'
    <3>1. \A c \in Blocks : Listed(c)' => c \in mapped'
      BY <2>1, <2>5 DEF Parts, Arena
    <3>2. ASSUME NEW h \in Hooks, Pointing(h)' PROVE site'[h][2] <= used'[Block(site'[h])]
      <4>1. /\ Block(site[h]) \in Blocks /\ site[h][2] \in Nat
            /\ site[h][2] <= used[Block(site[h])]
        BY <2>9, <3>2, <1>e DEF Parts, Arena, Pointing
      <4>2. used[Block(site[h])] \in Nat /\ used'[Block(site[h])] \in Nat
        BY <4>1, <2>1, <2>2, <1>b
      <4> QED
        BY <4>1, <4>2, <2>1, <2>5
    <3>3. \A h \in Hooks : hooks'[h] # NoSlot => used'[Block(hooks'[h])] > 0
      BY <2>1, <2>5, <1>b, SlotParts DEF Parts, Arena, Listed
    <3> QED
      BY <2>3, <3>1, <3>2, <3>3 DEF Arena, At, Listed
  <2>11. Counted' = Counted
    BY <2>9 DEF Counted
  <2>12. RefCount'
    BY <2>1, <2>3, <2>11, <1>b, CountedFinite DEF Parts, RefCount, At
  <2>13. Safe'
    BY <2>1 DEF Parts, Safe, DetourMapped, SlotsUnshared
  <2> QED
    BY <2>3, <2>8, <2>10, <2>12, <2>13 DEF Parts
<1>5. CASE FreshBlock(p)
  <2>1. PICK b \in Blocks \ mapped : /\ mapped' = mapped \cup {b}
                                     /\ used' = [used EXCEPT ![b] = 1]
                                     /\ loc' = [loc EXCEPT ![p].slot = <<b, 1>>]
    BY <1>5 DEF FreshBlock
  <2> DEFINE s == <<b, 1>>
             r == [loc[p] EXCEPT !.slot = s]
  <2>2. /\ pc[p] = "alloc" /\ Moves(p, "code", r) /\ live' = live + 1
        /\ UNCHANGED <<site, hooks>>
    BY <1>5, <1>a, <2>1, LocalsAfter DEF FreshBlock, Moves, Goto, At
  <2>3. "code" \in InstallLabels /\ Quiet(p)
    BY <2>2, <1>c DEF InstallLabels, Installing
  <2>4. /\ Serial' /\ pc'[p] = "code" /\ loc'[p] = r
        /\ Fresh(p)' => \A q \in Installers : Fresh(q)'
        /\ pc'["loop"] \notin {"unpatch", "release", "free"}
        /\ ~Unplaced /\ Unplaced'
    BY <2>2, <2>3, Turn
  <2>5. Slot(p)' = s
    BY <2>4, <1>b DEF Slot, Locals
  <2>6. \A h \in Hooks : site[h] # Orig => Block(site[h]) # b
    BY <1>e
  <2>7. used'[b] = 1 /\ \A c \in Blocks : c # b => used'[c] = used[c]
    BY <2>1, <1>b
  <2>8. Fresh(p)'
    <3>1. Block(s) = b /\ s[2] = 1 /\ s # Orig
      BY DEF Block, Slots
    <3> QED
      BY <2>2, <2>4, <2>5, <2>6, <2>7, <3>1 DEF Fresh, At, Listed
  <2>9. \A h \in Hooks : Pointing(h)' <=> Pointing(h)
    BY <2>2, <2>6, <2>7, <1>e DEF Pointing, Listed
  <2>10. Arena'
    <3>1. \A c \in Blocks : Listed(c)' => c \in mapped'
      BY <2>1, <2>7 DEF Parts, Arena, Listed
    <3>2. \A h \in Hooks : Pointing(h)' => site'[h][2] <= used'[Block(site'[h])]
      BY <2>2, <2>6, <2>7, <2>9, <1>e DEF Parts, Arena, Pointing
    <3>3. \A h \in Hooks : hooks'[h] # NoSlot => used'[Block(hooks'[h])] > 0
      BY <2>2, <2>7, <1>b, SlotParts DEF Parts, Arena, Listed
    <3> QED
      BY <2>4, <3>1, <3>2, <3>3 DEF Arena, At, Listed
  <2>11. Counted' = Counted
    BY <2>9 DEF Counted
  <2>12. RefCount'
    BY <2>2, <2>4, <2>11, <1>b, CountedFinite DEF Parts, RefCount, At
  <2>13. Safe'
    BY <2>1, <2>2 DEF Parts, Safe, DetourMapped, SlotsUnshared
  <2> QED
    BY <2>4, <2>8, <2>10, <2>12, <2>13 DEF Parts
<1>6. CASE NoRoom(p)
  <2>1. Moves(p, "idle", NoLocals)
    BY <1>6 DEF NoRoom, Leave, Moves, Goto
  <2>2. Fresh(p)'
    BY <1>a, <2>1, MovesApart DEF Fresh, At
  <2> QED
    BY <1>6, <1>c, <2>1, <2>2, PartsQuiet DEF NoRoom, At, Installing, InstallLabels
<1>7. CASE WriteCode(p)
  <2>1. /\ pc[p] = "code" /\ UNCHANGED <<site, mapped, used, live, hooks>>
        /\ \/ Moves(p, "patch", loc[p]) /\ loc' = loc
           \/ Moves(p, "idle", NoLocals)
    BY <1>7, <1>a, LocalsAfter DEF WriteCode, Leave, Moves, Goto, At
  <2>2. CASE Moves(p, "patch", loc[p]) /\ loc' = loc
    <3>1. pc'[p] = "patch" /\ Slot(p)' = Slot(p)
      BY <1>a, <2>2, MovesApart DEF Slot
    <3>2. Fresh(p)'
      BY <2>1, <3>1 DEF Parts, Fresh, At, Listed
    <3> QED
      BY <1>c, <2>1, <2>2, <3>2, PartsQuiet DEF Installing, InstallLabels
  <2>3. CASE Moves(p, "idle", NoLocals)
    <3>1. Fresh(p)'
      BY <1>a, <2>3, MovesApart DEF Fresh, At
    <3> QED
      BY <1>c, <2>1, <2>3, <3>1, PartsQuiet DEF Installing, InstallLabels
  <2> QED
    BY <2>1, <2>2, <2>3
<1>8. CASE Patch(p)
  <2> DEFINE h == Hook(p)
             s == Slot(p)
  <2>1. /\ pc[p] = "patch" /\ Moves(p, "record", loc[p]) /\ loc' = loc
        /\ site' = [site EXCEPT ![h] = s]
        /\ UNCHANGED <<mapped, used, live, hooks>>
    BY <1>8, <1>a, LocalsAfter DEF Patch, Moves, Goto, At
  <2>2. "record" \in InstallLabels /\ Quiet(p) /\ h \in Hooks
    BY <2>1, <1>c, <1>d DEF InstallLabels
  <2>3. /\ Serial' /\ pc'[p] = "record"
        /\ Fresh(p)' => \A q \in Installers : Fresh(q)'
        /\ pc'["loop"] \notin {"unpatch", "release", "free"}
        /\ Unplaced /\ ~Unplaced'
    BY <2>1, <2>2, Turn
  <2>4. /\ s \in Slots /\ s # Orig /\ Listed(Block(s)) /\ s[2] <= used[Block(s)]
        /\ Block(s) \in mapped /\ \A g \in Hooks : site[g] # s
    BY <2>1, <1>d DEF Parts, Fresh
  <2>5. site'[h] = s /\ \A g \in Hooks : g # h => site'[g] = site[g]
    BY <2>1, <2>2, <1>b
  <2>6. Fresh(p)'
    BY <2>1, <2>3, <2>4 DEF Fresh, At, Slot, Listed
  <2>7. Arena'
    BY <2>1, <2>3, <2>4, <2>5 DEF Parts, Arena, Pointing, Listed, At
  <2>8. Counted' \in SUBSET (Counted \cup {h})
    BY <2>1, <2>5 DEF Counted, Pointing, Listed
  <2>9. RefCount'
    <3>1. Cardinality(Counted') \in Nat /\ Cardinality(Counted') <= Cardinality(Counted) + 1
      BY <2>8, CountedPlus
    <3> QED
      BY <2>1, <2>3, <3>1, <1>b, CountedFinite DEF Parts, RefCount, At
  <2>10. Safe'
    BY <2>1, <2>4, <2>5 DEF Parts, Safe, DetourMapped, SlotsUnshared
  <2> QED
    BY <2>3, <2>6, <2>7, <2>9, <2>10 DEF Parts
<1>9. CASE InstallFails(p)
  <2>1. Moves(p, "idle", NoLocals)
    BY <1>9 DEF InstallFails, Leave, Moves, Goto
  <2>2. Fresh(p)'
    BY <1>a, <2>1, MovesApart DEF Fresh, At
  <2> QED
    BY <1>9, <1>c, <2>1, <2>2, PartsQuiet DEF InstallFails, At, Installing, InstallLabels
<1>10. CASE Record(p)
  <2>1. /\ pc[p] = "record" /\ Moves(p, "idle", NoLocals)
        /\ hooks' = [hooks EXCEPT ![Hook(p)] = Slot(p)]
        /\ UNCHANGED <<site, mapped, used, live>>
    BY <1>10 DEF Record, Leave, Moves, Goto, At
  <2>2. /\ Serial' /\ pc'[p] = "idle"
        /\ Fresh(p)' => \A q \in Installers : Fresh(q)'
        /\ pc'["loop"] \notin {"unpatch", "release", "free"}
        /\ ~Unplaced /\ ~Unplaced'
    BY <2>1, <1>c, <1>d, Turn DEF InstallLabels
  <2>3. Fresh(p)'
    BY <2>2 DEF Fresh, At
  <2>4. \A g \in Hooks : hooks'[g] = hooks[g] \/ (hooks'[g] = Slot(p) /\ Listed(Block(Slot(p))))
    BY <2>1, <1>b, <1>d
  <2>5. Arena'
    BY <2>1, <2>2, <2>4 DEF Parts, Arena, Pointing, Listed, At
  <2>6. Counted' = Counted
    BY <2>1 DEF Counted, Pointing, Listed
  <2>7. RefCount'
    BY <2>1, <2>2, <2>6 DEF Parts, RefCount, At
  <2>8. Safe'
    BY <2>1 DEF Parts, Safe, DetourMapped, SlotsUnshared
  <2> QED
    BY <2>2, <2>3, <2>5, <2>7, <2>8 DEF Parts
<1>11. ASSUME NEW h \in Hooks, Unresolved(p, h) PROVE Parts'
  <2>1. UNCHANGED <<pc, loc, hooks, site, mapped, used, live>>
    BY <1>11 DEF Unresolved, procVars
  <2>2. Counted' = Counted
    BY <2>1 DEF Counted, Pointing, Listed
  <2>3. Serial' /\ Arena' /\ (\A q \in Installers : Fresh(q)') /\ Safe'
    BY <2>1 DEF Parts, Serial, Arena, Fresh, Pointing, Counted, Listed, Installing, At, Hook,
                Slot, Safe, DetourMapped, SlotsUnshared
  <2>4. RefCount'
    BY <2>1, <2>2 DEF Parts, RefCount, Unplaced, At
  <2> QED
    BY <2>3, <2>4 DEF Parts
<1> QED
  BY <1>1, <1>2, <1>3, <1>4, <1>5, <1>6, <1>7, <1>8, <1>9, <1>10,
     <1>11 DEF Install

-----------------------------------------------------------------------------
(* Restoring.                                                              *)

\* The worker stands idle through every step of the loop's shutdown.
LEMMA CloseTurn ==
  ASSUME Races = {}, IInv, Close
  PROVE  /\ pc["worker"] = "idle" /\ pc["loop"] \in CloseLabels \cup {"idle"}
         /\ pc'["worker"] = "idle" /\ pc'["loop"] \in CloseLabels \cup {"exited"}
         /\ Serial' /\ \A p \in Installers : Fresh(p)'
         /\ Unplaced <=> pc["loop"] = "release"
         /\ Unplaced' <=> pc'["loop"] = "release"
<1> USE Facts DEF IInv
<1>1. pc["loop"] \in CloseLabels \cup {"idle"} /\ (Idle("loop") => ~Installing("worker"))
  BY DEF Close, BeginClose, Pop, Unpatch, UnpatchFails, Release, Free, JoinWorker, Exited,
         Idle, At, CloseLabels
<1>2. pc["worker"] = "idle"
  <2>1. pc["worker"] \in InstallLabels \cup {"idle"}
    BY DEF Records, Typed, InHand
  <2> QED
    BY <1>1, <2>1 DEF Parts, Serial, Installing, Idle, At, CloseLabels
<1>3. pc \in [Installers -> Labels]
  BY DEF Records, Typed, TypeOK
<1>4. pc'["worker"] = "idle"
  BY <1>2, <1>3 DEF Close, BeginClose, Pop, Unpatch, UnpatchFails, Release, Free, JoinWorker,
                    Exited, Goto
<1>5. pc'["loop"] \in CloseLabels \cup {"exited"}
  <2>1. \A l : Goto("loop", l) => pc'["loop"] = l
    BY <1>3 DEF Goto
  <2>2. CASE Pop
    <3>1. Goto("loop", "close") \/ Goto("loop", "unpatch")
      BY <2>2 DEF Pop
    <3> QED
      BY <2>1, <3>1 DEF CloseLabels
  <2>3. CASE Release
    <3>1. Goto("loop", "close") \/ Goto("loop", "free")
      BY <2>3 DEF Release
    <3> QED
      BY <2>1, <3>1 DEF CloseLabels
  <2>4. CASE JoinWorker
    BY <2>4 DEF JoinWorker, At, CloseLabels
  <2> QED
    BY <2>1, <2>2, <2>3, <2>4 DEF Close, BeginClose, Unpatch, UnpatchFails, Free, Exited,
                                  CloseLabels
<1>6. Serial' /\ \A p \in Installers : Fresh(p)'
  BY <1>4, <1>5 DEF Serial, Fresh, Installing, InstallLabels, CloseLabels, At
<1>7. /\ Unplaced <=> pc["loop"] = "release"
      /\ Unplaced' <=> pc'["loop"] = "release"
  BY <1>1, <1>2, <1>4, <1>5 DEF Unplaced, At, CloseLabels
<1> QED
  BY <1>1, <1>2, <1>4, <1>5, <1>6, <1>7

LEMMA PartsClose ==
  ASSUME Races = {}, IInv, Close
  PROVE  Parts'
<1> USE Facts DEF IInv, gameVars, arenaVars, recordVars, boundVars
<1>a. Typed /\ Records
  BY DEF Records
<1>b. /\ site \in [Hooks -> Slots \cup {Orig}] /\ used \in [Blocks -> Nat] /\ live \in Nat
      /\ hooks \in [Hooks -> Slots \cup {NoSlot}] /\ mapped \in SUBSET Blocks
      /\ pc \in [Installers -> Labels] /\ loc \in [Installers -> Locals]
      /\ "loop" \in Installers
  BY <1>a DEF Typed, TypeOK
<1>c. /\ Serial' /\ \A p \in Installers : Fresh(p)'
      /\ Unplaced <=> pc["loop"] = "release"
      /\ Unplaced' <=> pc'["loop"] = "release"
  BY CloseTurn
<1>d. SUFFICES Arena' /\ RefCount' /\ Safe'
  BY <1>c DEF Parts
<1>e. \A l : Goto("loop", l) => pc'["loop"] = l
  BY <1>b DEF Goto
\* A step that leaves the game, the arena and the records alone.
<1>f. ASSUME UNCHANGED <<site, mapped, used, live, hooks>>,
             pc'["loop"] \notin {"unpatch", "release", "free"}
      PROVE  Arena' /\ RefCount' /\ Safe'
  <2>1. Arena'
    BY <1>f DEF Parts, Arena, Pointing, Listed, At
  <2>2. Counted' = Counted
    BY <1>f DEF Counted, Pointing, Listed
  <2>3. RefCount'
    BY <1>b, <1>c, <1>f, <2>2, CountedFinite DEF Parts, RefCount, At
  <2>4. Safe'
    BY <1>f DEF Parts, Safe, DetourMapped, SlotsUnshared
  <2> QED
    BY <2>1, <2>3, <2>4
<1>1. CASE BeginClose
  BY <1>1, <1>e, <1>f DEF BeginClose
<1>2. CASE Pop
  <2>1. PICK h \in loc["loop"].todo :
          /\ loc' = [loc EXCEPT !["loop"].hook = h, !["loop"].slot = hooks[h],
                                !["loop"].todo = @ \ {h}]
          /\ hooks'  = [hooks EXCEPT ![h] = NoSlot]
          /\ Goto("loop", IF hooks[h] = NoSlot THEN "close" ELSE "unpatch")
    BY <1>2 DEF Pop
  <2>2. h \in Hooks /\ Hook("loop")' = h
    BY <1>b, <2>1 DEF Locals, Hook
  <2>3. /\ pc["loop"] = "close" /\ UNCHANGED <<site, mapped, used, live>>
        /\ pc'["loop"] \in {"close", "unpatch"}
        /\ pc'["loop"] = "unpatch" => hooks[h] # NoSlot
    BY <1>2, <1>e, <2>1 DEF Pop, At
  <2>4. \A g \in Hooks : hooks'[g] = hooks[g] \/ hooks'[g] = NoSlot
    BY <1>b, <2>1
  <2>5. Counted' = Counted
    BY <2>3 DEF Counted, Pointing, Listed
  <2>6. hooks[h] # NoSlot => h \in Counted
    BY <1>b, <2>2 DEF Parts, Arena, Records, RecordedIsLive, Counted, Pointing
  <2>7. Arena'
    <3>1. At("loop", "unpatch")' => (Hook("loop") \in Counted)'
      BY <2>2, <2>3, <2>5, <2>6 DEF At
    <3> QED
      BY <2>3, <2>4, <3>1 DEF Parts, Arena, Pointing, Listed
  <2>8. RefCount'
    BY <1>b, <1>c, <2>3, <2>5, CountedFinite DEF Parts, RefCount, At
  <2>9. Safe'
    BY <2>3 DEF Parts, Safe, DetourMapped, SlotsUnshared
  <2> QED
    BY <2>7, <2>8, <2>9
<1>3. CASE Unpatch
  <2> DEFINE h == Hook("loop")
  <2>1. /\ pc["loop"] = "unpatch" /\ pc'["loop"] = "release"
        /\ site' = [site EXCEPT ![h] = Orig]
        /\ UNCHANGED <<mapped, used, live, hooks>>
    BY <1>3, <1>e DEF Unpatch, At
  <2>2. h \in Counted /\ h \in Hooks
    BY <2>1 DEF Parts, Arena, At, Counted
  <2>3. site'[h] = Orig /\ \A g \in Hooks : g # h => site'[g] = site[g]
    BY <1>b, <2>1, <2>2
  <2>4. Arena'
    BY <2>1, <2>3 DEF Parts, Arena, Pointing, Listed, At
  <2>5. Counted' \in SUBSET (Counted \ {h})
    BY <2>1, <2>3 DEF Counted, Pointing, Listed
  <2>6. RefCount'
    <3>1. Cardinality(Counted') \in Nat /\ Cardinality(Counted') + 1 <= Cardinality(Counted)
      BY <2>2, <2>5, CountedMinus
    <3> QED
      BY <1>b, <1>c, <2>1, <3>1, CountedFinite DEF Parts, RefCount, At
  <2>7. Safe'
    BY <2>1, <2>3 DEF Parts, Safe, DetourMapped, SlotsUnshared
  <2> QED
    BY <2>4, <2>6, <2>7
<1>4. CASE UnpatchFails
  BY <1>4, <1>e, <1>f DEF UnpatchFails
<1>5. CASE Release
  <2>1. /\ pc["loop"] = "release" /\ live' = (IF live > 0 THEN live - 1 ELSE 0)
        /\ pc'["loop"] = (IF live' = 0 THEN "free" ELSE "close")
        /\ UNCHANGED <<site, mapped, used, hooks>>
    BY <1>5, <1>e DEF Release, At
  <2>2. Arena'
    BY <2>1 DEF Parts, Arena, Pointing, Listed, At
  <2>3. Counted' = Counted
    BY <2>1 DEF Counted, Pointing, Listed
  <2>4. RefCount'
    BY <1>b, <1>c, <2>1, <2>3, CountedFinite DEF Parts, RefCount, At
  <2>5. Safe'
    BY <2>1 DEF Parts, Safe, DetourMapped, SlotsUnshared
  <2> QED
    BY <2>2, <2>4, <2>5
<1>6. CASE Free
  <2>1. /\ pc["loop"] = "free" /\ pc'["loop"] = "close"
        /\ mapped' = {b \in mapped : ~Listed(b)} /\ used' = [b \in Blocks |-> 0]
        /\ UNCHANGED <<site, live, hooks>>
    BY <1>6, <1>e DEF Free, At
  <2>2. Counted = {}
    BY <2>1, NothingCounted DEF Parts, RefCount, At
  <2>3. \A h \in Hooks : site[h] # Orig => /\ ~Listed(Block(site[h]))
                                           /\ Block(site[h]) \in mapped
                                           /\ Block(site[h]) \in Blocks
    BY <1>b, <2>2, SlotParts DEF Counted, Pointing, Parts, Safe, DetourMapped
  <2>4. \A h \in Hooks : hooks[h] = NoSlot
    BY <1>b, <2>3 DEF Parts, Arena, Records, RecordedIsLive
  <2>5. \A h \in Hooks : ~Pointing(h)'
    BY <2>1, <2>3 DEF Pointing, Listed
  <2>6. Arena'
    BY <2>1, <2>4, <2>5 DEF Arena, Listed, At
  <2>7. Counted' = {}
    BY <2>5 DEF Counted
  <2>8. RefCount'
    BY <1>b, <1>c, <2>1, <2>7, FS_EmptySet DEF RefCount, At
  <2>9. Safe'
    BY <2>1, <2>3 DEF Parts, Safe, DetourMapped, SlotsUnshared
  <2> QED
    BY <2>6, <2>8, <2>9
<1>7. CASE JoinWorker
  BY <1>7, <1>f DEF JoinWorker, At
<1>8. CASE Exited
  BY <1>8, <1>e, <1>f DEF Exited
<1> QED
  BY <1>1, <1>2, <1>3, <1>4, <1>5, <1>6, <1>7, <1>8 DEF Close

LEMMA PartsElsewhere ==
  ASSUME IInv,
         \/ StartClient \/ StopClient
         \/ \E g \in GameThreads : EnterTrampoline(g) \/ LeaveTrampoline(g)
         \/ UNCHANGED vars
  PROVE  Parts'
<1> USE DEF IInv, recordVars, gameVars, arenaVars, boundVars, procVars
<1>1. CASE StopClient
  <2>1. \A p \in Installers : pc'[p] = "idle"
    BY <1>1 DEF StopClient
  <2>2. pc'["loop"] = "idle" /\ pc'["worker"] = "idle"
    BY <2>1, Facts
  <2>3. /\ UNCHANGED <<site, mapped>> /\ live' = 0 /\ used' = [b \in Blocks |-> 0]
        /\ \A h \in Hooks : hooks'[h] = NoSlot
    BY <1>1 DEF StopClient
  <2>4. \A h \in Hooks : ~Pointing(h)'
    <3>1. \A h \in Hooks : site[h] # Orig => Block(site[h]) \in Blocks
      BY SlotParts DEF Records, Typed, TypeOK
    <3> QED
      BY <2>3, <3>1 DEF Pointing, Listed
  <2>5. Serial' /\ Arena' /\ \A p \in Installers : Fresh(p)'
    BY <2>1, <2>2, <2>3, <2>4 DEF Serial, Arena, Fresh, At, Listed
  <2>6. Counted' = {}
    BY <2>4 DEF Counted
  <2>7. RefCount'
    BY <2>1, <2>2, <2>3, <2>6, FS_EmptySet DEF RefCount, Unplaced, At
  <2>8. Safe'
    BY <2>3 DEF Parts, Safe, DetourMapped, SlotsUnshared
  <2> QED
    BY <2>5, <2>7, <2>8 DEF Parts
<1>2. CASE UNCHANGED <<pc, loc, hooks, site, mapped, used, live>>
  <2>1. Counted' = Counted
    BY <1>2 DEF Counted, Pointing, Listed
  <2>2. Serial' /\ Arena' /\ (\A p \in Installers : Fresh(p)') /\ Safe'
    BY <1>2 DEF Parts, Serial, Arena, Fresh, Pointing, Counted, Listed, Installing, At, Hook, Slot,
                Safe, DetourMapped, SlotsUnshared
  <2>3. RefCount'
    BY <1>2, <2>1 DEF Parts, RefCount, Unplaced, At
  <2> QED
    BY <2>2, <2>3 DEF Parts
<1> QED
  BY <1>1, <1>2 DEF StartClient, EnterTrampoline, LeaveTrampoline, vars

LEMMA Inductive == Races = {} => (Spec => []IInv)
<1> SUFFICES ASSUME Races = {} PROVE Spec => []IInv
  OBVIOUS
<1>1. Init => IInv
  BY RecordsInit, PartsInit DEF IInv
<1>2. IInv /\ [Next]_vars => IInv'
  <2> SUFFICES ASSUME IInv, [Next]_vars PROVE IInv'
    OBVIOUS
  <2>1. Records'
    BY RecordsInstall, RecordsClose, RecordsElsewhere DEF Next, IInv
  <2>2. Parts'
    BY PartsInstall, PartsClose, PartsElsewhere DEF Next
  <2> QED
    BY <2>1, <2>2 DEF IInv
<1> QED
  BY <1>1, <1>2, PTL DEF Spec

\* As long as no thread installs while another installs or restores, no site
\* ever jumps into a freed block: the arena's shared reference count is never
\* too low, across failing writes, crashes, restarts and leaked detours.
THEOREM DetoursStayMapped == Races = {} => (Spec => []DetourMapped)
<1>1. IInv => DetourMapped
  BY DEF IInv, Parts, Safe
<1> QED
  BY <1>1, Inductive, PTL

\* ... and no two sites share a trampoline.
THEOREM SlotsAreUnshared == Races = {} => (Spec => []SlotsUnshared)
<1>1. IInv => SlotsUnshared
  BY DEF IInv, Parts, Safe
<1> QED
  BY <1>1, Inductive, PTL

-----------------------------------------------------------------------------
(* The scan of the signatures: arithmetic of the chunks                    *)

LEMMA Divided ==
  ASSUME NEW a \in Nat, NEW c \in Nat \ {0}
  PROVE  /\ a \div c \in Nat /\ a % c \in 0..(c - 1)
         /\ a = (c * (a \div c)) + (a % c)
OBVIOUS

LEMMA NextMultiple ==
  ASSUME NEW j \in Int, NEW k \in Int, NEW c \in Nat \ {0}, j < k
  PROVE  (c * j) + c <= c * k
<1>1. k - j >= 1
  OBVIOUS
<1>2. c * (k - j) >= c
  BY <1>1
<1> QED
  BY <1>2

LEMMA MultipleStarts ==
  ASSUME NEW k \in Nat, NEW c \in Nat \ {0}
  PROVE  (c * k) % c = 0
OBVIOUS

\* Two starts of chunks are a chunk apart.
LEMMA StartsApart ==
  ASSUME NEW a \in Starts, NEW b \in Starts, a < b
  PROVE  a \in Nat /\ b \in Nat /\ a + Chunk <= b
<1>1. a \in Nat /\ b \in Nat /\ Chunk \in Nat \ {0} /\ a % Chunk = 0 /\ b % Chunk = 0
  BY ScanAssumption DEF ScanAssumption, Starts, Places
<1> DEFINE j == a \div Chunk
           k == b \div Chunk
<1>2. j \in Nat /\ k \in Nat /\ a = Chunk * j /\ b = Chunk * k
  <2>1. /\ j \in Nat /\ a = (Chunk * j) + (a % Chunk)
        /\ k \in Nat /\ b = (Chunk * k) + (b % Chunk)
    BY <1>1, Divided
  <2>2. Chunk * j \in Nat /\ Chunk * k \in Nat
    BY <1>1, <2>1
  <2> QED
    BY <1>1, <2>1, <2>2
<1> HIDE DEF j, k
<1>3. j < k
  <2>1. CASE k < j
    BY <1>1, <1>2, <2>1, NextMultiple
  <2>2. CASE k = j
    BY <1>2, <2>2
  <2> QED
    BY <1>2, <2>1, <2>2
<1> QED
  BY <1>1, <1>2, <1>3, NextMultiple

\* Every place is in the chunk that starts before it.
LEMMA ChunkBefore ==
  ASSUME NEW m \in Places
  PROVE  \E a \in Starts : InChunk(a, m)
<1>1. m \in Nat /\ m < ModuleSize /\ ModuleSize \in Nat /\ Chunk \in Nat \ {0}
  BY ScanAssumption DEF ScanAssumption, Places
<1> DEFINE k == m \div Chunk
           a == Chunk * k
<1>2. k \in Nat /\ a \in Nat /\ a <= m /\ m < a + Chunk /\ a % Chunk = 0
  <2>1. k \in Nat /\ m % Chunk \in 0..(Chunk - 1) /\ m = a + (m % Chunk)
    BY <1>1, Divided
  <2>2. a \in Nat /\ a % Chunk = 0
    BY <1>1, <2>1, MultipleStarts
  <2> QED
    BY <1>1, <2>1, <2>2
<1> HIDE DEF a
<1> QED
  BY <1>1, <1>2 DEF Starts, Places, InChunk

LEMMA PlacesFinite ==
  /\ IsFiniteSet(Places) /\ IsFiniteSet(Starts) /\ IsFiniteSet(Whole)
  /\ Starts \subseteq Places /\ Whole \subseteq Places
<1>1. IsFiniteSet(Places)
  BY ScanAssumption, FS_Interval DEF ScanAssumption, Places
<1>2. Starts \subseteq Places /\ Whole \subseteq Places
  BY DEF Starts, Whole
<1> QED
  BY <1>1, <1>2, FS_Subset

LEMMA HitsFinite ==
  ASSUME NEW image \in Images
  PROVE  /\ IsFiniteSet(Hits(image)) /\ Hits(image) \subseteq Starts \X image.matches
         /\ image.matches \subseteq Places /\ IsFiniteSet(image.matches)
<1>1. image.matches \subseteq Whole
  BY DEF Images
<1>2. IsFiniteSet(image.matches) /\ image.matches \subseteq Places
  BY <1>1, PlacesFinite, FS_Subset
<1>3. IsFiniteSet(Starts \X image.matches)
  BY <1>2, PlacesFinite, FS_Product
<1>4. Hits(image) \subseteq Starts \X image.matches
  BY DEF Hits
<1> QED
  BY <1>2, <1>3, <1>4, FS_Subset

\* The only hit is a place where the signature matches.
LEMMA HitMatches ==
  ASSUME NEW image \in Images, Unique(image)
  PROVE  HitOf(image) \in image.matches
<1>1. PICK hit : Hits(image) = {hit}
  BY HitsFinite, FS_Singleton DEF Unique
<1>2. (CHOOSE h \in Hits(image) : TRUE) \in Hits(image)
  BY <1>1
<1> QED
  BY <1>2, HitsFinite DEF HitOf

\* A match in two chunks is at the start of the second.
LEMMA OneChunk ==
  ASSUME NEW a \in Starts, NEW b \in Starts, NEW m \in Places, a < b,
         InChunk(a, m), InChunk(b, m)
  PROVE  m = b /\ m # 0
<1>1. a \in Nat /\ b \in Nat /\ a + Chunk <= b
  BY StartsApart
<1>2. m \in Nat /\ b <= m /\ m <= a + Chunk /\ Chunk \in Nat
  BY ScanAssumption DEF ScanAssumption, InChunk, Places
<1> QED
  BY <1>1, <1>2

\* A signature is counted as often as it matches.
LEMMA ScanIsExact == ScanExact
<1> SUFFICES ASSUME NEW image \in Images, image.lost = {},
                    image.matches \cap (Starts \ {0}) = {}
             PROVE  Cardinality(Hits(image)) = Cardinality(image.matches)
  BY DEF ScanExact
<1> DEFINE place == [hit \in Hits(image) |-> hit[2]]
<1>1. \A hit \in Hits(image) :
        /\ hit = <<hit[1], hit[2]>> /\ hit[1] \in Starts /\ hit[2] \in image.matches
        /\ InChunk(hit[1], hit[2])
  BY DEF Hits
<1>2. place \in [Hits(image) -> image.matches]
  BY <1>1
<1>3. ASSUME NEW g \in Hits(image), NEW h \in Hits(image), g[2] = h[2]
      PROVE  g = h
  <2>1. g[1] \in Nat /\ h[1] \in Nat /\ g[2] \in Places
    BY <1>1, HitsFinite DEF Starts, Places
  <2>2. ~ g[1] < h[1] /\ ~ h[1] < g[1]
    <3>1. CASE g[1] < h[1]
      <4>1. h[2] = h[1] /\ h[2] # 0
        BY <1>1, <1>3, <2>1, <3>1, OneChunk
      <4> QED
        BY <1>1, <4>1
    <3>2. CASE h[1] < g[1]
      <4>1. g[2] = g[1] /\ g[2] # 0
        BY <1>1, <1>3, <2>1, <3>2, OneChunk
      <4> QED
        BY <1>1, <4>1
    <3> QED
      BY <3>1, <3>2
  <2>3. g[1] = h[1]
    BY <2>1, <2>2
  <2> QED
    BY <1>1, <1>3, <2>3
<1>4. ASSUME NEW m \in image.matches
      PROVE  \E hit \in Hits(image) : place[hit] = m
  <2>1. PICK a \in Starts : InChunk(a, m)
    BY HitsFinite, ChunkBefore
  <2>2. <<a, m>> \in Hits(image)
    BY <2>1 DEF Hits
  <2> QED
    BY <2>2
<1>5. place \in Bijection(Hits(image), image.matches)
  <2>1. place \in Injection(Hits(image), image.matches)
    BY <1>2, <1>3 DEF Injection, IsInjective
  <2>2. place \in Surjection(Hits(image), image.matches)
    BY <1>2, <1>4 DEF Surjection
  <2> QED
    BY <2>1, <2>2 DEF Bijection
<1>6. ExistsBijection(Hits(image), image.matches)
  BY <1>5 DEF ExistsBijection
<1> QED
  BY <1>6, HitsFinite, FS_Bijection

-----------------------------------------------------------------------------
(* The report of the preflight                                             *)

LEMMA ForeignIsKept ==
  ASSUME NEW s \in Sites, NEW h \in HookForms
  PROVE  ForeignKept(s, h)
BY DEF ForeignKept, Recovers, IsLeakedDetour, IsDeadDetour, Jumps

\* The verdict on a site, spelled out for a client that has not installed.
LEMMA Verdicts ==
  ASSUME NEW s \in Sites, NEW h \in HookForms, NEW image \in Images
  PROVE  LET verdict == Classify(s, h, image, FALSE)
         IN  /\ s.held = "orig" => verdict = "ok"
             /\ s.held = "unreadable" => verdict = "unresolved"
             /\ s.held = "jump" /\ Recovers(s, h, TRUE) => verdict = "leaked"
             /\ s.held \in {"jump", "other"} /\ ~Recovers(s, h, TRUE) =>
                  verdict = IF h.aob /\ Unique(image) THEN "relocated" ELSE "broken"
BY DEF Classify, Recovers, IsLeakedDetour, IsDeadDetour, Jumps

LEMMA SiteHeld ==
  ASSUME NEW s \in Sites
  PROVE  s.held \in {"orig", "jump", "other", "unreadable"}
BY DEF Sites

LEMMA HitIsAPlace ==
  ASSUME NEW image \in Images, Unique(image)
  PROVE  HitOf(image) \in Nat /\ HitOf(image) # AtSite /\ HitOf(image) # NotFound
<1>1. HitOf(image) \in Places
  BY HitMatches, HitsFinite
<1> QED
  BY <1>1 DEF Places, AtSite, NotFound

LEMMA VerdictsHold ==
  ASSUME NEW s \in Sites, NEW h \in HookForms, NEW image \in Images, NEW writes \in BOOLEAN
  PROVE  VerdictHolds(s, h, image, writes)
<1>1. CASE s.held = "orig"
  BY <1>1, Verdicts DEF VerdictHolds, Resolves
<1>2. CASE s.held = "unreadable"
  <2>1. Classify(s, h, image, FALSE) = "unresolved"
    BY <1>2, Verdicts
  <2>2. ~ Recovers(s, h, writes)
    BY <1>2 DEF Recovers, IsLeakedDetour, IsDeadDetour, Jumps
  <2>3. Resolves(s, h, image, writes) # AtSite
    BY <1>2, <2>2, HitIsAPlace DEF Resolves, AtSite, NotFound
  <2> QED
    BY <2>1, <2>3 DEF VerdictHolds
<1>3. CASE s.held = "jump" /\ Recovers(s, h, TRUE)
  <2>1. Classify(s, h, image, FALSE) = "leaked"
    BY <1>3, Verdicts
  <2>2. writes => Recovers(s, h, writes)
    BY <1>3 DEF Recovers
  <2>3. writes => Resolves(s, h, image, writes) = AtSite
    BY <2>2 DEF Resolves
  <2> QED
    BY <2>1, <2>3 DEF VerdictHolds
<1>4. CASE s.held \in {"jump", "other"} /\ ~ Recovers(s, h, TRUE)
  <2>1. ~ Recovers(s, h, writes)
    BY <1>4 DEF Recovers
  <2>2. CASE h.aob /\ Unique(image)
    <3>1. Classify(s, h, image, FALSE) = "relocated" /\ Resolves(s, h, image, writes) = HitOf(image)
      BY <1>4, <2>1, <2>2, Verdicts DEF Resolves
    <3> QED
      BY <2>2, <3>1, HitMatches DEF VerdictHolds
  <2>3. CASE ~ (h.aob /\ Unique(image))
    <3>1. Classify(s, h, image, FALSE) = "broken" /\ Resolves(s, h, image, writes) = NotFound
      BY <1>4, <2>1, <2>3, Verdicts DEF Resolves
    <3> QED
      BY <3>1 DEF VerdictHolds
  <2> QED
    BY <2>2, <2>3
<1>5. s.held = "other" => ~ Recovers(s, h, TRUE)
  BY DEF Recovers, IsLeakedDetour, IsDeadDetour, Jumps
<1> QED
  BY <1>1, <1>2, <1>3, <1>4, <1>5, SiteHeld

LEMMA SitesAreSound == SitesSound
BY ForeignIsKept, VerdictsHold DEF SitesSound

LEMMA RootsAreTrue == RootsTrue
BY HitMatches DEF RootsTrue, RootAt

\* A report with nothing bad, from any image and whatever chunks were lost.
LEMMA ReportVouches ==
  ASSUME NEW w, w.site \in Sites, w.hook \in HookForms, w.image \in Images, w.roots \in Images,
         w.installed = FALSE, w.anchor \in AnchorStates, w.research \in ResearchStates,
         w.session \in SessionStates, Bad(SelfCheck(w)) = {}
  PROVE  /\ Resolves(w.site, w.hook, w.image, TRUE) # NotFound
         /\ RootAt(w.roots) \in w.roots.matches
         /\ w.anchor = "in range" /\ w.research = "records" /\ w.session # "no instance"
<1> DEFINE good == {"ok", "relocated"}
<1>1. /\ Classify(w.site, w.hook, w.image, FALSE) \in good
      /\ CheckRoot(w.roots, RootAt(w.roots)) \in good
      /\ CheckAnchor(w.anchor) \in good /\ CheckResearch(w.research) \in good
      /\ CheckSession(w.session) \in good
  BY DEF Bad, SelfCheck
<1>2. Resolves(w.site, w.hook, w.image, TRUE) # NotFound
  <2>1. CASE w.site.held = "orig"
    BY <2>1 DEF Resolves, AtSite, NotFound
  <2>2. CASE w.site.held # "orig"
    <3>1. w.hook.aob /\ Unique(w.image)
      BY <1>1, <2>2, Verdicts, SiteHeld DEF Recovers, IsLeakedDetour, IsDeadDetour, Jumps
    <3>2. HitOf(w.image) # NotFound /\ AtSite # NotFound
      BY <3>1, HitIsAPlace DEF AtSite, NotFound
    <3>3. Resolves(w.site, w.hook, w.image, TRUE) \in {AtSite, HitOf(w.image)}
      BY <3>1 DEF Resolves
    <3> QED
      BY <3>2, <3>3
  <2> QED
    BY <2>1, <2>2
<1>3. RootAt(w.roots) \in w.roots.matches
  <2>1. Unique(w.roots)
    BY <1>1 DEF CheckRoot
  <2> QED
    BY <2>1, HitMatches DEF RootAt
<1>4. w.anchor = "in range"
  BY <1>1 DEF CheckAnchor, AnchorStates
<1>5. w.research = "records"
  BY <1>1 DEF CheckResearch, ResearchStates
<1>6. w.session # "no instance"
  BY <1>1 DEF CheckSession
<1> QED
  BY <1>2, <1>3, <1>4, <1>5, <1>6

LEMMA ReportIsTrue == ReportTrue
<1> SUFFICES ASSUME NEW w \in Worlds PROVE Vouches(w)
  BY DEF ReportTrue
<1>1. /\ w.site \in Sites /\ w.hook \in HookForms /\ w.installed = FALSE
      /\ w.image \in Images /\ w.roots \in Images
      /\ w.anchor \in AnchorStates /\ w.research \in ResearchStates /\ w.session \in SessionStates
  BY DEF Worlds, AnchorStates, ResearchStates, SessionStates
<1> QED
  BY <1>1, ReportVouches DEF Vouches

\* What the preflight reports is what the installations then meet, for a
\* module of any size, read in chunks of any size, and any number of matches.
THEOREM VerdictsAreTrue == Spec => []VerdictsAgree
<1>1. VerdictsAgree
  BY ScanIsExact, SitesAreSound, RootsAreTrue, ReportIsTrue DEF VerdictsAgree
<1> QED
  BY <1>1, PTL
=============================================================================
