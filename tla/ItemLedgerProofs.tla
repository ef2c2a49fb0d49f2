--------------------------- MODULE ItemLedgerProofs ---------------------------
(***************************************************************************)
(* Theorems about ItemLedger for every value of its constants: any list of *)
(* items, any sums, any set of interleavings and any bounds.               *)
(***************************************************************************)
EXTENDS ItemLedger, TLAPS

\* What the proofs need of the constants.
LEMMA Numbers == NItems \in Nat /\ Baked \in Nat /\ WaitMax \in Nat
                 /\ (StartMoney # NoStart => StartMoney \in Nat)
BY ItemsAssumption, MoneyAssumption, EnvironmentAssumption
DEF ItemsAssumption, MoneyAssumption, EnvironmentAssumption

LEMMA Sums == /\ "cash" \in Kinds
              /\ \A k \in Kinds, n \in 0..NItems : Owed[k][n] \in Nat
              /\ \A k \in Kinds, m, n \in 0..NItems : m <= n => Owed[k][m] <= Owed[k][n]
BY MoneyAssumption DEF MoneyAssumption

-----------------------------------------------------------------------------
(* The inductive invariant.                                                *)

\* The base client holds a prefix of what the server sent, and a thread that
\* is about to acknowledge an item still has it under its cursor.
Acking(p) == \/ pc[p] = "ack"
             \/ pc[p] \in {"build", "list"} /\ loc[p].back = "ack"
Cursors == /\ rcvd <= sent
           /\ \A p \in Procs : /\ Acking(p) => loc[p].idx < loc[p].end
                               /\ pc[p] = "set" => loc[p].back # "ack"

\* Every copy of the mark, and every cursor, is below acknowledged items only.
MarksBelow(f) == \A s \in SlotKeys : 1..f[s].mark \subseteq acked
CursorsBelow ==
  \A p \in Procs :
    /\ pc[p] = "item" \/ Acking(p) => 1..loc[p].idx \subseteq acked
    /\ pc[p] = "ack" => loc[p].idx + 1 \in acked
Marks == MarksBelow(mem) /\ MarksBelow(disk) /\ MarksBelow(loaded) /\ CursorsBelow

\* Every copy of the ledger, and every target under way, is within the sums
\* of the sent items.
WithinSent(g) == \A k \in Kinds : g[k] <= Owed[k][sent]
LedgerWithin(f) == \A s \in SlotKeys : WithinSent(f[s].granted)
Ledgers == /\ LedgerWithin(mem) /\ LedgerWithin(disk) /\ LedgerWithin(loaded)
           /\ \A p \in Procs : WithinSent(loc[p].target)

IInv == TypeOK /\ Cursors /\ Marks /\ Ledgers

-----------------------------------------------------------------------------
(* Types.                                                                  *)

LEMMA TypeInit == Init => TypeOK
<1> SUFFICES ASSUME Init PROVE TypeOK
  OBVIOUS
<1>1. NoMoney \in [Kinds -> Nat] /\ NoState \in [SlotKeys -> Entries] /\ NoLocals \in Locals
  BY Numbers, Sums DEF NoState, NoEntry, NoMoney, NoLocals, Entries, Locals
<1>2. BakedCash \in [Kinds -> Int] /\ OtherCash \in [Kinds -> Int]
  BY Numbers DEF BakedCash, OtherCash
<1>3. book \in [Books -> [cash : [Kinds -> Int], base : [Kinds -> Int], net : [Kinds -> Int]]]
  BY <1>1, <1>2 DEF Init, NewBook, Books
<1>4. /\ mem \in [SlotKeys -> Entries] /\ disk \in [SlotKeys -> Entries]
      /\ loaded \in [SlotKeys -> Entries]
      /\ pc \in [Procs -> Labels] /\ loc \in [Procs -> Locals]
  BY <1>1 DEF Init, Labels
<1>5. QED
  <2>1. initialApplied \in 0..NItems \cup {NoMark} /\ waitTicks \in 0..WaitMax
    BY Numbers DEF Init
  <2>2. /\ sent \in 0..NItems /\ rcvd \in 0..NItems /\ gate \in Gates
        /\ conn \in {"up", "down"} /\ park \in Books \cup {"none"}
    BY Numbers DEF Init, Books, NoGate, Gates
  <2>3. /\ freshDone \in BOOLEAN /\ ageKnown \in BOOLEAN /\ aged \in BOOLEAN
        /\ anchor \in BOOLEAN /\ ledgerFor \in BOOLEAN
    BY DEF Init
  <2>4. acked \in SUBSET (1..NItems)
    BY DEF Init
  <2>5. used \in [connects : Nat, saves : Nat, loads : Nat, moves : Nat, outages : Nat]
    BY DEF Init
  <2> QED
    BY <1>3, <1>4, <2>1, <2>2, <2>3, <2>4, <2>5 DEF TypeOK

\* What a setter of ClientState leaves, whether its save fails or not.
Stored(f) == mem' = f /\ disk' \in {f, disk}

LEMMA PersistedStored == ASSUME NEW f, Persisted(f) PROVE Stored(f)
BY DEF Persisted, Stored

\* A setter of ClientState keeps memory and file well typed.
LEMMA TypeSetMark ==
  ASSUME TypeOK, NEW n \in 0..NItems, Stored([mem EXCEPT ![Key].mark = n])
  PROVE  /\ mem' \in [SlotKeys -> Entries] /\ disk' \in [SlotKeys -> Entries]
BY Numbers DEF TypeOK, Stored, Entries, SlotKeys, Key

LEMMA TypeSetGranted ==
  ASSUME TypeOK, NEW k \in Kinds, NEW n \in Nat,
         Stored([mem EXCEPT ![Key].granted[k] = n])
  PROVE  /\ mem' \in [SlotKeys -> Entries] /\ disk' \in [SlotKeys -> Entries]
<1> DEFINE e == [mem[Key] EXCEPT !.granted = [@ EXCEPT ![k] = n]]
<1>1. /\ mem \in [SlotKeys -> Entries] /\ disk \in [SlotKeys -> Entries]
      /\ Key \in SlotKeys /\ mem[Key] \in Entries
  BY DEF TypeOK, SlotKeys, Key
<1>2. [mem[Key].granted EXCEPT ![k] = n] \in [Kinds -> Nat]
  BY <1>1 DEF Entries
<1>3. e \in Entries
  BY <1>1, <1>2 DEF Entries
<1>4. mem' = [mem EXCEPT ![Key] = e]
  BY <1>1 DEF Stored
<1> HIDE DEF e
<1>5. mem' \in [SlotKeys -> Entries]
  BY <1>1, <1>3, <1>4
<1>6. disk' \in {mem', disk}
  BY DEF Stored
<1>7. QED
  BY <1>1, <1>5, <1>6

LEMMA TypeResetGranted ==
  ASSUME TypeOK, Stored([mem EXCEPT ![Key].granted = NoMoney])
  PROVE  /\ mem' \in [SlotKeys -> Entries] /\ disk' \in [SlotKeys -> Entries]
BY DEF TypeOK, Stored, Entries, SlotKeys, Key, NoMoney

LEMMA TypeGoto ==
  ASSUME TypeOK, NEW p \in Procs, NEW l \in Labels, Goto(p, l)
  PROVE  pc' \in [Procs -> Labels]
BY DEF TypeOK, Goto

LEMMA TypeLeave ==
  ASSUME TypeOK, NEW p \in Procs, NEW l \in Labels, Leave(p, l)
  PROVE  pc' \in [Procs -> Labels] /\ loc' \in [Procs -> Locals]
<1>1. NoLocals \in Locals
  BY Numbers, Sums DEF NoLocals, Locals, NoMoney
<1>2. QED
  BY <1>1 DEF TypeOK, Goto, Leave

LEMMA LocalsExcept ==
  ASSUME NEW r \in Locals
  PROVE  /\ \A i, j \in 0..NItems : [r EXCEPT !.idx = i, !.end = j] \in Locals
         /\ \A i \in 0..NItems : [r EXCEPT !.idx = i] \in Locals
         /\ \A t \in [Kinds -> Nat] : [r EXCEPT !.target = t, !.todo = Kinds] \in Locals
         /\ \A k \in Kinds : [r EXCEPT !.todo = @ \ {k}] \in Locals
         /\ \A k \in Kinds, d \in Nat :
              [r EXCEPT !.kind = k, !.todo = @ \ {k}, !.delta = d] \in Locals
         /\ \A c \in Int : [r EXCEPT !.cur = c] \in Locals
         /\ \A n \in 0..2 : /\ [r EXCEPT !.syncs = n] \in Locals
                           /\ [r EXCEPT !.syncs = n, !.back = "ack"] \in Locals
         /\ \A e \in SUBSET (1..NItems) :
              /\ \A b \in {"idle", "resync"} : [r EXCEPT !.keys = e, !.back = b] \in Locals
              /\ \A n \in 0..2 : [r EXCEPT !.keys = e, !.syncs = n] \in Locals
BY DEF Locals

LEMMA TypeBegin ==
  ASSUME TypeOK, NEW p \in Procs, NEW m \in 0..NItems, BeginItems(p, m)
  PROVE  pc' \in [Procs -> Labels] /\ loc' \in [Procs -> Locals]
<1>1. Min2(m, rcvd) \in 0..NItems /\ rcvd \in 0..NItems
  BY Numbers DEF TypeOK, Min2
<1>2. loc' = [loc EXCEPT ![p] = [@ EXCEPT !.idx = Min2(m, rcvd), !.end = rcvd]]
  BY DEF TypeOK, BeginItems, Locals
<1>3. [loc[p] EXCEPT !.idx = Min2(m, rcvd), !.end = rcvd] \in Locals
  BY <1>1, LocalsExcept DEF TypeOK
<1>4. pc' \in [Procs -> Labels]
  BY DEF TypeOK, Goto, BeginItems, Labels
<1>5. QED
  BY <1>2, <1>3, <1>4 DEF TypeOK

LEMMA KeyTyped ==
  ASSUME TypeOK
  PROVE  Mark \in 0..NItems /\ \A k \in Kinds : Granted(k) \in Nat
BY DEF TypeOK, Mark, Granted, Key, SlotKeys, Entries

LEMMA AfterApplyTyped == \A p \in Procs : AfterApply(p) \in Labels
BY DEF AfterApply, Labels

\* The steps of the purchase gate keep to the gate and to their own locals.
GateMoves(p) == \/ UnlockItem(p) \/ ReadItems(p) \/ SetUnlocked(p) \/ BuildList(p)
                \/ WriteList(p) \/ Unlocked(p) \/ Reconciled(p)

LEMMA GateApart ==
  ASSUME TypeOK, NEW p \in Procs, GateMoves(p)
  PROVE  /\ UNCHANGED <<mem, disk, sent, rcvd, conn, loaded, park, ageKnown, aged, anchor,
                        book, ledgerFor, used, initialApplied, freshDone, waitTicks>>
         /\ pc[p] \in {"item", "permits", "resync", "set", "build", "list"}
         /\ pc'[p] \in {"set", "build", "list", "ack", "resync", "idle"}
         /\ \A q \in Procs : q # p => pc'[q] = pc[q] /\ loc'[q] = loc[q]
         /\ loc'[p].target = loc[p].target \/ loc'[p] = NoLocals
<1> USE DEF clientVars, procVars, netVars, gameVars, histVars, Goto, Leave
<1>a. pc \in [Procs -> Labels] /\ loc \in [Procs -> Locals]
      /\ loc[p].back \in {"idle", "resync", "ack"}
  BY DEF TypeOK, Locals
<1>1. CASE UnlockItem(p)
  BY <1>a, <1>1 DEF UnlockItem, AtItem, At, Locals
<1>2. CASE ReadItems(p)
  BY <1>a, <1>2 DEF ReadItems, Locals
<1>3. CASE SetUnlocked(p)
  BY <1>a, <1>3 DEF SetUnlocked, At, Locals
<1>4. CASE BuildList(p)
  BY <1>a, <1>4 DEF BuildList, At, Locals
<1>5. CASE WriteList(p) \/ Unlocked(p) \/ Reconciled(p)
  BY <1>a, <1>5 DEF WriteList, Unlocked, Reconciled, At
<1>6. QED
  BY <1>1, <1>2, <1>3, <1>4, <1>5 DEF GateMoves

LEMMA GateTyped ==
  ASSUME TypeOK, Cursors, NEW p \in Procs, GateMoves(p)
  PROVE  /\ pc' \in [Procs -> Labels] /\ loc' \in [Procs -> Locals]
         /\ gate' \in Gates /\ acked' \in SUBSET (1..NItems)
<1> USE DEF clientVars, procVars, netVars, gameVars, histVars
<1>a. /\ pc \in [Procs -> Labels] /\ loc \in [Procs -> Locals] /\ loc[p] \in Locals
      /\ gate \in Gates /\ acked \in SUBSET (1..NItems)
      /\ loc[p].back \in {"idle", "resync", "ack"} /\ loc[p].keys \in SUBSET (1..NItems)
      /\ loc[p].syncs \in 0..2 /\ loc[p].idx \in 0..NItems /\ loc[p].end \in 0..NItems
      /\ gate.unlocked \in SUBSET (1..NItems) /\ rcvd \in 0..NItems
  BY DEF TypeOK, Locals, Gates
<1>b. pc' \in [Procs -> Labels]
  <2>1. pc'[p] \in Labels
    BY GateApart DEF Labels
  <2>2. \E l : Goto(p, l)
    BY DEF GateMoves, UnlockItem, ReadItems, SetUnlocked, BuildList, WriteList, Unlocked,
           Reconciled, Leave
  <2>3. QED
    BY <1>a, <2>1, <2>2 DEF Goto
<1>c. \A n \in 0..NItems : Permits(n) \in SUBSET (1..NItems)
  BY Numbers DEF Permits
<1>d. NoLocals \in Locals
  BY Numbers, Sums DEF NoLocals, Locals, NoMoney
<1>1. CASE UnlockItem(p)
  <2>1. loc[p].idx + 1 \in 1..NItems
    BY <1>a, <1>1, Numbers DEF UnlockItem
  <2>2. gate' \in Gates
    BY <1>a, <1>1, <2>1 DEF UnlockItem, Gates
  <2>3. Syncs(TRUE) \in 0..2
    BY DEF Syncs
  <2>4. loc' = [loc EXCEPT ![p] = [loc[p] EXCEPT !.syncs = Syncs(TRUE), !.back = "ack"]]
    BY <1>a, <1>1 DEF UnlockItem, Locals
  <2>5. [loc[p] EXCEPT !.syncs = Syncs(TRUE), !.back = "ack"] \in Locals
    BY <1>a, <2>3, LocalsExcept
  <2>6. QED
    BY <1>a, <1>b, <1>1, <2>2, <2>4, <2>5 DEF UnlockItem
<1>2. CASE ReadItems(p)
  <2> DEFINE b == IF At(p, "permits") THEN AfterApply(p) ELSE "idle"
  <2>1. b \in {"idle", "resync"}
    BY DEF AfterApply
  <2>2. loc' = [loc EXCEPT ![p] = [loc[p] EXCEPT !.keys = Permits(rcvd), !.back = b]]
    BY <1>a, <1>2 DEF ReadItems, Locals
  <2> HIDE DEF b
  <2>3. [loc[p] EXCEPT !.keys = Permits(rcvd), !.back = b] \in Locals
    BY <1>a, <1>c, <2>1, LocalsExcept
  <2>4. QED
    BY <1>a, <1>b, <1>2, <2>2, <2>3 DEF ReadItems
<1>3. CASE SetUnlocked(p)
  <2>1. gate' \in Gates
    BY <1>a, <1>3 DEF SetUnlocked, Gates
  <2> DEFINE n == Syncs(loc[p].keys # gate.unlocked)
  <2>2. n \in 0..2
    BY DEF Syncs
  <2>3. loc' = [loc EXCEPT ![p] = [loc[p] EXCEPT !.syncs = n]] \/ loc' = [loc EXCEPT ![p] = NoLocals]
    BY <1>a, <1>3 DEF SetUnlocked, Leave, Locals
  <2> HIDE DEF n
  <2>4. [loc[p] EXCEPT !.syncs = n] \in Locals
    BY <1>a, <2>2, LocalsExcept
  <2>5. QED
    BY <1>a, <1>b, <1>d, <1>3, <2>1, <2>3, <2>4 DEF SetUnlocked
<1>4. CASE BuildList(p)
  <2>1. loc[p].syncs - 1 \in 0..2
    BY <1>a, <1>4 DEF BuildList
  <2>2. loc' = [loc EXCEPT ![p] = [loc[p] EXCEPT !.keys = gate.unlocked, !.syncs = loc[p].syncs - 1]]
    BY <1>a, <1>4 DEF BuildList, Locals
  <2>3. [loc[p] EXCEPT !.keys = gate.unlocked, !.syncs = loc[p].syncs - 1] \in Locals
    BY <1>a, <2>1, LocalsExcept
  <2>4. QED
    BY <1>a, <1>b, <1>4, <2>2, <2>3 DEF BuildList
<1>5. CASE WriteList(p)
  <2>1. gate' \in Gates
    BY <1>a, <1>5 DEF WriteList, Gates
  <2>2. QED
    BY <1>a, <1>b, <1>5, <2>1 DEF WriteList
<1>6. CASE Unlocked(p)
  <2>1. loc[p].idx + 1 \in 1..NItems
    BY <1>a, <1>6, Numbers DEF Unlocked, At, Cursors, Acking
  <2>2. QED
    BY <1>a, <1>b, <1>6, <2>1 DEF Unlocked
<1>7. CASE Reconciled(p)
  BY <1>a, <1>b, <1>d, <1>7 DEF Reconciled, Leave
<1>8. QED
  BY <1>1, <1>2, <1>3, <1>4, <1>5, <1>6, <1>7 DEF GateMoves

\* A save that fails leaves the file, and in memory what the setter wrote.
LEMMA SaveFailsStores ==
  ASSUME TypeOK, Cursors, NEW p \in Procs, SaveFails(p)
  PROVE  /\ disk' = disk /\ UNCHANGED <<netVars, gameVars, acked, used>>
         /\ Leave(p, AfterApply(p))
         /\ pc[p] \in {"unledger", "rezero", "ack", "ledger", "persist"}
         /\ \/ Stored([mem EXCEPT ![Key].granted = NoMoney])
            \/ Stored([mem EXCEPT ![Key].mark = 0])
            \/ pc[p] = "ack" /\ Stored([mem EXCEPT ![Key].mark = loc[p].idx + 1])
            \/ \E k \in Kinds : Stored([mem EXCEPT ![Key].granted[k] = loc[p].target[k]])
<1>1. /\ disk' = disk /\ UNCHANGED <<netVars, gameVars, acked, used>>
      /\ Leave(p, AfterApply(p)) /\ mem' \in Storing(p)
  BY DEF SaveFails
<1>2. loc[p].todo \subseteq Kinds /\ loc[p].kind \in Kinds
  BY DEF TypeOK, Locals
<1>3. CASE pc[p] = "unledger"
  BY <1>1, <1>3 DEF Storing, At, Stored
<1>4. CASE pc[p] = "rezero"
  BY <1>1, <1>4 DEF Storing, At, Stored
<1>5. CASE pc[p] = "ack"
  BY <1>1, <1>5 DEF Storing, At, Stored
<1>6. CASE pc[p] = "ledger"
  <2>1. PICK k \in loc[p].todo : mem' = [mem EXCEPT ![Key].granted[k] = loc[p].target[k]]
    BY <1>1, <1>6 DEF Storing, At
  <2>2. QED
    BY <1>1, <1>2, <1>6, <2>1 DEF Stored
<1>7. CASE pc[p] = "persist"
  BY <1>1, <1>2, <1>7 DEF Storing, At, Stored
<1>8. pc[p] \in {"unledger", "rezero", "ack", "ledger", "persist"}
  BY <1>1 DEF Storing, At
<1>9. QED
  BY <1>3, <1>4, <1>5, <1>6, <1>7, <1>8

LEMMA TypeStep ==
  ASSUME TypeOK, Cursors, NEW p \in Procs, Step(p)
  PROVE  TypeOK'
<1> USE DEF clientVars, procVars, netVars, gameVars, histVars
<1> DEFINE Files == mem' \in [SlotKeys -> Entries] /\ disk' \in [SlotKeys -> Entries]
           Control == pc' \in [Procs -> Labels] /\ loc' \in [Procs -> Locals]
<1>a. /\ Mark \in 0..NItems /\ \A k \in Kinds : Granted(k) \in Nat
      /\ AfterApply(p) \in Labels /\ loc[p] \in Locals
      /\ loc[p].idx \in 0..NItems /\ loc[p].kind \in Kinds
      /\ loc[p].target \in [Kinds -> Nat] /\ loc[p].delta \in Nat /\ loc[p].cur \in Int
  BY KeyTyped, AfterApplyTyped DEF TypeOK, Locals
<1>b. CASE EnterOffline(p)
  <2>1. Control
    BY <1>a, <1>b, TypeLeave DEF EnterOffline
  <2>2. QED
    BY <1>b, <2>1 DEF EnterOffline, TypeOK
<1>c. CASE Hold(p)
  <2>1. Control
    BY <1>a, <1>c, TypeLeave DEF Hold
  <2>2. waitTicks' \in 0..WaitMax
    BY <1>c, Numbers DEF Hold, Holding, TypeOK
  <2>3. QED
    BY <1>c, <2>1, <2>2 DEF Hold, TypeOK
<1>d. CASE Enter(p)
  BY <1>a, <1>d, TypeGoto DEF Enter, TypeOK, Labels
<1>e. CASE NotFresh(p)
  <2>1. Control
    BY <1>a, <1>e, TypeBegin DEF NotFresh
  <2>2. freshDone' \in BOOLEAN
    BY <1>e DEF NotFresh, TypeOK
  <2>3. QED
    BY <1>e, <2>1, <2>2 DEF NotFresh, TypeOK
<1>f. CASE FreshDetected(p)
  BY <1>f, TypeGoto DEF FreshDetected, TypeOK, Labels
<1>g. CASE Baseline(p)
  <2>1. book' \in [Books -> [cash : [Kinds -> Int], base : [Kinds -> Int], net : [Kinds -> Int]]]
    <3>1. CASE StartMoney # NoStart /\ Resolved
      <4>1. park \in Books
        BY <3>1 DEF Resolved, TypeOK
      <4> DEFINE c == [book[park].cash EXCEPT !["cash"] = StartMoney]
                 b == [book[park].base EXCEPT !["cash"] = StartMoney]
                 n == [book[park].net EXCEPT !["cash"] = 0]
      <4>2. c \in [Kinds -> Int] /\ b \in [Kinds -> Int] /\ n \in [Kinds -> Int]
        BY <3>1, <4>1, Numbers, Sums DEF TypeOK
      <4>3. book' = [book EXCEPT ![park] = [book[park] EXCEPT !.cash = c, !.base = b, !.net = n]]
        <5>1. book' = [book EXCEPT ![park].cash["cash"] = StartMoney,
                                   ![park].base["cash"] = StartMoney,
                                   ![park].net["cash"]  = 0]
          BY <1>g, <3>1 DEF Baseline
        <5>2. book \in [Books -> [cash : [Kinds -> Int], base : [Kinds -> Int],
                                 net : [Kinds -> Int]]]
          BY DEF TypeOK
        <5>3. book[park] \in [cash : [Kinds -> Int], base : [Kinds -> Int], net : [Kinds -> Int]]
          BY <4>1, <5>2
        <5>4. QED
          BY <4>1, <5>1, <5>2, <5>3
      <4> HIDE DEF c, b, n
      <4>4. QED
        BY <4>1, <4>2, <4>3 DEF TypeOK
    <3>2. CASE ~(StartMoney # NoStart /\ Resolved)
      BY <1>g, <3>2 DEF Baseline, TypeOK
    <3>3. QED
      BY <3>1, <3>2
  <2>2. pc' \in [Procs -> Labels] /\ ledgerFor' \in BOOLEAN
    BY <1>g, TypeGoto DEF Baseline, TypeOK, Labels
  <2>3. QED
    BY <1>g, <2>1, <2>2 DEF Baseline, TypeOK
<1>h. CASE Unledger(p)
  <2>1. Control
    BY <1>a, <1>h, TypeBegin, TypeGoto DEF Unledger, TypeOK, Labels
  <2>2. Files
    BY <1>h, TypeResetGranted, PersistedStored DEF Unledger
  <2>3. ledgerFor' \in BOOLEAN
    BY <1>h DEF Unledger, TypeOK
  <2>4. QED
    BY <1>h, <2>1, <2>2, <2>3 DEF Unledger, TypeOK
<1>i. CASE Rezero(p)
  <2>1. Control /\ Files
    BY <1>i, TypeBegin, TypeSetMark, PersistedStored, Numbers DEF Rezero
  <2>2. QED
    BY <1>i, <2>1 DEF Rezero, TypeOK
<1>j. CASE ItemGone(p)
  <2>1. Control
    BY <1>a, <1>j, TypeLeave DEF ItemGone
  <2>2. QED
    BY <1>j, <2>1 DEF ItemGone, TypeOK
<1>k. CASE SkipUnknown(p) \/ ApplyItem(p)
  <2>1. loc[p].idx + 1 \in 1..NItems
    BY <1>a, <1>k, Numbers DEF SkipUnknown, ApplyItem, TypeOK
  <2>2. pc' \in [Procs -> Labels]
    BY <1>k, TypeGoto DEF SkipUnknown, ApplyItem, Labels
  <2>3. QED
    BY <1>k, <2>1, <2>2 DEF SkipUnknown, ApplyItem, TypeOK
<1>l. CASE GateMoves(p)
  BY <1>l, GateApart, GateTyped DEF TypeOK
<1>m. CASE AckItem(p)
  <2>1. loc[p].idx + 1 \in 0..NItems
    BY <1>a, <1>m, Numbers DEF AckItem, At, Cursors, Acking, TypeOK, Locals
  <2>2. loc' = [loc EXCEPT ![p] = [loc[p] EXCEPT !.idx = loc[p].idx + 1]]
    BY <1>m DEF AckItem, TypeOK, Locals
  <2>3. Control /\ Files
    <3>1. Files
      BY <1>m, <2>1, TypeSetMark, PersistedStored DEF AckItem
    <3>2. [loc[p] EXCEPT !.idx = loc[p].idx + 1] \in Locals
      BY <1>a, <2>1, LocalsExcept
    <3>3. pc' \in [Procs -> Labels]
      BY <1>m, TypeGoto DEF AckItem, Labels
    <3>4. QED
      BY <2>2, <3>1, <3>2, <3>3 DEF TypeOK
  <2>4. QED
    BY <1>m, <2>3 DEF AckItem, TypeOK
<1>n. CASE PauseItem(p) \/ ItemsDone(p)
  <2>1. gate' \in Gates
    <3>1. \A i : {i} \cap Permits(rcvd) \in SUBSET (1..NItems)
      BY Numbers DEF TypeOK, Permits
    <3>2. QED
      BY <1>n, <3>1 DEF PauseItem, ItemsDone, TypeOK, Gates
  <2>2. QED
    BY <1>n, <2>1, TypeGoto DEF PauseItem, ItemsDone, TypeOK, Labels
<1>o. CASE Targets(p)
  <2>1. [k \in Kinds |-> Owed[k][rcvd]] \in [Kinds -> Nat]
    BY Sums DEF TypeOK
  <2>2. loc' = [loc EXCEPT ![p] = [loc[p] EXCEPT !.target = [k \in Kinds |-> Owed[k][rcvd]],
                                                 !.todo = Kinds]]
    BY <1>o DEF Targets, TypeOK, Locals
  <2>3. Control
    <3>1. [loc[p] EXCEPT !.target = [k \in Kinds |-> Owed[k][rcvd]], !.todo = Kinds] \in Locals
      BY <1>a, <2>1, LocalsExcept
    <3>2. pc' \in [Procs -> Labels]
      BY <1>o, TypeGoto DEF Targets, Labels
    <3>3. QED
      BY <2>2, <3>1, <3>2 DEF TypeOK
  <2>4. QED
    BY <1>o, <2>3 DEF Targets, TypeOK
<1>p. CASE AdoptTarget(p) \/ NothingMissing(p)
  <2>1. PICK k \in Kinds : loc' = [loc EXCEPT ![p].todo = @ \ {k}]
    BY <1>a, <1>p DEF AdoptTarget, NothingMissing, Locals
  <2>2. loc' = [loc EXCEPT ![p] = [loc[p] EXCEPT !.todo = @ \ {k}]]
    BY <2>1 DEF TypeOK, Locals
  <2>3. Control
    BY <1>a, <1>p, <2>2, LocalsExcept DEF AdoptTarget, NothingMissing, TypeOK
  <2>4. Files
    BY <1>a, <1>p, TypeSetGranted, PersistedStored DEF AdoptTarget, NothingMissing, TypeOK, Locals
  <2>5. QED
    BY <1>p, <2>3, <2>4 DEF AdoptTarget, NothingMissing, TypeOK
<1>q. CASE Missing(p)
  <2>1. PICK k \in loc[p].todo :
          /\ loc[p].target[k] > Granted(k)
          /\ loc' = [loc EXCEPT ![p].kind = k, ![p].todo = @ \ {k},
                                ![p].delta = loc[p].target[k] - Granted(k)]
    BY <1>q DEF Missing
  <2>2. k \in Kinds
    BY <1>a DEF Locals
  <2>3. loc[p].target[k] - Granted(k) \in Nat
    BY <1>a, <2>1, <2>2
  <2>4. loc' = [loc EXCEPT ![p] = [loc[p] EXCEPT !.kind = k, !.todo = @ \ {k},
                                     !.delta = loc[p].target[k] - Granted(k)]]
    BY <2>1 DEF TypeOK, Locals
  <2>5. Control
    BY <1>a, <1>q, <2>2, <2>3, <2>4, LocalsExcept, TypeGoto DEF Missing, TypeOK, Labels
  <2>6. QED
    BY <1>q, <2>5 DEF Missing, TypeOK
<1>r. CASE ReadBalance(p)
  <2>1. CASE Resolved
    <3>1. Cash(loc[p].kind) \in Int
      BY <1>a, <2>1 DEF Cash, Resolved, TypeOK
    <3>2. loc' = [loc EXCEPT ![p] = [loc[p] EXCEPT !.cur = Cash(loc[p].kind)]]
      BY <1>r, <2>1 DEF ReadBalance, TypeOK, Locals
    <3>3. Control
      BY <1>a, <1>r, <2>1, <3>1, <3>2, LocalsExcept, TypeGoto DEF ReadBalance, TypeOK, Labels
    <3>4. QED
      BY <1>r, <3>3 DEF ReadBalance, TypeOK
  <2>2. CASE ~Resolved
    BY <1>r, <2>2, TypeGoto DEF ReadBalance, TypeOK, Labels
  <2>3. QED
    BY <2>1, <2>2
<1>s. CASE WriteBalance(p)
  <2>1. book' \in [Books -> [cash : [Kinds -> Int], base : [Kinds -> Int], net : [Kinds -> Int]]]
    <3>1. loc[p].cur + loc[p].delta \in Int
      BY <1>a
    <3> DEFINE c == loc[p].cur + loc[p].delta
               k == loc[p].kind
    <3>2. CASE Resolved
      <4>1. park \in Books
        BY <3>2 DEF Resolved, TypeOK
      <4>2. book' = [book EXCEPT ![park].cash[k] = c]
        BY <1>s, <3>2 DEF WriteBalance
      <4>3. k \in Kinds /\ c \in Int
        BY <1>a, <3>1
      <4> HIDE DEF c, k
      <4>4. QED
        BY <4>1, <4>2, <4>3 DEF TypeOK
    <3>3. CASE ~Resolved
      BY <1>s, <3>3 DEF WriteBalance, TypeOK
    <3>4. QED
      BY <3>2, <3>3
  <2>2. pc' \in [Procs -> Labels]
    BY <1>s, TypeGoto DEF WriteBalance, Labels
  <2>3. QED
    BY <1>s, <2>1, <2>2 DEF WriteBalance, TypeOK
<1>t. CASE PersistGrant(p)
  <2>1. Files
    BY <1>a, <1>t, TypeSetGranted, PersistedStored DEF PersistGrant
  <2>2. pc' \in [Procs -> Labels]
    BY <1>t, TypeGoto DEF PersistGrant, Labels
  <2>3. QED
    BY <1>t, <2>1, <2>2 DEF PersistGrant, TypeOK
<1>u. CASE LedgerDone(p)
  <2>1. Control
    BY <1>u, TypeLeave DEF LedgerDone, Labels
  <2>2. QED
    BY <1>u, <2>1 DEF LedgerDone, TypeOK
<1>v. CASE SaveFails(p)
  <2>1. mem' \in [SlotKeys -> Entries]
    <3>1. \A n \in 0..NItems : Stored([mem EXCEPT ![Key].mark = n]) => mem' \in [SlotKeys -> Entries]
      BY TypeSetMark
    <3>2. pc[p] = "ack" => loc[p].idx + 1 \in 0..NItems
      BY <1>a, Numbers DEF Cursors, Acking, TypeOK, Locals
    <3>3. \A k \in Kinds, n \in Nat :
            Stored([mem EXCEPT ![Key].granted[k] = n]) => mem' \in [SlotKeys -> Entries]
      BY TypeSetGranted
    <3>4. CASE Stored([mem EXCEPT ![Key].granted = NoMoney])
      BY <3>4, TypeResetGranted
    <3>5. CASE Stored([mem EXCEPT ![Key].mark = 0])
      BY <3>1, <3>5, Numbers
    <3>6. CASE pc[p] = "ack" /\ Stored([mem EXCEPT ![Key].mark = loc[p].idx + 1])
      BY <3>1, <3>2, <3>6
    <3>7. CASE \E k \in Kinds : Stored([mem EXCEPT ![Key].granted[k] = loc[p].target[k]])
      <4>1. PICK k \in Kinds : Stored([mem EXCEPT ![Key].granted[k] = loc[p].target[k]])
        BY <3>7
      <4>2. loc[p].target[k] \in Nat
        BY <1>a
      <4>3. QED
        BY <3>3, <4>1, <4>2
    <3>8. QED
      BY <1>v, <3>4, <3>5, <3>6, <3>7, SaveFailsStores
  <2>2. Control
    BY <1>a, <1>v, TypeLeave DEF SaveFails
  <2>3. ledgerFor' \in BOOLEAN
    BY <1>v DEF SaveFails, TypeOK
  <2>4. QED
    BY <1>v, <2>1, <2>2, <2>3 DEF SaveFails, TypeOK
<1>w. QED
  BY <1>b, <1>c, <1>d, <1>e, <1>f, <1>g, <1>h, <1>i, <1>j, <1>k, <1>l, <1>m, <1>n, <1>o,
     <1>p, <1>q, <1>r, <1>s, <1>t, <1>u, <1>v DEF Step, GateMoves

LEMMA TypeElsewhere ==
  ASSUME TypeOK,
         Connect \/ LoadAdopt \/ ReceiveItems \/ Disconnect \/ Crash \/ Tick \/ Environment
  PROVE  TypeOK'
<1> USE DEF clientVars, procVars, netVars, gameVars, histVars
<1> DEFINE Counts == [connects : Nat, saves : Nat, loads : Nat, moves : Nat, outages : Nat]
           Accounts == [cash : [Kinds -> Int], base : [Kinds -> Int], net : [Kinds -> Int]]
<1>1. CASE Connect
  <2>1. pc' \in [Procs -> Labels]
    BY <1>1 DEF Connect, Goto, TypeOK, Labels
  <2>2. used' \in Counts
    BY <1>1 DEF Connect, TypeOK
  <2>3. QED
    BY <1>1, <2>1, <2>2 DEF Connect, TypeOK
<1>2. CASE LoadAdopt
  <2>1. pc' \in [Procs -> Labels]
    BY <1>2 DEF LoadAdopt, Goto, TypeOK, Labels
  <2>2. loaded' \in [SlotKeys -> Entries]
    BY <1>2, Numbers DEF LoadAdopt, NoState, NoEntry, NoMoney, Entries
  <2>3. QED
    BY <1>2, <2>1, <2>2 DEF LoadAdopt, TypeOK
<1>3. CASE ReceiveItems
  <2>1. pc' \in [Procs -> Labels]
    BY <1>3 DEF ReceiveItems, Goto, TypeOK, Labels
  <2>2. rcvd' \in 0..NItems
    BY <1>3, Numbers DEF ReceiveItems, TypeOK
  <2>3. QED
    BY <1>3, <2>1, <2>2 DEF ReceiveItems, TypeOK
<1>4. CASE Disconnect
  BY <1>4, Numbers DEF Disconnect, TypeOK
<1>5. CASE Crash
  <2>1. NoState \in [SlotKeys -> Entries] /\ NoLocals \in Locals
    BY Numbers, Sums DEF NoState, NoEntry, NoMoney, NoLocals, Entries, Locals
  <2>2. pc' \in [Procs -> Labels] /\ loc' \in [Procs -> Locals]
    BY <1>5, <2>1 DEF Crash, Labels
  <2>3. /\ initialApplied' \in 0..NItems \cup {NoMark} /\ waitTicks' \in 0..WaitMax
        /\ rcvd' \in 0..NItems /\ gate' \in Gates
    BY <1>5, Numbers DEF Crash, NoGate, Gates
  <2>4. QED
    BY <1>5, <2>1, <2>2, <2>3 DEF Crash, TypeOK
<1>6. CASE Tick
  BY <1>6 DEF Tick, Goto, TypeOK, Labels
<1>7. CASE Send
  BY <1>7, Numbers DEF Send, TypeOK
<1>8. CASE LoadPark
  <2>1. park' \in Books \cup {"none"} /\ used' \in Counts
    BY <1>8, EnvironmentAssumption DEF LoadPark, TypeOK, EnvironmentAssumption
  <2>2. QED
    BY <1>8, <2>1 DEF LoadPark, TypeOK
<1>9. CASE NewSave
  <2>1. NewBook(BakedCash) \in Accounts
    BY Numbers DEF NewBook, BakedCash, NoMoney
  <2>2. book' \in [Books -> Accounts]
    BY <1>9, <2>1 DEF NewSave, TypeOK
  <2>3. used' \in Counts
    BY <1>9 DEF NewSave, TypeOK
  <2>4. park' \in Books \cup {"none"} /\ ledgerFor' \in BOOLEAN
    BY <1>9 DEF NewSave, Books
  <2>5. QED
    BY <1>9, <2>2, <2>3, <2>4 DEF NewSave, TypeOK
<1>10. CASE AgeResolves \/ YearEnds \/ AnchorFound
  BY <1>10 DEF AgeResolves, YearEnds, AnchorFound, TypeOK
<1>11. CASE AnchorLost
  <2>1. used' \in Counts
    BY <1>11 DEF AnchorLost, TypeOK
  <2>2. QED
    BY <1>11, <2>1 DEF AnchorLost, TypeOK
<1>12. CASE PlayerMove
  <2>1. used' \in Counts
    BY <1>12, SMTT(30) DEF PlayerMove, TypeOK
  <2>2. PICK d \in Int : book' = [book EXCEPT !["ap"].cash["cash"] = @ + d,
                                            !["ap"].net["cash"]  = @ + d]
    BY <1>12, EnvironmentAssumption DEF PlayerMove, EnvironmentAssumption
  <2>3. book' \in [Books -> Accounts]
    <3>1. book["ap"] \in Accounts /\ "ap" \in Books
      BY DEF TypeOK, Books
    <3> DEFINE c == [book["ap"].cash EXCEPT !["cash"] = @ + d]
               n == [book["ap"].net EXCEPT !["cash"] = @ + d]
    <3>2. c \in [Kinds -> Int] /\ n \in [Kinds -> Int]
      BY <3>1, Sums
    <3>3. book' = [book EXCEPT !["ap"] = [book["ap"] EXCEPT !.cash = c, !.net = n]]
      BY <2>2, <3>1 DEF TypeOK
    <3> HIDE DEF c, n
    <3>4. [book["ap"] EXCEPT !.cash = c, !.net = n] \in Accounts
      BY <3>1, <3>2
    <3>5. QED
      BY <3>3, <3>4 DEF TypeOK
  <2>4. QED
    BY <1>12, <2>1, <2>3 DEF PlayerMove, TypeOK
<1>13. QED
  BY <1>1, <1>2, <1>3, <1>4, <1>5, <1>6, <1>7, <1>8, <1>9, <1>10, <1>11, <1>12
  DEF Environment

LEMMA TypeStutter == ASSUME TypeOK, UNCHANGED vars PROVE TypeOK'
BY DEF TypeOK, vars, clientVars, procVars, netVars, gameVars, histVars

-----------------------------------------------------------------------------
(* Marks and cursors.                                                      *)

\* A step of one thread leaves the other thread and the connection alone.
LEMMA StepLocal ==
  ASSUME TypeOK, NEW p \in Procs, Step(p)
  PROVE  /\ \A q \in Procs : q # p => pc'[q] = pc[q] /\ loc'[q] = loc[q]
         /\ UNCHANGED netVars
         /\ acked \subseteq acked'
<1> USE DEF TypeOK, procVars, histVars, Goto, Leave
<1>1. CASE EnterOffline(p) \/ Hold(p) \/ Enter(p) \/ FreshDetected(p) \/ Baseline(p)
  BY <1>1 DEF EnterOffline, Hold, Enter, FreshDetected, Baseline
<1>2. CASE NotFresh(p) \/ Unledger(p) \/ Rezero(p)
  BY <1>2 DEF NotFresh, Unledger, Rezero, BeginItems
<1>3. CASE ItemGone(p) \/ SkipUnknown(p) \/ ApplyItem(p) \/ AckItem(p)
  BY <1>3 DEF ItemGone, SkipUnknown, ApplyItem, AckItem
<1>4. CASE PauseItem(p) \/ ItemsDone(p) \/ Targets(p)
  BY <1>4 DEF PauseItem, ItemsDone, Targets
<1>5. CASE AdoptTarget(p) \/ NothingMissing(p) \/ Missing(p)
  BY <1>5 DEF AdoptTarget, NothingMissing, Missing
<1>6. CASE ReadBalance(p) \/ WriteBalance(p) \/ PersistGrant(p)
  BY <1>6 DEF ReadBalance, WriteBalance, PersistGrant
<1>7. CASE LedgerDone(p) \/ SaveFails(p)
  BY <1>7 DEF LedgerDone, SaveFails
<1>8. CASE GateMoves(p)
  <2>1. acked \subseteq acked'
    BY <1>8 DEF GateMoves, UnlockItem, ReadItems, SetUnlocked, BuildList, WriteList, Unlocked,
                Reconciled
  <2>2. QED
    BY <1>8, <2>1, GateApart DEF netVars
<1>9. QED
  BY <1>1, <1>2, <1>3, <1>4, <1>5, <1>6, <1>7, <1>8 DEF Step, GateMoves

\* Storing a mark all of whose items are acknowledged keeps every mark so.
LEMMA MarkStored ==
  ASSUME TypeOK, MarksBelow(mem), MarksBelow(disk), acked \subseteq acked',
         NEW n \in 0..NItems, 1..n \subseteq acked',
         Stored([mem EXCEPT ![Key].mark = n])
  PROVE  MarksBelow(mem)' /\ MarksBelow(disk)'
<1>1. disk' \in {mem', disk}
  BY DEF Stored
<1>2. \A s \in SlotKeys : mem'[s].mark \in {mem[s].mark, n}
  BY DEF TypeOK, Stored, Entries
<1>3. MarksBelow(mem)'
  BY <1>2 DEF MarksBelow
<1>4. QED
  BY <1>1, <1>3 DEF MarksBelow

\* Storing sums leaves the marks.
LEMMA MarksKept ==
  ASSUME TypeOK, MarksBelow(mem), MarksBelow(disk), acked \subseteq acked',
         NEW g, \/ Stored([mem EXCEPT ![Key].granted = g])
                \/ \E k \in Kinds : Stored([mem EXCEPT ![Key].granted[k] = g])
  PROVE  MarksBelow(mem)' /\ MarksBelow(disk)'
<1>1. \A s \in SlotKeys : mem'[s].mark = mem[s].mark
  <2>1. CASE Stored([mem EXCEPT ![Key].granted = g])
    BY <2>1 DEF TypeOK, Stored, Entries
  <2>2. CASE \E k \in Kinds : Stored([mem EXCEPT ![Key].granted[k] = g])
    BY <2>2 DEF TypeOK, Stored, Entries
  <2>3. QED
    BY <2>1, <2>2
<1>2. disk' \in {mem', disk}
  BY DEF Stored
<1>3. QED
  BY <1>1, <1>2 DEF MarksBelow

\* The cursor starts at the stored mark or below.
LEMMA CursorStarts ==
  ASSUME TypeOK, MarksBelow(mem), acked \subseteq acked', NEW p \in Procs,
         BeginItems(p, Mark) \/ BeginItems(p, 0)
  PROVE  pc'[p] = "item" /\ 1..loc'[p].idx \subseteq acked'
<1>1. 1..Mark \subseteq acked /\ Mark \in Nat /\ rcvd \in Nat
  BY Numbers DEF TypeOK, MarksBelow, Mark, Key, SlotKeys, Entries
<1>2. loc'[p].idx \in {Min2(Mark, rcvd), Min2(0, rcvd)} /\ pc'[p] = "item"
  BY DEF TypeOK, BeginItems, Goto, Locals
<1>3. \A i \in 1..loc'[p].idx : i \in 1..Mark
  BY <1>1, <1>2 DEF Min2
<1>4. QED
  BY <1>1, <1>2, <1>3

LEMMA MarksStep ==
  ASSUME TypeOK, Cursors, Marks, NEW p \in Procs, Step(p)
  PROVE  Cursors' /\ Marks'
<1> DEFINE Files == MarksBelow(mem)' /\ MarksBelow(disk)'
           Mine  == /\ pc'[p] = "item" \/ Acking(p)' => 1..loc'[p].idx \subseteq acked'
                    /\ pc'[p] = "ack" => loc'[p].idx + 1 \in acked'
                    /\ Acking(p)' => loc'[p].idx < loc'[p].end
                    /\ pc'[p] = "set" => loc'[p].back # "ack"
<1>a. /\ \A q \in Procs : q # p => pc'[q] = pc[q] /\ loc'[q] = loc[q]
      /\ UNCHANGED netVars
      /\ acked \subseteq acked'
  BY StepLocal
<1>b. Files /\ Mine => Cursors' /\ Marks'
  BY <1>a DEF Cursors, Marks, MarksBelow, CursorsBelow, Acking, netVars
<1>c. ASSUME UNCHANGED <<mem, disk>> PROVE Files
  BY <1>a, <1>c DEF Marks, MarksBelow
<1>d. ASSUME NEW l \in Labels \ {"item", "ack", "set", "build", "list"}, Goto(p, l) PROVE Mine
  BY <1>d DEF Goto, Acking, TypeOK
<1>1. CASE \/ EnterOffline(p) \/ Hold(p) \/ Enter(p) \/ FreshDetected(p) \/ Baseline(p)
           \/ ItemGone(p) \/ PauseItem(p) \/ ItemsDone(p) \/ Targets(p) \/ Missing(p)
           \/ ReadBalance(p) \/ WriteBalance(p) \/ LedgerDone(p)
  <2>1. UNCHANGED <<mem, disk>>
    BY <1>1 DEF EnterOffline, Hold, Enter, FreshDetected, Baseline, ItemGone, PauseItem,
                ItemsDone, Targets, Missing, ReadBalance, WriteBalance, LedgerDone,
                clientVars
  <2>2. \E l \in Labels \ {"item", "ack", "set", "build", "list"} : Goto(p, l)
    BY <1>1 DEF EnterOffline, Hold, Enter, FreshDetected, Baseline, ItemGone, PauseItem,
                ItemsDone, Targets, Missing, ReadBalance, WriteBalance, LedgerDone,
                Leave, AfterApply, Labels
  <2>3. QED
    BY <1>b, <1>c, <1>d, <2>1, <2>2
<1>2. CASE NotFresh(p)
  BY <1>a, <1>b, <1>c, <1>2, CursorStarts DEF NotFresh, Marks, Acking
<1>3. CASE Unledger(p)
  <2>1. Files
    BY <1>a, <1>3, MarksKept, PersistedStored DEF Unledger, Marks
  <2>2. Mine
    BY <1>a, <1>d, <1>3, CursorStarts DEF Unledger, Marks, Labels, Acking
  <2>3. QED
    BY <1>b, <2>1, <2>2
<1>4. CASE Rezero(p)
  <2>1. Files
    BY <1>a, <1>4, MarkStored, PersistedStored, Numbers DEF Rezero, Marks
  <2>2. Mine
    BY <1>a, <1>4, CursorStarts DEF Rezero, Marks, Acking
  <2>3. QED
    BY <1>b, <2>1, <2>2
<1>5. CASE AckItem(p) \/ SaveFails(p)
  <2> DEFINE n == loc[p].idx + 1
  <2>1. pc[p] = "ack" => n \in 1..NItems /\ loc[p].idx \in Nat /\ 1..n \subseteq acked'
    <3>1. pc[p] = "ack" => n \in 1..NItems /\ loc[p].idx \in Nat
      BY Numbers DEF Cursors, Acking, TypeOK, Locals
    <3>2. pc[p] = "ack" => 1..loc[p].idx \subseteq acked /\ n \in acked
      BY DEF Marks, CursorsBelow, Acking
    <3>3. QED
      BY <1>a, <3>1, <3>2
  <2>2. CASE AckItem(p)
    <3>1. pc[p] = "ack" /\ Persisted([mem EXCEPT ![Key].mark = n])
      BY <2>2 DEF AckItem, At
    <3>2. Files
      BY <1>a, <2>1, <3>1, MarkStored, PersistedStored, Numbers DEF Marks
    <3>3. loc'[p].idx = n /\ pc'[p] = "item"
      BY <2>2 DEF AckItem, Goto, TypeOK, Locals
    <3>4. QED
      BY <1>b, <2>1, <3>1, <3>2, <3>3 DEF Acking
  <2>3. CASE SaveFails(p)
    <3>1. Files
      <4>1. CASE Stored([mem EXCEPT ![Key].mark = 0])
        BY <1>a, <4>1, MarkStored, Numbers DEF Marks
      <4>2. CASE pc[p] = "ack" /\ Stored([mem EXCEPT ![Key].mark = n])
        BY <1>a, <2>1, <4>2, MarkStored, Numbers DEF Marks
      <4>3. CASE \/ Stored([mem EXCEPT ![Key].granted = NoMoney])
                 \/ \E k \in Kinds : Stored([mem EXCEPT ![Key].granted[k] = loc[p].target[k]])
        BY <1>a, <4>3, MarksKept DEF Marks
      <4>4. QED
        BY <2>3, <4>1, <4>2, <4>3, SaveFailsStores
    <3>2. Mine
      BY <1>d, <2>3 DEF SaveFails, Leave, AfterApply, Labels
    <3>3. QED
      BY <1>b, <3>1, <3>2
  <2>4. QED
    BY <1>5, <2>2, <2>3
<1>6. CASE SkipUnknown(p) \/ ApplyItem(p)
  <2>1. Files
    BY <1>c, <1>6 DEF SkipUnknown, ApplyItem, clientVars
  <2>2. Mine
    BY <1>6 DEF SkipUnknown, ApplyItem, AtItem, At, Goto, TypeOK, Marks, CursorsBelow, Acking
  <2>3. QED
    BY <1>b, <2>1, <2>2
<1>7. CASE GateMoves(p)
  <2>1. Files
    BY <1>c, <1>7, GateApart
  <2>2. pc \in [Procs -> Labels] /\ loc \in [Procs -> Locals] /\ loc[p] \in Locals
    BY DEF TypeOK
  <2>3. CASE UnlockItem(p)
    <3>1. /\ loc'[p].back = "ack" /\ loc'[p].idx = loc[p].idx /\ loc'[p].end = loc[p].end
          /\ pc[p] = "item" /\ pc'[p] = "build" /\ loc[p].idx < loc[p].end
      BY <2>2, <2>3 DEF UnlockItem, AtItem, At, Goto, Locals
    <3>2. QED
      BY <1>a, <1>b, <2>1, <3>1 DEF Marks, CursorsBelow, Acking
  <2>4. CASE ReadItems(p)
    <3>1. pc'[p] = "set" /\ loc'[p].back # "ack"
      BY <2>2, <2>4 DEF ReadItems, Goto, AfterApply, Locals
    <3>2. QED
      BY <1>b, <2>1, <3>1 DEF Acking
  <2>5. CASE SetUnlocked(p)
    <3>1. pc[p] = "set" /\ loc[p].back # "ack"
      BY <2>5 DEF SetUnlocked, At, Cursors
    <3>2. CASE Hooked
      <4>1. pc'[p] = "build" /\ loc'[p].back = loc[p].back
        BY <2>2, <2>5, <3>2 DEF SetUnlocked, Goto, Locals
      <4>2. QED
        BY <1>b, <2>1, <3>1, <4>1 DEF Acking
    <3>3. CASE ~Hooked
      <4>1. pc'[p] \in {"idle", "resync"}
        BY <2>2, <2>5, <3>1, <3>3 DEF SetUnlocked, Leave, Goto, Locals
      <4>2. QED
        BY <1>b, <2>1, <4>1 DEF Acking
    <3>4. QED
      BY <3>2, <3>3
  <2>6. CASE BuildList(p) \/ WriteList(p)
    <3>1. /\ loc'[p].back = loc[p].back /\ loc'[p].idx = loc[p].idx /\ loc'[p].end = loc[p].end
          /\ pc[p] \in {"build", "list"} /\ pc'[p] \in {"build", "list"}
      <4>1. CASE BuildList(p)
        BY <2>2, <4>1 DEF BuildList, At, Goto, Locals
      <4>2. CASE WriteList(p)
        BY <2>2, <4>2 DEF WriteList, At, Goto
      <4>3. QED
        BY <2>6, <4>1, <4>2
    <3>2. QED
      BY <1>a, <1>b, <2>1, <3>1 DEF Marks, CursorsBelow, Cursors, Acking
  <2>7. CASE Unlocked(p)
    <3>1. /\ pc[p] = "build" /\ loc[p].back = "ack" /\ pc'[p] = "ack" /\ loc' = loc
          /\ loc[p].idx + 1 \in acked'
      BY <2>2, <2>7 DEF Unlocked, At, Goto
    <3>2. QED
      BY <1>a, <1>b, <2>1, <3>1 DEF Marks, CursorsBelow, Cursors, Acking
  <2>8. CASE Reconciled(p)
    <3>1. pc'[p] \in {"idle", "resync"}
      BY <2>2, <2>8 DEF Reconciled, Leave, Goto, Locals
    <3>2. QED
      BY <1>b, <2>1, <3>1 DEF Acking
  <2>9. QED
    BY <1>7, <2>3, <2>4, <2>5, <2>6, <2>7, <2>8 DEF GateMoves
<1>8. CASE AdoptTarget(p) \/ NothingMissing(p) \/ PersistGrant(p)
  <2>1. Files
    <3>1. CASE NothingMissing(p)
      BY <1>c, <3>1 DEF NothingMissing, clientVars
    <3>2. CASE AdoptTarget(p)
      BY <1>a, <3>2, MarksKept, PersistedStored DEF AdoptTarget, Marks, TypeOK, Locals
    <3>3. CASE PersistGrant(p)
      BY <1>a, <3>3, MarksKept, PersistedStored DEF PersistGrant, Marks, TypeOK, Locals
    <3>4. QED
      BY <1>8, <3>1, <3>2, <3>3
  <2>2. Mine
    BY <1>8 DEF AdoptTarget, NothingMissing, PersistGrant, At, Goto, TypeOK, Acking
  <2>3. QED
    BY <1>b, <2>1, <2>2
<1>9. QED
  BY <1>1, <1>2, <1>3, <1>4, <1>5, <1>6, <1>8, <1>7 DEF Step, GateMoves

LEMMA MarksElsewhere ==
  ASSUME TypeOK, Cursors, Marks,
         Connect \/ LoadAdopt \/ ReceiveItems \/ Disconnect \/ Crash \/ Tick \/ Environment
  PROVE  Cursors' /\ Marks'
<1> USE DEF clientVars, procVars, netVars, histVars
<1>1. CASE Connect
  <2>1. \A q \in Procs : loc'[q] = loc[q] /\ (pc'[q] = pc[q] \/ pc'[q] = "adopt")
    BY <1>1 DEF Connect, Goto, TypeOK
  <2>2. QED
    BY <1>1, <2>1 DEF Connect, Cursors, Marks, MarksBelow, CursorsBelow, Acking
<1>2. CASE LoadAdopt
  <2>1. \A q \in Procs : loc'[q] = loc[q] /\ (pc'[q] = pc[q] \/ pc'[q] = "enter")
    BY <1>2 DEF LoadAdopt, Goto, TypeOK
  <2>2. \A s \in SlotKeys : loaded'[s].mark = 0
    BY <1>2 DEF LoadAdopt, NoState, NoEntry
  <2>3. QED
    BY <1>2, <2>1, <2>2 DEF LoadAdopt, Cursors, Marks, MarksBelow, CursorsBelow, Acking
<1>3. CASE ReceiveItems
  <2>1. \A q \in Procs : loc'[q] = loc[q] /\ (pc'[q] = pc[q] \/ pc'[q] = "enter")
    BY <1>3 DEF ReceiveItems, Goto, TypeOK
  <2>2. rcvd' <= sent'
    BY <1>3 DEF ReceiveItems, TypeOK
  <2>3. QED
    BY <1>3, <2>1, <2>2 DEF ReceiveItems, Cursors, Marks, MarksBelow, CursorsBelow, Acking
<1>4. CASE Disconnect
  BY <1>4, Numbers DEF Disconnect, TypeOK, Cursors, Marks, MarksBelow, CursorsBelow, Acking
<1>5. CASE Crash
  <2>1. \A s \in SlotKeys : mem'[s].mark = 0 /\ loaded'[s].mark = 0
    BY <1>5 DEF Crash, NoState, NoEntry
  <2>2. \A q \in Procs : pc'[q] = "idle"
    BY <1>5 DEF Crash
  <2>3. rcvd' <= sent'
    BY <1>5 DEF Crash, TypeOK
  <2>4. QED
    BY <1>5, <2>1, <2>2, <2>3 DEF Crash, Cursors, Marks, MarksBelow, CursorsBelow, Acking
<1>6. CASE Tick
  <2>1. \A q \in Procs : loc'[q] = loc[q] /\ (pc'[q] = pc[q] \/ pc'[q] = "enter")
    BY <1>6 DEF Tick, Goto, TypeOK
  <2>2. QED
    BY <1>6, <2>1 DEF Tick, Cursors, Marks, MarksBelow, CursorsBelow, Acking
<1>7. CASE Environment
  <2>1. UNCHANGED <<mem, disk, loaded, pc, loc, acked, rcvd>> /\ sent' >= sent
    BY <1>7 DEF Environment, Send, LoadPark, NewSave, AgeResolves, YearEnds, AnchorLost,
                AnchorFound, PlayerMove, TypeOK
  <2>2. Cursors'
    BY <2>1, TypeElsewhere, <1>7 DEF TypeOK, Cursors, Acking
  <2>3. Marks'
    BY <2>1 DEF Marks, MarksBelow, CursorsBelow, Acking
  <2>4. QED
    BY <2>2, <2>3
<1>8. QED
  BY <1>1, <1>2, <1>3, <1>4, <1>5, <1>6, <1>7

-----------------------------------------------------------------------------
(* Ledgers.                                                                *)

\* Received items are worth no more than the sent ones.
LEMMA ReceivedWithinSent ==
  ASSUME TypeOK, Cursors
  PROVE  \A k \in Kinds : 0 <= Owed[k][sent] /\ Owed[k][rcvd] <= Owed[k][sent]
BY Sums, Numbers DEF TypeOK, Cursors

LEMMA LedgerStored ==
  ASSUME TypeOK, Cursors, LedgerWithin(mem), LedgerWithin(disk), sent' = sent,
         NEW k \in Kinds, NEW n \in Nat, n <= Owed[k][sent],
         Stored([mem EXCEPT ![Key].granted[k] = n])
  PROVE  LedgerWithin(mem)' /\ LedgerWithin(disk)'
<1>1. disk' \in {mem', disk}
  BY DEF Stored
<1>2. \A s \in SlotKeys, j \in Kinds :
        \/ mem'[s].granted[j] = mem[s].granted[j]
        \/ j = k /\ mem'[s].granted[j] = n
  BY DEF Stored, TypeOK, Entries
<1>3. QED
  BY <1>1, <1>2 DEF LedgerWithin, WithinSent

LEMMA LedgerReset ==
  ASSUME TypeOK, Cursors, LedgerWithin(mem), LedgerWithin(disk), sent' = sent,
         Stored([mem EXCEPT ![Key].granted = NoMoney])
  PROVE  LedgerWithin(mem)' /\ LedgerWithin(disk)'
<1>1. disk' \in {mem', disk}
  BY DEF Stored
<1>2. \A s \in SlotKeys : mem'[s].granted \in {mem[s].granted, NoMoney}
  BY DEF Stored, TypeOK, Entries
<1>3. QED
  BY <1>1, <1>2, ReceivedWithinSent DEF LedgerWithin, WithinSent, NoMoney

LEMMA LedgerKept ==
  ASSUME TypeOK, LedgerWithin(mem), LedgerWithin(disk), sent' = sent,
         NEW n, Stored([mem EXCEPT ![Key].mark = n])
  PROVE  LedgerWithin(mem)' /\ LedgerWithin(disk)'
<1>1. disk' \in {mem', disk}
  BY DEF Stored
<1>2. \A s \in SlotKeys : mem'[s].granted = mem[s].granted
  BY DEF Stored, TypeOK, Entries
<1>3. QED
  BY <1>1, <1>2 DEF LedgerWithin, WithinSent

LEMMA LedgersStep ==
  ASSUME TypeOK, Cursors, Ledgers, NEW p \in Procs, Step(p)
  PROVE  Ledgers'
<1> DEFINE Files == LedgerWithin(mem)' /\ LedgerWithin(disk)'
           Aim   == \A k \in Kinds : loc'[p].target[k] <= Owed[k][sent]
<1>a. (\A q \in Procs : q # p => loc'[q] = loc[q]) /\ UNCHANGED netVars
  BY StepLocal
<1>b. Files /\ Aim => Ledgers'
  BY <1>a DEF Ledgers, LedgerWithin, WithinSent, netVars
<1>c. ASSUME UNCHANGED <<mem, disk>> PROVE Files
  BY <1>a, <1>c DEF Ledgers, LedgerWithin, WithinSent, netVars
<1>d. ASSUME loc'[p] = loc[p] \/ loc'[p] = NoLocals \/ loc'[p].target = loc[p].target PROVE Aim
  BY <1>d, ReceivedWithinSent DEF Ledgers, WithinSent, NoLocals, NoMoney
<1>1. CASE \/ EnterOffline(p) \/ Hold(p) \/ Enter(p) \/ FreshDetected(p) \/ Baseline(p)
           \/ ItemGone(p) \/ PauseItem(p) \/ ItemsDone(p) \/ SkipUnknown(p)
           \/ ApplyItem(p) \/ WriteBalance(p) \/ LedgerDone(p)
  <2>1. UNCHANGED <<mem, disk>>
    BY <1>1 DEF EnterOffline, Hold, Enter, FreshDetected, Baseline, ItemGone, PauseItem,
                ItemsDone, SkipUnknown, ApplyItem, WriteBalance, LedgerDone, clientVars
  <2>2. loc'[p] = loc[p] \/ loc'[p] = NoLocals
    BY <1>1 DEF EnterOffline, Hold, Enter, FreshDetected, Baseline, ItemGone, PauseItem,
                ItemsDone, SkipUnknown, ApplyItem, WriteBalance, LedgerDone, Leave, TypeOK
  <2>3. QED
    BY <1>b, <1>c, <1>d, <2>1, <2>2
<1>2. CASE NotFresh(p)
  BY <1>b, <1>c, <1>d, <1>2 DEF NotFresh, BeginItems, TypeOK, Locals
<1>3. CASE Unledger(p)
  <2>1. Files
    BY <1>a, <1>3, LedgerReset, PersistedStored DEF Unledger, Ledgers, netVars
  <2>2. loc'[p].target = loc[p].target
    BY <1>3 DEF Unledger, BeginItems, TypeOK, Locals
  <2>3. QED
    BY <1>b, <1>d, <2>1, <2>2
<1>4. CASE Rezero(p) \/ AckItem(p)
  <2>1. Files
    BY <1>a, <1>4, LedgerKept, PersistedStored DEF Rezero, AckItem, Ledgers, netVars
  <2>2. loc'[p].target = loc[p].target
    BY <1>4 DEF Rezero, AckItem, BeginItems, TypeOK, Locals
  <2>3. QED
    BY <1>b, <1>d, <2>1, <2>2
<1>5. CASE Targets(p)
  <2>1. Files
    BY <1>c, <1>5 DEF Targets, clientVars
  <2>2. Aim
    BY <1>5, ReceivedWithinSent DEF Targets, TypeOK, Locals
  <2>3. QED
    BY <1>b, <2>1, <2>2
<1>6. CASE NothingMissing(p) \/ Missing(p) \/ ReadBalance(p)
  <2>1. Files
    BY <1>c, <1>6 DEF NothingMissing, Missing, ReadBalance, clientVars
  <2>2. loc'[p].target = loc[p].target
    <3>1. CASE NothingMissing(p)
      BY <3>1 DEF NothingMissing, TypeOK, Locals
    <3>2. CASE Missing(p)
      BY <3>2 DEF Missing, TypeOK, Locals
    <3>3. CASE ReadBalance(p)
      BY <3>3 DEF ReadBalance, TypeOK, Locals
    <3>4. QED
      BY <1>6, <3>1, <3>2, <3>3
  <2>3. QED
    BY <1>b, <1>d, <2>1, <2>2
<1>7. CASE AdoptTarget(p) \/ PersistGrant(p)
  <2>1. PICK k \in Kinds : Persisted([mem EXCEPT ![Key].granted[k] = loc[p].target[k]])
    BY <1>7 DEF AdoptTarget, PersistGrant, TypeOK, Locals
  <2>2. loc[p].target[k] \in Nat /\ loc[p].target[k] <= Owed[k][sent]
    BY DEF Ledgers, WithinSent, TypeOK, Locals
  <2>3. Files
    BY <1>a, <2>1, <2>2, LedgerStored, PersistedStored DEF Ledgers, netVars
  <2>4. loc'[p].target = loc[p].target
    <3>1. CASE AdoptTarget(p)
      BY <3>1 DEF AdoptTarget, TypeOK, Locals
    <3>2. CASE PersistGrant(p)
      BY <3>2 DEF PersistGrant
    <3>3. QED
      BY <1>7, <3>1, <3>2
  <2>5. QED
    BY <1>b, <1>d, <2>3, <2>4
<1>8. CASE GateMoves(p)
  BY <1>b, <1>c, <1>d, <1>8, GateApart
<1>9. CASE SaveFails(p)
  <2>1. \A k \in Kinds : loc[p].target[k] \in Nat /\ loc[p].target[k] <= Owed[k][sent]
    BY DEF Ledgers, WithinSent, TypeOK, Locals
  <2>2. Files
    <3>1. CASE Stored([mem EXCEPT ![Key].granted = NoMoney])
      BY <1>a, <3>1, LedgerReset DEF Ledgers, netVars
    <3>2. CASE \/ Stored([mem EXCEPT ![Key].mark = 0])
               \/ Stored([mem EXCEPT ![Key].mark = loc[p].idx + 1])
      BY <1>a, <3>2, LedgerKept DEF Ledgers, netVars
    <3>3. CASE \E k \in Kinds : Stored([mem EXCEPT ![Key].granted[k] = loc[p].target[k]])
      BY <1>a, <2>1, <3>3, LedgerStored DEF Ledgers, netVars
    <3>4. QED
      BY <1>9, <3>1, <3>2, <3>3, SaveFailsStores
  <2>3. loc'[p] = NoLocals
    BY <1>9 DEF SaveFails, Leave, TypeOK
  <2>4. QED
    BY <1>b, <1>d, <2>2, <2>3
<1>10. QED
  BY <1>1, <1>2, <1>3, <1>4, <1>5, <1>6, <1>7, <1>8, <1>9 DEF Step, GateMoves

LEMMA LedgersElsewhere ==
  ASSUME TypeOK, Cursors, Ledgers,
         Connect \/ LoadAdopt \/ ReceiveItems \/ Disconnect \/ Crash \/ Tick \/ Environment
  PROVE  Ledgers'
<1> USE DEF clientVars, procVars, netVars, histVars
<1>1. /\ mem' \in {mem, loaded, NoState} /\ disk' = disk
      /\ loaded' \in {loaded, disk, NoState}
      /\ \A q \in Procs : loc'[q] \in {loc[q], NoLocals}
  BY DEF Connect, LoadAdopt, ReceiveItems, Disconnect, Crash, Tick, Environment, Send,
         LoadPark, NewSave, AgeResolves, YearEnds, AnchorLost, AnchorFound, PlayerMove
<1>2. \A k \in Kinds : Owed[k][sent] <= Owed[k][sent'] /\ Owed[k][sent'] >= 0
  <2>1. sent' \in 0..NItems /\ sent <= sent'
    BY Numbers DEF Connect, LoadAdopt, ReceiveItems, Disconnect, Crash, Tick, Environment,
         Send, LoadPark, NewSave, AgeResolves, YearEnds, AnchorLost, AnchorFound, PlayerMove,
         TypeOK
  <2>2. QED
    BY <2>1, Sums DEF TypeOK
<1>3. \A g \in [Kinds -> Nat] : WithinSent(g) => \A k \in Kinds : g[k] <= Owed[k][sent']
  <2> SUFFICES ASSUME NEW g \in [Kinds -> Nat], WithinSent(g), NEW k \in Kinds
               PROVE  g[k] <= Owed[k][sent']
    OBVIOUS
  <2>1. sent' \in 0..NItems
    BY TypeElsewhere DEF TypeOK
  <2>2. g[k] \in Nat /\ Owed[k][sent] \in Nat /\ Owed[k][sent'] \in Nat
    BY <2>1, Sums DEF TypeOK
  <2>3. QED
    BY <1>2, <2>2 DEF WithinSent
<1>4. \A s \in SlotKeys : /\ mem[s].granted \in [Kinds -> Nat]
                          /\ disk[s].granted \in [Kinds -> Nat]
                          /\ loaded[s].granted \in [Kinds -> Nat]
  BY DEF TypeOK, Entries
<1>5. \A q \in Procs : loc[q].target \in [Kinds -> Nat]
  BY DEF TypeOK, Locals
<1>6. \A s \in SlotKeys, k \in Kinds :
        /\ mem'[s].granted[k] <= Owed[k][sent']
        /\ disk'[s].granted[k] <= Owed[k][sent']
        /\ loaded'[s].granted[k] <= Owed[k][sent']
  BY <1>1, <1>2, <1>3, <1>4 DEF Ledgers, LedgerWithin, NoState, NoEntry, NoMoney
<1>7. \A q \in Procs, k \in Kinds : loc'[q].target[k] <= Owed[k][sent']
  BY <1>1, <1>2, <1>3, <1>5 DEF Ledgers, NoLocals, NoMoney
<1>8. QED
  BY <1>6, <1>7 DEF Ledgers, LedgerWithin, WithinSent

-----------------------------------------------------------------------------
(* The theorems.                                                           *)

LEMMA Initially == Init => IInv
<1> SUFFICES ASSUME Init PROVE IInv
  OBVIOUS
<1>1. TypeOK
  BY TypeInit
<1>2. Cursors /\ Marks
  BY DEF Init, Cursors, Marks, MarksBelow, CursorsBelow, Acking, NoState, NoEntry
<1>3. Ledgers
  BY <1>1, <1>2, ReceivedWithinSent
  DEF Init, Ledgers, LedgerWithin, WithinSent, NoState, NoEntry, NoMoney, NoLocals
<1>4. QED
  BY <1>1, <1>2, <1>3 DEF IInv

LEMMA Inductive == IInv /\ [Next]_vars => IInv'
<1> SUFFICES ASSUME IInv, [Next]_vars PROVE IInv'
  OBVIOUS
<1> USE DEF IInv
<1>1. ASSUME NEW p \in Procs, Step(p) PROVE IInv'
  BY <1>1, TypeStep, MarksStep, LedgersStep
<1>2. CASE Connect \/ LoadAdopt \/ ReceiveItems \/ Disconnect \/ Crash \/ Tick \/ Environment
  BY <1>2, TypeElsewhere, MarksElsewhere, LedgersElsewhere
<1>3. CASE UNCHANGED vars
  <2>1. TypeOK'
    BY <1>3, TypeStutter
  <2>2. Cursors' /\ Marks' /\ Ledgers'
    BY <1>3 DEF vars, clientVars, procVars, netVars, gameVars, histVars, Cursors, Marks,
                MarksBelow, CursorsBelow, Acking, Ledgers, LedgerWithin, WithinSent
  <2>3. QED
    BY <2>1, <2>2
<1>4. QED
  BY <1>1, <1>2, <1>3 DEF Next

LEMMA AlwaysIInv == Spec => []IInv
BY Initially, Inductive, PTL DEF Spec

\* Types hold whatever the two threads, the server, the game, the player and
\* the crashes do (ClientState, PZContext).
THEOREM TypeCorrect == Spec => []TypeOK
BY AlwaysIInv, PTL DEF IInv

\* The high-water mark never moves past an item that was not applied, for any
\* item list, however the two threads, reconnects and crashes interleave and
\* whichever saves fail (_apply_new_items, ClientState.set).
THEOREM MarkIsAcknowledged == Spec => []MarkAcked
<1>1. IInv => MarkAcked
  BY DEF IInv, Marks, MarksBelow, MarkAcked
<1>2. QED
  BY AlwaysIInv, <1>1, PTL

\* No interleaving of the two threads, and no failing save, makes the ledger
\* claim more money than the server sent items for (_reconcile_cumulative, ClientState.set_granted).
THEOREM LedgerIsWithinSent == Spec => []LedgerWithinSent
<1>1. IInv => LedgerWithinSent
  BY DEF IInv, Ledgers, LedgerWithin, WithinSent, LedgerWithinSent
<1>2. QED
  BY AlwaysIInv, <1>1, PTL
-----------------------------------------------------------------------------
(* Crashes.  With one thread at a time, the player at rest meanwhile and   *)
(* saves that succeed, a pass that a crash cuts short leaves the park with *)
(* at least the money the file claims: balance first, ledger second.  A    *)
(* foreign park is left out, since a pass inside it is recorded for the    *)
(* AP save.                                                                *)

Careful == Races = {} /\ "foreign" \notin Parks

\* Only one thread is under way, and only while a slot is connected.
Serial == \A p, q \in Procs : pc[p] # "idle" /\ pc[q] # "idle" => p = q
Online == \A p \in Procs : pc[p] # "idle" => conn = "up"

\* Memory repeats the file from the moment a connection has adopted it.
Pages == /\ pc["worker"] # "adopt"
         /\ conn = "up" /\ pc["loop"] # "adopt" => mem = disk
         /\ pc["loop"] = "adopt" => loaded = disk

\* The AP park holds at least n of kind k, if the ledger is about this park.
Covered(k, n) == 0 <= Given("ap", k) /\ (ledgerFor => n <= Given("ap", k))
Accounts == /\ park # "foreign"
            /\ \A k \in Kinds : Covered(k, disk["slot"].granted[k])

\* What a thread carries from the ledger to the balance and back.
Due(p) ==
  /\ pc[p] \in {"read", "write"} =>
       loc[p].delta = loc[p].target[loc[p].kind] - mem["slot"].granted[loc[p].kind]
  /\ pc[p] = "write" => park = "ap" /\ loc[p].cur = book["ap"].cash[loc[p].kind]
  /\ pc[p] = "persist" => Covered(loc[p].kind, loc[p].target[loc[p].kind])

Sound == Serial /\ Online /\ Pages /\ Accounts /\ \A p \in Procs : Due(p)

\* Nothing starts, and the player does nothing, while a thread is under way.
LEMMA Rests == ASSUME Careful
               PROVE  /\ \A p \in Procs : MayStart(p) => Idle
                      /\ EnvMayAct => Idle
BY DEF Careful, MayStart, EnvMayAct, Overlap, PlayerRace

\* Nor does a save fail.
LEMMA Saves == ASSUME Careful, NEW p \in Procs PROVE ~SaveFails(p)
BY DEF Careful, SaveFails

LEMMA SoundStays ==
  ASSUME Sound, UNCHANGED <<mem, disk, loaded, pc, loc, conn, park, book, ledgerFor>>
  PROVE  Sound'
BY DEF Sound, Serial, Online, Pages, Accounts, Covered, Given, Due

\* A step of a thread is the only thing under way, on the entry of the slot.
LEMMA StepAlone ==
  ASSUME TypeOK, Sound, NEW p \in Procs, Step(p)
  PROVE  /\ Key = "slot" /\ Key' = "slot" /\ mem = disk
         /\ \A q \in Procs : q # p => pc'[q] = "idle"
         /\ Serial' /\ Online'
         /\ mem' = disk' => Pages'
<1>1. pc[p] \notin {"idle", "adopt"} /\ pc'[p] # "adopt"
  <2>1. CASE EnterOffline(p) \/ Hold(p) \/ Enter(p) \/ FreshDetected(p) \/ Baseline(p)
    BY <2>1 DEF EnterOffline, Hold, Enter, FreshDetected, Baseline, At, Goto, Leave,
                AfterApply, TypeOK
  <2>2. CASE NotFresh(p) \/ Unledger(p) \/ Rezero(p)
    BY <2>2 DEF NotFresh, Unledger, Rezero, BeginItems, At, Goto, TypeOK
  <2>3. CASE ItemGone(p) \/ SkipUnknown(p) \/ ApplyItem(p) \/ AckItem(p)
    BY <2>3 DEF ItemGone, SkipUnknown, ApplyItem, AckItem, AtItem, At, Goto, Leave,
                AfterApply, TypeOK
  <2>4. CASE PauseItem(p) \/ ItemsDone(p) \/ Targets(p) \/ AdoptTarget(p)
             \/ NothingMissing(p) \/ Missing(p)
    BY <2>4 DEF PauseItem, ItemsDone, Targets, AdoptTarget, NothingMissing, Missing,
                AtItem, At, Goto, TypeOK
  <2>5. CASE ReadBalance(p) \/ WriteBalance(p) \/ PersistGrant(p)
    BY <2>5 DEF ReadBalance, WriteBalance, PersistGrant, At, Goto, TypeOK
  <2>6. CASE LedgerDone(p) \/ SaveFails(p)
    BY <2>6 DEF LedgerDone, SaveFails, Storing, At, Goto, Leave, AfterApply, TypeOK
  <2>7. CASE GateMoves(p)
    BY <2>7, GateApart
  <2>8. QED
    BY <2>1, <2>2, <2>3, <2>4, <2>5, <2>6, <2>7 DEF Step, GateMoves
<1>2. conn = "up" /\ \A q \in Procs : q # p => pc[q] = "idle"
  BY <1>1 DEF Sound, Serial, Online
<1>3. UNCHANGED netVars /\ \A q \in Procs : q # p => pc'[q] = pc[q]
  BY StepLocal
<1>4. pc["loop"] # "adopt" /\ pc'["loop"] # "adopt" /\ pc'["worker"] # "adopt"
  BY <1>1, <1>2, <1>3 DEF Procs
<1>5. Serial' /\ Online'
  BY <1>2, <1>3 DEF Serial, Online, netVars
<1>6. QED
  BY <1>2, <1>3, <1>4, <1>5 DEF Key, Sound, Pages, netVars

\* A resolved write adds the delta to the balance the thread has read.
LEMMA BalanceWritten ==
  ASSUME TypeOK, NEW p \in Procs, Due(p), WriteBalance(p), Resolved
  PROVE  /\ \A j \in Kinds : Given("ap", j)' = IF j = loc[p].kind
                                               THEN Given("ap", j) + loc[p].delta
                                               ELSE Given("ap", j)
         /\ loc[p].delta = loc[p].target[loc[p].kind] - mem["slot"].granted[loc[p].kind]
         /\ pc'[p] = "persist"
<1> DEFINE k == loc[p].kind
<1>1. /\ park = "ap" /\ loc[p].cur = book["ap"].cash[k]
      /\ loc[p].delta = loc[p].target[k] - mem["slot"].granted[k]
      /\ k \in Kinds /\ loc[p].cur \in Int /\ loc[p].delta \in Int
  BY DEF WriteBalance, At, Due, TypeOK, Locals
<1>2. /\ book' = [book EXCEPT !["ap"].cash[k] = loc[p].cur + loc[p].delta]
      /\ pc'[p] = "persist"
  BY <1>1 DEF WriteBalance, Goto, TypeOK
<1>3. \A j \in Kinds : /\ book'["ap"].base[j] = book["ap"].base[j]
                       /\ book'["ap"].net[j] = book["ap"].net[j]
                       /\ book'["ap"].cash[j] = IF j = k THEN loc[p].cur + loc[p].delta
                                                        ELSE book["ap"].cash[j]
  BY <1>2 DEF TypeOK, Books
<1>4. \A j \in Kinds : /\ book["ap"].base[j] \in Int /\ book["ap"].net[j] \in Int
                       /\ book["ap"].cash[j] \in Int
  BY DEF TypeOK, Books
<1>5. QED
  BY <1>1, <1>2, <1>3, <1>4 DEF Given

LEMMA SoundStep ==
  ASSUME Careful, TypeOK, Sound, NEW p \in Procs, Step(p)
  PROVE  Sound'
<1> USE DEF clientVars, procVars, netVars, gameVars, histVars
<1> DEFINE Mine == mem' = disk' /\ Accounts' /\ Due(p)'
           Gone == pc'[p] \notin {"read", "write", "persist"}
<1>a. /\ Key = "slot" /\ mem = disk
      /\ \A q \in Procs : q # p => pc'[q] = "idle"
      /\ Serial' /\ Online' /\ (mem' = disk' => Pages')
  BY StepAlone
<1>b. Mine => Sound'
  <2> SUFFICES ASSUME Mine PROVE \A q \in Procs : Due(q)'
    BY <1>a DEF Sound
  <2>1. \A q \in Procs \ {p} : Due(q)'
    BY <1>a DEF Due
  <2>2. QED
    BY <2>1
<1>c. Gone => Due(p)'
  BY DEF Due
<1>d. /\ park # "foreign" /\ Due(p) /\ mem["slot"].granted \in [Kinds -> Nat]
      /\ \A k \in Kinds : Given("ap", k) \in Int /\ Covered(k, mem["slot"].granted[k])
      /\ loc[p].target \in [Kinds -> Nat] /\ loc[p].delta \in Nat /\ loc[p].kind \in Kinds
      /\ loc[p].cur \in Int
  BY <1>a DEF Sound, Accounts, TypeOK, Entries, SlotKeys, Locals, Given, Books
<1>e. ASSUME UNCHANGED <<book, park, ledgerFor>>, mem' = disk',
             mem'["slot"].granted = mem["slot"].granted
      PROVE  Accounts'
  BY <1>a, <1>d, <1>e DEF Accounts, Covered, Given
<1>1. CASE \/ EnterOffline(p) \/ Hold(p) \/ Enter(p) \/ FreshDetected(p) \/ NotFresh(p)
           \/ ItemGone(p) \/ PauseItem(p) \/ ItemsDone(p) \/ ApplyItem(p) \/ Targets(p)
           \/ NothingMissing(p) \/ LedgerDone(p) \/ SkipUnknown(p)
  <2>1. UNCHANGED <<mem, disk, book, park, ledgerFor>>
    BY <1>1 DEF EnterOffline, Hold, Enter, FreshDetected, NotFresh, ItemGone, PauseItem,
                ItemsDone, ApplyItem, Targets, NothingMissing, LedgerDone, SkipUnknown
  <2>2. Gone
    BY <1>1 DEF EnterOffline, Hold, Enter, FreshDetected, NotFresh, ItemGone, PauseItem,
                ItemsDone, ApplyItem, Targets, NothingMissing, LedgerDone, SkipUnknown,
                BeginItems, Leave, Goto, At, AfterApply, TypeOK
  <2>3. QED
    BY <1>a, <1>b, <1>c, <1>e, <2>1, <2>2
<1>2. CASE AckItem(p) \/ Rezero(p)
  <2>1. \E n : Persisted([mem EXCEPT ![Key].mark = n])
    BY <1>2 DEF AckItem, Rezero
  <2>2. mem' = disk' /\ mem'["slot"].granted = mem["slot"].granted
    BY <1>a, <2>1 DEF Persisted, TypeOK, Entries, SlotKeys
  <2>3. UNCHANGED <<book, park, ledgerFor>> /\ Gone
    BY <1>2 DEF AckItem, Rezero, BeginItems, Goto, AtItem, At, TypeOK
  <2>4. QED
    BY <1>b, <1>c, <1>e, <2>2, <2>3
<1>3. CASE Baseline(p)
  <2>1. UNCHANGED <<mem, disk, park>> /\ Gone
    BY <1>3 DEF Baseline, Goto, TypeOK
  <2>2. \A k \in Kinds : Given("ap", k)' >= 0
    <3>1. CASE UNCHANGED book
      BY <1>d, <3>1 DEF Covered, Given
    <3>2. CASE /\ StartMoney # NoStart
               /\ book' = [book EXCEPT ![park].cash["cash"] = StartMoney,
                                       ![park].base["cash"] = StartMoney,
                                       ![park].net["cash"]  = 0]
      <4>1. ASSUME NEW k \in Kinds
            PROVE  \/ Given("ap", k)' = Given("ap", k)
                   \/ Given("ap", k)' = StartMoney - StartMoney - 0
        BY <3>2, Sums, ZenonT(60) DEF Given, TypeOK, Books
      <4>2. QED
        BY <1>d, <3>2, <4>1, Numbers DEF Covered
    <3>3. QED
      BY <1>3, <3>1, <3>2 DEF Baseline
  <2>3. Accounts'
    <3>1. CASE park = "ap"
      BY <1>3, <2>1, <2>2, <3>1 DEF Baseline, Accounts, Covered
    <3>2. CASE park # "ap"
      <4>1. ledgerFor' = ledgerFor /\ \A k \in Kinds : Given("ap", k)' = Given("ap", k)
        BY <1>3, <3>2 DEF Baseline, Given, TypeOK, Books
      <4>2. QED
        BY <1>a, <1>d, <2>1, <4>1 DEF Accounts, Covered
    <3>3. QED
      BY <3>1, <3>2
  <2>4. QED
    BY <1>a, <1>b, <1>c, <2>1, <2>3
<1>4. CASE Unledger(p)
  <2>1. mem' = disk' /\ mem'["slot"].granted = NoMoney
    BY <1>a, <1>4 DEF Unledger, Persisted, TypeOK, Entries, SlotKeys
  <2>2. UNCHANGED <<book, park>> /\ Gone
    BY <1>4 DEF Unledger, BeginItems, Goto, TypeOK
  <2>3. Accounts'
    BY <1>d, <2>1, <2>2 DEF Accounts, Covered, Given, NoMoney
  <2>4. QED
    BY <1>b, <1>c, <2>1, <2>2, <2>3
<1>5. CASE AdoptTarget(p)
  <2>1. PICK k \in Kinds : /\ loc[p].target[k] < Granted(k)
                           /\ Persisted([mem EXCEPT ![Key].granted[k] = loc[p].target[k]])
    BY <1>5 DEF AdoptTarget, TypeOK, Locals
  <2>2. /\ mem' = disk'
        /\ \A j \in Kinds : \/ mem'["slot"].granted[j] = mem["slot"].granted[j]
                            \/ j = k /\ mem'["slot"].granted[j] = loc[p].target[k]
    BY <1>a, <2>1 DEF Persisted, TypeOK, Entries, SlotKeys
  <2>3. \A j \in Kinds : mem'["slot"].granted[j] <= mem["slot"].granted[j]
    BY <1>a, <1>d, <2>1, <2>2 DEF Granted
  <2>4. \A j \in Kinds : mem'["slot"].granted[j] \in Int
    BY <1>d, <2>2
  <2>5. UNCHANGED <<book, park, ledgerFor>> /\ Gone
    BY <1>5 DEF AdoptTarget, At
  <2>6. Accounts'
    BY <1>d, <2>2, <2>3, <2>4, <2>5 DEF Accounts, Covered, Given
  <2>7. QED
    BY <1>b, <1>c, <2>2, <2>5, <2>6
<1>6. CASE Missing(p)
  <2>1. UNCHANGED <<mem, disk, book, park, ledgerFor>> /\ pc'[p] = "read"
    BY <1>6 DEF Missing, Goto, TypeOK
  <2>2. PICK k \in Kinds : loc' = [loc EXCEPT ![p].kind = k, ![p].todo = @ \ {k},
                                              ![p].delta = loc[p].target[k] - Granted(k)]
    BY <1>6 DEF Missing, TypeOK, Locals
  <2>3. /\ loc'[p].kind = k /\ loc'[p].target = loc[p].target
        /\ loc'[p].delta = loc[p].target[k] - Granted(k)
    BY <2>2 DEF TypeOK, Locals
  <2>4. Due(p)'
    BY <1>a, <2>1, <2>3 DEF Due, Granted
  <2>5. QED
    BY <1>a, <1>b, <1>e, <2>1, <2>4
<1>7. CASE ReadBalance(p)
  <2>1. UNCHANGED <<mem, disk, book, park, ledgerFor>>
    BY <1>7 DEF ReadBalance
  <2>2. Due(p)'
    <3>1. CASE Resolved
      <4>1. park = "ap" /\ pc'[p] = "write" /\ pc[p] = "read"
        BY <1>7, <1>d, <3>1 DEF ReadBalance, Resolved, Goto, At, TypeOK, Books
      <4>2. /\ loc'[p].kind = loc[p].kind /\ loc'[p].target = loc[p].target
            /\ loc'[p].delta = loc[p].delta /\ loc'[p].cur = Cash(loc[p].kind)
        BY <1>7, <3>1 DEF ReadBalance, TypeOK, Locals
      <4>3. QED
        BY <1>d, <2>1, <4>1, <4>2 DEF Due, Cash
    <3>2. CASE ~Resolved
      BY <1>7, <3>2, <1>c DEF ReadBalance, Goto, TypeOK
    <3>3. QED
      BY <3>1, <3>2
  <2>3. QED
    BY <1>a, <1>b, <1>e, <2>1, <2>2
<1>8. CASE WriteBalance(p)
  <2> DEFINE k == loc[p].kind
  <2>1. UNCHANGED <<mem, disk, loc, park, ledgerFor>>
    BY <1>8 DEF WriteBalance
  <2>2. CASE ~Resolved
    <3>1. UNCHANGED book /\ Gone
      BY <1>8, <2>2 DEF WriteBalance, Goto, TypeOK
    <3>2. QED
      BY <1>a, <1>b, <1>c, <1>e, <2>1, <3>1
  <2>3. CASE Resolved
    <3>1. loc[p].delta = loc[p].target[k] - mem["slot"].granted[k]
      BY <1>8, <2>3, <1>d, BalanceWritten
    <3>2. pc'[p] = "persist"
      BY <1>8, <2>3, <1>d, BalanceWritten
    <3>3. \A j \in Kinds : Given("ap", j)' = IF j = k THEN Given("ap", k) + loc[p].delta
                                                     ELSE Given("ap", j)
      BY <1>8, <2>3, <1>d, BalanceWritten
    <3>4. \A j \in Kinds : Given("ap", j)' >= Given("ap", j)
      BY <1>d, <3>3
    <3>5. Accounts'
      <4>1. \A j \in Kinds : Given("ap", j)' \in Int /\ mem["slot"].granted[j] \in Int
        BY <1>d, <3>3
      <4>2. QED
        BY <1>a, <1>d, <2>1, <3>4, <4>1 DEF Accounts, Covered
    <3>6. Due(p)'
      <4>1. Given("ap", k)' = Given("ap", k) + loc[p].target[k] - mem["slot"].granted[k]
        BY <1>d, <2>1, <3>1, <3>3 DEF Given
      <4>2. Covered(k, loc[p].target[k])'
        BY <1>d, <2>1, <3>4, <4>1 DEF Covered
      <4>3. QED
        BY <2>1, <3>2, <4>2 DEF Due
    <3>7. QED
      BY <1>a, <1>b, <2>1, <3>5, <3>6
  <2>4. QED
    BY <2>2, <2>3
<1>9. CASE PersistGrant(p)
  <2> DEFINE k == loc[p].kind
  <2>1. UNCHANGED <<book, park, ledgerFor>> /\ Gone
    BY <1>9 DEF PersistGrant, Goto, TypeOK
  <2>2. /\ mem' = disk'
        /\ \A j \in Kinds : \/ mem'["slot"].granted[j] = mem["slot"].granted[j]
                            \/ j = k /\ mem'["slot"].granted[j] = loc[p].target[k]
    BY <1>a, <1>9 DEF PersistGrant, Persisted, TypeOK, Entries, SlotKeys
  <2>3. Covered(k, loc[p].target[k])
    BY <1>9, <1>d DEF PersistGrant, At, Due
  <2>4. Accounts'
    BY <1>d, <2>1, <2>2, <2>3 DEF Accounts, Covered, Given
  <2>5. QED
    BY <1>b, <1>c, <2>1, <2>2, <2>4
<1>10. CASE GateMoves(p)
  <2>1. Gone /\ UNCHANGED <<mem, disk, book, park, ledgerFor>>
    BY <1>10, GateApart
  <2>2. QED
    BY <1>a, <1>b, <1>c, <1>e, <2>1
<1>11. QED
  BY <1>1, <1>2, <1>3, <1>4, <1>5, <1>6, <1>7, <1>8, <1>9, <1>10, Saves DEF Step, GateMoves

\* A new save has been given nothing, and the ledger is about it only if it
\* claims nothing either.
LEMMA NewSaveEmpty ==
  ASSUME TypeOK, NewSave
  PROVE  /\ park' = "ap" /\ \A k \in Kinds : Given("ap", k)' = 0
         /\ ledgerFor' => \A k \in Kinds : disk["slot"].granted[k] = 0
<1>1. \A k \in Kinds : Given("ap", k)' = BakedCash[k] - BakedCash[k] - 0
  BY DEF NewSave, NewBook, NoMoney, Given, TypeOK, Books
<1>2. \A k \in Kinds : Given("ap", k)' = 0
  BY <1>1, Numbers DEF BakedCash
<1>3. park' = "ap" /\ (ledgerFor' => disk["slot"].granted = NoMoney)
  BY DEF NewSave
<1>4. QED
  BY <1>2, <1>3 DEF NoMoney

\* What the player earns or spends is not the client's doing.
LEMMA MoveIsNet ==
  ASSUME TypeOK, PlayerMove
  PROVE  \A k \in Kinds : Given("ap", k)' = Given("ap", k)
<1>1. PICK d \in PlayerMoves :
        book' = [book EXCEPT !["ap"].cash["cash"] = @ + d, !["ap"].net["cash"] = @ + d]
  BY DEF PlayerMove
<1>2. d \in Int
  BY EnvironmentAssumption DEF EnvironmentAssumption
<1>3. \A k \in Kinds :
        /\ book'["ap"].base[k] = book["ap"].base[k]
        /\ \/ /\ book'["ap"].cash[k] = book["ap"].cash[k]
              /\ book'["ap"].net[k] = book["ap"].net[k]
           \/ /\ book'["ap"].cash[k] = book["ap"].cash[k] + d
              /\ book'["ap"].net[k] = book["ap"].net[k] + d
  BY <1>1, Sums DEF TypeOK, Books
<1>4. \A k \in Kinds : /\ book["ap"].base[k] \in Int /\ book["ap"].net[k] \in Int
                       /\ book["ap"].cash[k] \in Int
  BY DEF TypeOK, Books
<1>5. QED
  BY <1>2, <1>3, <1>4 DEF Given

LEMMA GivenInitially == Init => \A k \in Kinds : Given("ap", k) = 0
<1> SUFFICES ASSUME Init PROVE \A k \in Kinds : Given("ap", k) = 0
  OBVIOUS
<1>1. \A k \in Kinds : Given("ap", k) = BakedCash[k] - BakedCash[k] - 0
  BY DEF Init, Given, NewBook, NoMoney, Books
<1>2. QED
  BY <1>1, Numbers DEF BakedCash

LEMMA SoundElsewhere ==
  ASSUME Careful, TypeOK, Sound,
         Connect \/ LoadAdopt \/ ReceiveItems \/ Disconnect \/ Crash \/ Tick \/ Environment
  PROVE  Sound'
<1> USE DEF clientVars, procVars, netVars, gameVars, histVars
<1>a. ASSUME UNCHANGED <<book, park, ledgerFor, disk>> PROVE Accounts'
  BY <1>a DEF Sound, Accounts, Covered, Given
<1>b. ASSUME \A q \in Procs : pc'[q] \notin {"read", "write", "persist"}
      PROVE  \A q \in Procs : Due(q)'
  BY <1>b DEF Due
<1>c. \A p \in Procs : pc["loop"] = "adopt" /\ pc[p] # "idle" => p = "loop"
  BY DEF Sound, Serial, Procs
<1>1. CASE Connect
  <2>1. Idle /\ pc' = [pc EXCEPT !["loop"] = "adopt"]
    BY <1>1, Rests DEF Connect, Goto, Procs
  <2>2. \A q \in Procs : pc'[q] = IF q = "loop" THEN "adopt" ELSE "idle"
    BY <2>1 DEF Idle, At, TypeOK
  <2>3. QED
    BY <1>1, <1>a, <1>b, <2>2 DEF Connect, Sound, Serial, Online, Pages, Procs
<1>2. CASE LoadAdopt
  <2>1. \A q \in Procs : pc'[q] = IF q = "loop" THEN "enter" ELSE "idle"
    BY <1>2, <1>c DEF LoadAdopt, At, Goto, TypeOK
  <2>2. conn = "up" /\ loaded = disk
    BY <1>2 DEF LoadAdopt, At, Sound, Online, Pages, Procs
  <2>3. QED
    BY <1>2, <1>a, <1>b, <2>1, <2>2 DEF LoadAdopt, Sound, Serial, Online, Pages, Procs
<1>3. CASE ReceiveItems \/ Tick
  <2>1. Idle /\ \E p \in Procs : pc' = [pc EXCEPT ![p] = "enter"]
    BY <1>3, Rests DEF ReceiveItems, Tick, Goto, Procs
  <2>2. PICK p \in Procs : \A q \in Procs : pc'[q] = IF q = p THEN "enter" ELSE "idle"
    BY <2>1 DEF Idle, At, TypeOK
  <2>3. UNCHANGED <<book, park, ledgerFor, disk, mem, conn>> /\ conn = "up" /\ mem = disk
    BY <1>3, <2>1 DEF ReceiveItems, Tick, Sound, Pages, Idle, At, Procs
  <2>4. Serial' /\ Online' /\ Pages'
    BY <2>2, <2>3 DEF Serial, Online, Pages, Procs
  <2>5. QED
    BY <1>a, <1>b, <2>2, <2>3, <2>4 DEF Sound
<1>4. CASE Disconnect
  <2>1. \A q \in Procs : pc[q] = "idle" /\ pc'[q] = "idle"
    BY <1>4, Rests DEF Disconnect, Idle, At, Procs
  <2>2. QED
    BY <1>4, <1>a, <1>b, <2>1 DEF Disconnect, Sound, Serial, Online, Pages, Procs
<1>5. CASE Crash
  <2>1. \A q \in Procs : pc'[q] = "idle"
    BY <1>5 DEF Crash
  <2>2. QED
    BY <1>5, <1>a, <1>b, <2>1 DEF Crash, Sound, Serial, Online, Pages, Procs
<1>6. CASE Send \/ AgeResolves \/ YearEnds \/ AnchorLost \/ AnchorFound
  <2>1. UNCHANGED <<mem, disk, loaded, pc, loc, conn, park, book, ledgerFor>>
    BY <1>6 DEF Send, AgeResolves, YearEnds, AnchorLost, AnchorFound
  <2>2. QED
    BY <2>1, SoundStays
<1>7. CASE LoadPark \/ NewSave \/ PlayerMove
  <2>1. /\ \A q \in Procs : pc[q] = "idle" /\ pc'[q] = "idle"
        /\ UNCHANGED <<mem, disk, loaded, conn>>
    BY <1>7, Rests DEF LoadPark, NewSave, PlayerMove, Idle, At
  <2>2. Accounts'
    <3>1. CASE LoadPark
      BY <3>1 DEF LoadPark, Careful, Sound, Accounts, Covered, Given
    <3>2. CASE NewSave
      BY <2>1, <3>2, NewSaveEmpty DEF Accounts, Covered
    <3>3. CASE PlayerMove
      <4>1. UNCHANGED <<park, ledgerFor>> /\ \A k \in Kinds : Given("ap", k)' = Given("ap", k)
        BY <3>3, MoveIsNet DEF PlayerMove
      <4>2. QED
        BY <2>1, <4>1 DEF Sound, Accounts, Covered
    <3>4. QED
      BY <1>7, <3>1, <3>2, <3>3
  <2>3. Serial' /\ Online' /\ Pages'
    BY <2>1 DEF Sound, Serial, Online, Pages, Procs
  <2>4. QED
    BY <1>b, <2>1, <2>2, <2>3 DEF Sound
<1>8. QED
  BY <1>1, <1>2, <1>3, <1>4, <1>5, <1>6, <1>7 DEF Environment

LEMMA SoundInitially == Init => Sound
<1> SUFFICES ASSUME Init PROVE Sound
  OBVIOUS
<1>1. \A k \in Kinds : Given("ap", k) = 0
  BY GivenInitially
<1>2. QED
  BY <1>1 DEF Init, Sound, Serial, Online, Pages, Accounts, Covered, Due, Procs,
              NoState, NoEntry, NoMoney, SlotKeys

LEMMA SoundInductive == Careful /\ TypeOK /\ Sound /\ [Next]_vars => Sound'
<1> SUFFICES ASSUME Careful, TypeOK, Sound, [Next]_vars PROVE Sound'
  OBVIOUS
<1>1. CASE UNCHANGED vars
  BY <1>1, SoundStays
  DEF vars, clientVars, procVars, netVars, gameVars, histVars
<1>2. CASE Next
  BY <1>2, SoundStep, SoundElsewhere DEF Next
<1>3. QED
  BY <1>1, <1>2

LEMMA AlwaysSound == ASSUME Careful PROVE Spec => []Sound
<1>1. TypeOK /\ Sound /\ [Next]_vars => Sound'
  BY SoundInductive
<1>2. QED
  BY <1>1, TypeCorrect, SoundInitially, PTL DEF Spec

\* Crashes and reconnects never lose money, for any items, sums and number of
\* crashes: between two passes the park holds what the file claims
\* (_reconcile_cumulative, ClientState.load, ClientState.set_granted).
THEOREM NeverLosesMoney == ASSUME Careful PROVE Spec => []NeverShort
<1>1. Sound => NeverShort
  BY DEF Sound, Accounts, Covered, NeverShort
<1>2. QED
  BY <1>1, AlwaysSound, PTL

-----------------------------------------------------------------------------
(* A whole pass.  One that meets no outage settles every kind, wherever an *)
(* item held up the cursor, and after any crash, new save or load.         *)

\* A park is loaded whose balances have been in reach all along.
Undisturbed == used.outages = 0 /\ park # "none"

InPass(p) == pc[p] \in {"ledger", "read", "write", "persist"}

\* The target of a pass is what all received items are worth, and the kinds
\* it has dealt with are granted so; the one in hand comes off the list first.
Dealt(p) ==
  \A k \in Kinds \ loc[p].todo :
    \/ pc[p] # "ledger" /\ k = loc[p].kind
    \/ Granted(k) = Owed[k][rcvd]
AllGranted  == \A k \in Kinds : Granted(k) = Owed[k][rcvd]
Settling(p) ==
  /\ InPass(p) => loc[p].target = [k \in Kinds |-> Owed[k][rcvd]]
  /\ pc[p] \in {"read", "write", "persist"} => loc[p].kind \notin loc[p].todo
  /\ Undisturbed => /\ InPass(p) => Dealt(p)
                    /\ pc[p] = "permits" => AllGranted
Settled == (used.outages = 0 => anchor) /\ \A p \in Procs : Settling(p)

\* A pass ends with the ledger at exactly the worth of all received items.
PassSettles ==
  \A p \in Procs : pc[p] = "permits" /\ Undisturbed => AllGranted

LEMMA StepSpares ==
  ASSUME TypeOK, NEW p \in Procs, Step(p)
  PROVE  UNCHANGED <<used, park, anchor>>
<1> USE DEF gameVars, histVars
<1>1. CASE EnterOffline(p) \/ Hold(p) \/ Enter(p) \/ NotFresh(p) \/ FreshDetected(p)
           \/ Baseline(p) \/ Unledger(p) \/ Rezero(p)
  BY <1>1, Zenon
  DEF EnterOffline, Hold, Enter, NotFresh, FreshDetected, Baseline, Unledger, Rezero
<1>2. CASE ItemGone(p) \/ SkipUnknown(p) \/ ApplyItem(p) \/ AckItem(p) \/ PauseItem(p)
           \/ ItemsDone(p) \/ Targets(p) \/ AdoptTarget(p) \/ NothingMissing(p) \/ Missing(p)
  BY <1>2, Zenon
  DEF ItemGone, SkipUnknown, ApplyItem, AckItem, PauseItem, ItemsDone, Targets,
      AdoptTarget, NothingMissing, Missing
<1>3. CASE ReadBalance(p) \/ WriteBalance(p) \/ PersistGrant(p) \/ LedgerDone(p)
           \/ SaveFails(p)
  BY <1>3 DEF ReadBalance, WriteBalance, PersistGrant, LedgerDone, SaveFails
<1>4. CASE GateMoves(p)
  BY <1>4, GateApart
<1>5. QED
  BY <1>1, <1>2, <1>3, <1>4 DEF Step, GateMoves

\* Outside a pass there is nothing to settle.
LEMMA NothingToSettle ==
  ASSUME \A q \in Procs : ~InPass(q)' /\ pc'[q] # "permits",
         used'.outages = 0 => anchor'
  PROVE  Settled'
BY DEF Settled, Settling, InPass

LEMMA SettledStep ==
  ASSUME Careful, TypeOK, Sound, Settled, NEW p \in Procs, Step(p)
  PROVE  Settled'
<1> USE DEF clientVars, procVars, netVars, gameVars, histVars
<1> DEFINE owed   == [k \in Kinds |-> Owed[k][rcvd]]
           had    == mem["slot"].granted
           got    == mem'["slot"].granted
           target == loc'[p].target
           todo   == loc'[p].todo
           kind   == loc'[p].kind
<1>a. /\ Key = "slot" /\ Key' = "slot"
      /\ \A q \in Procs : q # p => pc'[q] = "idle"
      /\ UNCHANGED <<used, park, anchor, rcvd>>
      /\ \A l \in Labels : Goto(p, l) => pc'[p] = l
  BY StepAlone, StepLocal, StepSpares DEF Goto, TypeOK
<1>b. /\ Settling(p) /\ (Undisturbed => Resolved)
      /\ had \in [Kinds -> Nat] /\ loc[p] \in Locals /\ owed \in [Kinds -> Nat]
  BY Sums DEF Settled, Undisturbed, Resolved, TypeOK, Entries, SlotKeys, Locals
<1>c. ASSUME Settling(p)' PROVE Settled'
  BY <1>a, <1>c DEF Settled, Settling, InPass
<1>d. ASSUME ~InPass(p)', pc'[p] # "permits" PROVE Settled'
  BY <1>a, <1>b, <1>d, NothingToSettle DEF Settled, InPass
\* It is enough to see to the kinds off the list.
<1>e. ASSUME InPass(p)', target = owed, pc'[p] # "ledger" => kind \notin todo,
             Undisturbed => \A k \in Kinds \ todo :
                              (pc'[p] # "ledger" /\ k = kind) \/ got[k] = owed[k]
      PROVE  Settled'
  <2>1. (Undisturbed => Dealt(p))'
    BY <1>a, <1>e DEF Undisturbed, Dealt, Granted
  <2>2. Settling(p)'
    BY <1>a, <1>e, <2>1 DEF Settling, InPass
  <2>3. QED
    BY <1>c, <2>2
<1>f. InPass(p) => /\ loc[p].target = owed
                   /\ pc[p] # "ledger" => loc[p].kind \notin loc[p].todo
                   /\ Undisturbed => \A k \in Kinds \ loc[p].todo :
                                       (pc[p] # "ledger" /\ k = loc[p].kind) \/ had[k] = owed[k]
  BY <1>a, <1>b DEF Settling, InPass, Dealt, Granted
<1>1. CASE EnterOffline(p) \/ Hold(p) \/ Enter(p) \/ NotFresh(p) \/ FreshDetected(p)
           \/ Baseline(p) \/ Unledger(p) \/ Rezero(p)
  BY <1>1, <1>d DEF EnterOffline, Hold, Enter, NotFresh, FreshDetected, Baseline, Unledger,
                    Rezero, BeginItems, Leave, Goto, AfterApply, InPass, TypeOK
<1>2. CASE ItemGone(p) \/ SkipUnknown(p) \/ ApplyItem(p) \/ AckItem(p) \/ PauseItem(p)
           \/ ItemsDone(p)
  BY <1>2, <1>d DEF ItemGone, SkipUnknown, ApplyItem, AckItem, PauseItem, ItemsDone,
                    AtItem, At, Leave, Goto, AfterApply, InPass, TypeOK
<1>3. CASE Targets(p)
  <2>1. pc'[p] = "ledger" /\ target = owed /\ todo = Kinds
    BY <1>3 DEF Targets, Goto, TypeOK, Locals
  <2>2. QED
    BY <1>e, <2>1 DEF InPass
<1>4. CASE AdoptTarget(p)
  <2>1. PICK k \in loc[p].todo :
          /\ mem' = [mem EXCEPT ![Key].granted[k] = loc[p].target[k]]
          /\ loc' = [loc EXCEPT ![p].todo = @ \ {k}]
    BY <1>4 DEF AdoptTarget, Persisted
  <2>2. k \in Kinds /\ pc[p] = "ledger" /\ pc'[p] = "ledger"
    BY <1>4, <1>b DEF AdoptTarget, At, Locals
  <2>3. target = loc[p].target /\ todo = loc[p].todo \ {k}
    BY <2>1, <1>b DEF TypeOK, Locals
  <2>4. got = [had EXCEPT ![k] = loc[p].target[k]]
    BY <2>1, <1>a DEF TypeOK, Entries, SlotKeys
  <2>5. \A j \in Kinds : got[j] = IF j = k THEN owed[k] ELSE had[j]
    BY <1>b, <1>f, <2>2, <2>4 DEF InPass
  <2>6. QED
    BY <1>e, <1>f, <2>2, <2>3, <2>5 DEF InPass
<1>5. CASE NothingMissing(p)
  <2>1. PICK k \in loc[p].todo :
          /\ loc[p].target[k] = Granted(k)
          /\ loc' = [loc EXCEPT ![p].todo = @ \ {k}]
    BY <1>5 DEF NothingMissing
  <2>2. /\ k \in Kinds /\ pc[p] = "ledger" /\ pc'[p] = "ledger" /\ got = had
        /\ had[k] = loc[p].target[k]
    BY <1>5, <1>a, <1>b, <2>1 DEF NothingMissing, At, Locals, Granted
  <2>3. target = loc[p].target /\ todo = loc[p].todo \ {k}
    BY <2>1, <1>b DEF TypeOK, Locals
  <2>4. QED
    BY <1>e, <1>f, <2>2, <2>3 DEF InPass
<1>6. CASE Missing(p)
  <2>1. PICK k \in loc[p].todo :
          loc' = [loc EXCEPT ![p].kind = k, ![p].todo = @ \ {k},
                             ![p].delta = loc[p].target[k] - Granted(k)]
    BY <1>6 DEF Missing
  <2>2. k \in Kinds /\ pc[p] = "ledger" /\ pc'[p] = "read" /\ got = had
    BY <1>6, <1>b DEF Missing, At, Goto, Locals, TypeOK
  <2>3. target = loc[p].target /\ todo = loc[p].todo \ {k} /\ kind = k
    BY <2>1, <1>b DEF TypeOK, Locals
  <2>4. QED
    BY <1>e, <1>f, <2>2, <2>3 DEF InPass
\* With the balances in reach neither of the two gives the kind up.
<1>7. CASE ReadBalance(p) \/ WriteBalance(p)
  <2>1. /\ target = loc[p].target /\ todo = loc[p].todo /\ kind = loc[p].kind /\ got = had
        /\ pc[p] \in {"read", "write"} /\ pc'[p] \in {"write", "persist", "ledger"}
        /\ Resolved => pc'[p] # "ledger"
    BY <1>7, <1>b DEF ReadBalance, WriteBalance, At, Goto, TypeOK, Locals
  <2>2. QED
    BY <1>b, <1>e, <1>f, <2>1 DEF InPass
<1>8. CASE PersistGrant(p)
  <2>1. pc[p] = "persist" /\ pc'[p] = "ledger" /\ loc' = loc /\ loc[p].kind \in Kinds
    BY <1>8, <1>b DEF PersistGrant, At, Goto, TypeOK, Locals
  <2>2. got = [had EXCEPT ![loc[p].kind] = loc[p].target[loc[p].kind]]
    BY <1>8, <1>a DEF PersistGrant, Persisted, TypeOK, Entries, SlotKeys
  <2>3. \A j \in Kinds : got[j] = IF j = loc[p].kind THEN owed[j] ELSE had[j]
    BY <1>b, <1>f, <2>1, <2>2 DEF InPass
  <2>4. QED
    BY <1>e, <1>f, <2>1, <2>3 DEF InPass
<1>9. CASE LedgerDone(p)
  <2>1. pc[p] = "ledger" /\ loc[p].todo = {} /\ pc'[p] = "permits" /\ got = had
    BY <1>9 DEF LedgerDone, At, Leave, Goto, TypeOK
  <2>2. Undisturbed => \A k \in Kinds : had[k] = Owed[k][rcvd]
    BY <1>f, <2>1 DEF InPass
  <2>3. (Undisturbed => AllGranted)'
    BY <1>a, <2>1, <2>2 DEF Undisturbed, AllGranted, Granted
  <2>4. QED
    BY <1>c, <2>1, <2>3 DEF Settling, InPass
<1>10. CASE GateMoves(p)
  BY <1>d, <1>10, GateApart DEF InPass
<1>11. QED
  BY <1>1, <1>2, <1>3, <1>4, <1>5, <1>6, <1>7, <1>8, <1>9, <1>10, Saves DEF Step, GateMoves

LEMMA SettledElsewhere ==
  ASSUME Careful, TypeOK, Sound, Settled,
         Connect \/ LoadAdopt \/ ReceiveItems \/ Disconnect \/ Crash \/ Tick \/ Environment
  PROVE  Settled'
<1> USE DEF clientVars, procVars, netVars, gameVars, histVars, Procs
<1> DEFINE Apart == \A q \in Procs : ~InPass(q)' /\ pc'[q] # "permits"
<1>1. CASE Connect \/ ReceiveItems \/ Tick
  <2>1. Idle /\ UNCHANGED <<anchor, used.outages>>
    BY <1>1, Rests DEF Connect, ReceiveItems, Tick, TypeOK
  <2>2. Apart
    BY <1>1, <2>1 DEF Connect, ReceiveItems, Tick, Idle, At, Goto, InPass, TypeOK
  <2>3. QED
    BY <2>1, <2>2, NothingToSettle DEF Settled
<1>2. CASE LoadAdopt
  <2>1. Apart /\ UNCHANGED <<anchor, used>>
    BY <1>2 DEF LoadAdopt, At, Goto, InPass, Sound, Serial, TypeOK
  <2>2. QED
    BY <2>1, NothingToSettle DEF Settled
<1>3. CASE Disconnect \/ LoadPark \/ NewSave \/ AgeResolves \/ YearEnds \/ PlayerMove
  <2>1. Idle /\ UNCHANGED <<anchor, used.outages, pc>>
    BY <1>3, Rests DEF Disconnect, LoadPark, NewSave, AgeResolves, YearEnds, PlayerMove, TypeOK
  <2>2. Apart
    BY <2>1 DEF Idle, At, InPass
  <2>3. QED
    BY <2>1, <2>2, NothingToSettle DEF Settled
<1>4. CASE Crash
  <2>1. Apart /\ UNCHANGED <<anchor, used>>
    BY <1>4 DEF Crash, InPass
  <2>2. QED
    BY <2>1, NothingToSettle DEF Settled
<1>5. CASE Send \/ AnchorFound
  <2>1. UNCHANGED <<mem, conn, rcvd, pc, loc, park, used>> /\ (anchor => anchor')
    BY <1>5 DEF Send, AnchorFound
  <2>2. QED
    BY <2>1 DEF Settled, Settling, InPass, Dealt, AllGranted, Granted, Key, Undisturbed
<1>6. CASE AnchorLost
  <2>1. UNCHANGED <<mem, conn, rcvd, pc, loc, park>> /\ used'.outages # 0
    BY <1>6 DEF AnchorLost, TypeOK
  <2>2. QED
    BY <2>1 DEF Settled, Settling, InPass, Undisturbed
<1>7. QED
  BY <1>1, <1>2, <1>3, <1>4, <1>5, <1>6 DEF Environment

\* Every pass over the ledger that meets no outage ends with each kind granted
\* for all the items received, those behind a stalled item included and after
\* any number of crashes and new saves (_apply_new_items: the cumulative
\* reconcile runs even when the item loop pauses).
THEOREM EveryPassSettles == ASSUME Careful PROVE Spec => []PassSettles
<1>1. Init => Settled
  BY DEF Init, Settled, Settling, InPass
<1>2. TypeOK /\ Sound /\ Settled /\ [Next]_vars => Settled'
  <2> SUFFICES ASSUME TypeOK, Sound, Settled, [Next]_vars PROVE Settled'
    OBVIOUS
  <2>1. CASE UNCHANGED vars
    BY <2>1 DEF vars, clientVars, procVars, netVars, gameVars, histVars, Settled, Settling,
                InPass, Dealt, AllGranted, Granted, Key, Undisturbed
  <2>2. CASE Next
    BY <2>2, SettledStep, SettledElsewhere DEF Next
  <2>3. QED
    BY <2>1, <2>2
<1>3. Settled => PassSettles
  BY DEF Settled, Settling, PassSettles
<1>4. QED
  BY <1>1, <1>2, <1>3, TypeCorrect, AlwaysSound, PTL DEF Spec

-----------------------------------------------------------------------------
(* One session.  Without reconnects the ledger is exact, not just covered, *)
(* on one condition the code cannot check: that a park recognised as fresh *)
(* by its age and its balance really holds no granted money.               *)

OneSession == Careful /\ MaxConnects <= 1

\* The fingerprint tells the truth.
Telling == park = "ap" /\ Young /\ Fingerprint /\ ~freshDone =>
             \A k \in Kinds : Given("ap", k) = 0

\* A thread has changed the balance of kind k and not yet the ledger.
Carrying(k) == \E p \in Procs : pc[p] = "persist" /\ loc[p].kind = k

\* Where each thread stands with the sums of this session.
Owing(p) ==
  /\ pc[p] \in {"baseline", "unledger"} =>
       park = "ap" /\ \A k \in Kinds : Given("ap", k) = 0
  /\ pc[p] \in {"ledger", "read", "write", "persist"} =>
       \A k \in Kinds : loc[p].target[k] = Owed[k][rcvd]
  /\ pc[p] \in {"read", "write"} => loc[p].delta > 0
  /\ pc[p] = "persist" /\ ledgerFor =>
       Given("ap", loc[p].kind) = loc[p].target[loc[p].kind]

\* The only session has not begun, or is the last.
Session == /\ mem = disk
           /\ conn = "up" => used.connects >= MaxConnects
           /\ conn = "down" => disk = NoState

\* Every kind is granted no further than received, and exactly as the file says.
Exactly == \A k \in Kinds :
             /\ disk["slot"].granted[k] <= Owed[k][rcvd]
             /\ ledgerFor /\ ~Carrying(k) => Given("ap", k) = disk["slot"].granted[k]

Exact == Session /\ Exactly /\ \A p \in Procs : Owing(p)

LEMMA ExactStays ==
  ASSUME Exact, UNCHANGED <<mem, disk, pc, loc, conn, rcvd, park, book, ledgerFor, used>>
  PROVE  Exact'
BY DEF Exact, Session, Exactly, Carrying, Given, Owing

LEMMA ExactStep ==
  ASSUME Careful, TypeOK, Cursors, Sound, Telling, Exact, NEW p \in Procs, Step(p)
  PROVE  Exact'
<1> USE DEF clientVars, procVars, netVars, gameVars, histVars
<1> DEFINE Mine == mem' = disk' /\ Exactly' /\ Owing(p)'
           Far  == pc'[p] \notin {"baseline", "unledger", "ledger", "read", "write", "persist"}
           Here == pc[p] # "persist" /\ pc'[p] # "persist"
<1>a. /\ Key = "slot" /\ Key' = "slot" /\ mem = disk
      /\ \A q \in Procs : q # p => pc'[q] = "idle"
  BY StepAlone
<1>b. (\A q \in Procs : q # p => pc'[q] = pc[q]) /\ UNCHANGED <<conn, rcvd>>
  BY StepLocal
<1>c. conn = "up" /\ conn' = "up"
  BY <1>a DEF Key
<1>d. used' = used
  BY StepSpares
<1>e. Mine => Exact'
  <2> SUFFICES ASSUME Mine PROVE Exact'
    OBVIOUS
  <2>1. \A q \in Procs \ {p} : Owing(q)'
    BY <1>a DEF Owing
  <2>2. Session'
    BY <1>c, <1>d DEF Exact, Session
  <2>3. QED
    BY <2>1, <2>2 DEF Exact
<1>f. /\ Owing(p) /\ Due(p) /\ park # "foreign"
      /\ \A k \in Kinds : /\ mem["slot"].granted[k] <= Owed[k][rcvd]
                          /\ mem["slot"].granted[k] \in Nat /\ Owed[k][rcvd] \in Nat
                          /\ Given("ap", k) \in Int
      /\ loc[p].target \in [Kinds -> Nat] /\ loc[p].delta \in Nat /\ loc[p].kind \in Kinds
  BY <1>a, Sums DEF Exact, Exactly, Sound, Accounts, TypeOK, Entries, SlotKeys, Locals, Given, Books
<1>g. pc[p] # "persist" /\ ledgerFor => \A k \in Kinds : Given("ap", k) = mem["slot"].granted[k]
  <2>1. pc[p] # "idle" /\ pc[p] # "persist" => \A q \in Procs : pc[q] # "persist"
    BY DEF Sound, Serial
  <2>2. \A q \in Procs : q # p => pc[q] = "idle"
    BY <1>a, <1>b
  <2>3. pc[p] # "persist" => \A k \in Kinds : ~Carrying(k)
    BY <2>2 DEF Carrying
  <2>4. QED
    BY <1>a, <2>3 DEF Exact, Exactly
<1>h. ASSUME UNCHANGED <<book, ledgerFor>>, mem' = disk', pc[p] # "persist",
             mem'["slot"].granted = mem["slot"].granted
      PROVE  Exactly'
  BY <1>b, <1>f, <1>g, <1>h DEF Exactly, Given
<1>i. Far => Owing(p)'
  BY DEF Owing
<1>1. CASE \/ EnterOffline(p) \/ Hold(p) \/ Enter(p) \/ NotFresh(p)
           \/ ItemGone(p) \/ PauseItem(p) \/ ItemsDone(p) \/ ApplyItem(p)
           \/ LedgerDone(p) \/ SkipUnknown(p)
  <2>1. UNCHANGED <<mem, disk, book, ledgerFor>>
    BY <1>1 DEF EnterOffline, Hold, Enter, NotFresh, ItemGone, PauseItem,
                ItemsDone, ApplyItem, LedgerDone, SkipUnknown
  <2>2. Far /\ pc[p] # "persist"
    BY <1>1 DEF EnterOffline, Hold, Enter, NotFresh, ItemGone, PauseItem,
                ItemsDone, ApplyItem, LedgerDone, SkipUnknown,
                BeginItems, Leave, Goto, AtItem, At, AfterApply, TypeOK
  <2>3. QED
    BY <1>a, <1>e, <1>h, <1>i, <2>1, <2>2
<1>2. CASE AckItem(p) \/ Rezero(p)
  <2>1. \E n : Persisted([mem EXCEPT ![Key].mark = n])
    BY <1>2 DEF AckItem, Rezero
  <2>2. mem' = disk' /\ mem'["slot"].granted = mem["slot"].granted
    BY <1>a, <2>1 DEF Persisted, TypeOK, Entries, SlotKeys
  <2>3. UNCHANGED <<book, ledgerFor>> /\ Far /\ pc[p] # "persist"
    BY <1>2 DEF AckItem, Rezero, BeginItems, Goto, AtItem, At, TypeOK
  <2>4. QED
    BY <1>e, <1>h, <1>i, <2>2, <2>3
<1>3. CASE FreshDetected(p)
  <2>1. /\ UNCHANGED <<mem, disk, book, park, ledgerFor>>
        /\ pc'[p] = "baseline" /\ pc[p] # "persist"
    BY <1>3 DEF FreshDetected, Goto, At, TypeOK
  <2>2. park = "ap"
    BY <1>3, <1>f DEF FreshDetected, Fingerprint, Resolved, TypeOK, Books
  <2>3. \A k \in Kinds : Given("ap", k) = 0
    BY <1>3, <2>2 DEF FreshDetected, Telling
  <2>4. Owing(p)'
    BY <2>1, <2>2, <2>3 DEF Owing, Given
  <2>5. QED
    BY <1>a, <1>e, <1>h, <2>1, <2>4
<1>4. CASE Baseline(p)
  <2>1. /\ UNCHANGED <<mem, disk, park>> /\ pc'[p] = "unledger" /\ ~ledgerFor'
    BY <1>4, <1>f DEF Baseline, Goto, At, TypeOK, Owing
  <2>2. park = "ap" /\ \A k \in Kinds : Given("ap", k) = 0
    BY <1>4, <1>f DEF Baseline, At, Owing
  <2>3. \A k \in Kinds : Given("ap", k)' = 0
    <3>1. CASE UNCHANGED book
      BY <2>2, <3>1 DEF Given
    <3>2. CASE /\ StartMoney # NoStart
               /\ book' = [book EXCEPT ![park].cash["cash"] = StartMoney,
                                       ![park].base["cash"] = StartMoney,
                                       ![park].net["cash"]  = 0]
      <4>1. ASSUME NEW k \in Kinds
            PROVE  \/ Given("ap", k)' = Given("ap", k)
                   \/ Given("ap", k)' = StartMoney - StartMoney - 0
        BY <3>2, Sums, ZenonT(60) DEF Given, TypeOK, Books
      <4>2. QED
        BY <2>2, <3>2, <4>1, Numbers
    <3>3. QED
      BY <1>4, <3>1, <3>2 DEF Baseline
  <2>4. Owing(p)'
    BY <2>1, <2>2, <2>3 DEF Owing
  <2>5. Exactly'
    BY <1>a, <1>b, <1>f, <2>1 DEF Exactly
  <2>6. QED
    BY <1>a, <1>e, <2>1, <2>4, <2>5
<1>5. CASE Unledger(p)
  <2>1. mem' = disk' /\ mem'["slot"].granted = NoMoney
    BY <1>a, <1>5 DEF Unledger, Persisted, TypeOK, Entries, SlotKeys
  <2>2. UNCHANGED book /\ Far
    BY <1>5 DEF Unledger, BeginItems, Goto, TypeOK
  <2>3. \A k \in Kinds : Given("ap", k) = 0
    BY <1>5, <1>f DEF Unledger, At, Owing
  <2>4. Exactly'
    BY <1>b, <1>f, <2>1, <2>2, <2>3 DEF Exactly, Given, NoMoney
  <2>5. QED
    BY <1>e, <1>i, <2>1, <2>2, <2>4
<1>6. CASE Targets(p)
  <2>1. UNCHANGED <<mem, disk, book, ledgerFor>> /\ pc'[p] = "ledger" /\ pc[p] # "persist"
    BY <1>6 DEF Targets, Goto, At, TypeOK
  <2>2. loc'[p].target = [k \in Kinds |-> Owed[k][rcvd]]
    BY <1>6 DEF Targets, TypeOK, Locals
  <2>3. Owing(p)'
    BY <1>b, <2>1, <2>2 DEF Owing
  <2>4. QED
    BY <1>a, <1>e, <1>h, <2>1, <2>3
<1>7. ASSUME AdoptTarget(p) PROVE FALSE
  <2>1. PICK k \in Kinds : loc[p].target[k] < mem["slot"].granted[k]
    BY <1>7, <1>a DEF AdoptTarget, Granted, TypeOK, Locals
  <2>2. loc[p].target[k] = Owed[k][rcvd]
    BY <1>7, <1>f DEF AdoptTarget, At, Owing
  <2>3. QED
    BY <1>f, <2>1, <2>2
<1>8. CASE NothingMissing(p) \/ Missing(p)
  <2>1. UNCHANGED <<mem, disk, book, ledgerFor>> /\ pc'[p] \in {"ledger", "read"}
        /\ pc[p] = "ledger" /\ (NothingMissing(p) => pc'[p] = "ledger")
    BY <1>8 DEF NothingMissing, Missing, Goto, At, TypeOK
  <2>2. loc'[p].target = loc[p].target /\ (Missing(p) => loc'[p].delta > 0)
    <3>1. CASE NothingMissing(p)
      BY <3>1, <2>1 DEF NothingMissing, Missing, Goto, TypeOK, Locals
    <3>2. CASE Missing(p)
      <4>1. PICK k \in Kinds :
              /\ loc[p].target[k] > mem["slot"].granted[k]
              /\ loc' = [loc EXCEPT ![p].kind = k, ![p].todo = @ \ {k},
                                    ![p].delta = loc[p].target[k] - mem["slot"].granted[k]]
        BY <3>2, <1>a DEF Missing, Granted, TypeOK, Locals
      <4>2. /\ loc'[p].target = loc[p].target
            /\ loc'[p].delta = loc[p].target[k] - mem["slot"].granted[k]
        BY <4>1 DEF TypeOK, Locals
      <4>3. QED
        BY <1>f, <4>1, <4>2
    <3>3. QED
      BY <1>8, <3>1, <3>2
  <2>3. Owing(p)'
    BY <1>8, <1>b, <1>f, <2>1, <2>2 DEF Owing
  <2>4. QED
    BY <1>a, <1>e, <1>h, <2>1, <2>3
<1>9. CASE ReadBalance(p)
  <2>1. UNCHANGED <<mem, disk, book, ledgerFor>> /\ pc'[p] \in {"ledger", "write"}
        /\ pc[p] = "read"
    BY <1>9 DEF ReadBalance, Goto, At, TypeOK
  <2>2. loc'[p].target = loc[p].target /\ loc'[p].delta = loc[p].delta
    BY <1>9 DEF ReadBalance, TypeOK, Locals
  <2>3. Owing(p)'
    BY <1>b, <1>f, <2>1, <2>2 DEF Owing
  <2>4. QED
    BY <1>a, <1>e, <1>h, <2>1, <2>3
<1>10. CASE WriteBalance(p)
  <2> DEFINE k == loc[p].kind
  <2>1. UNCHANGED <<mem, disk, loc, park, ledgerFor>> /\ pc[p] = "write"
    BY <1>10 DEF WriteBalance, At
  <2>2. CASE ~Resolved
    <3>1. UNCHANGED book /\ pc'[p] = "ledger"
      BY <1>10, <2>2 DEF WriteBalance, Goto, TypeOK
    <3>2. Owing(p)'
      BY <1>b, <1>f, <2>1, <3>1 DEF Owing
    <3>3. QED
      BY <1>a, <1>e, <1>h, <2>1, <3>1, <3>2
  <2>3. CASE Resolved
    <3>1. /\ \A j \in Kinds : Given("ap", j)' = IF j = k THEN Given("ap", k) + loc[p].delta
                                                         ELSE Given("ap", j)
          /\ loc[p].delta = loc[p].target[k] - mem["slot"].granted[k]
          /\ pc'[p] = "persist"
      BY <1>10, <2>3, <1>f, BalanceWritten
    <3>2. loc[p].target[k] = Owed[k][rcvd]
      BY <1>f, <2>1 DEF Owing
    <3>3. ledgerFor => Given("ap", k)' = loc[p].target[k]
      BY <1>f, <1>g, <2>1, <3>1 DEF Given
    <3>4. Owing(p)'
      BY <1>b, <1>f, <2>1, <3>1, <3>3 DEF Owing
    <3>5. \A j \in Kinds : j # k => Given("ap", j)' = Given("ap", j)
      BY <3>1
    <3>6. \A j \in Kinds : ~Carrying(j)' => j # k
      BY <2>1, <3>1 DEF Carrying
    <3>7. Exactly'
      BY <1>a, <1>b, <1>f, <1>g, <2>1, <3>5, <3>6 DEF Exactly
    <3>8. QED
      BY <1>a, <1>e, <2>1, <3>4, <3>7
  <2>4. QED
    BY <2>2, <2>3
<1>11. CASE PersistGrant(p)
  <2> DEFINE k == loc[p].kind
  <2>1. UNCHANGED <<book, park, loc, ledgerFor>> /\ pc'[p] = "ledger" /\ pc[p] = "persist"
    BY <1>11 DEF PersistGrant, Goto, At, TypeOK
  <2>2. /\ mem' = disk'
        /\ \A j \in Kinds : mem'["slot"].granted[j] = IF j = k THEN loc[p].target[k]
                                                              ELSE mem["slot"].granted[j]
    BY <1>a, <1>f, <1>11 DEF PersistGrant, Persisted, TypeOK, Entries, SlotKeys
  <2>3. /\ \A j \in Kinds : loc[p].target[j] = Owed[j][rcvd]
        /\ ledgerFor => Given("ap", k) = loc[p].target[k]
    BY <1>f, <2>1 DEF Owing
  <2>4. \A j \in Kinds : j # k => ~Carrying(j)
    <3>1. \A q \in Procs : q # p => pc[q] = "idle"
      BY <1>a, <1>b
    <3>2. QED
      BY <3>1 DEF Carrying
  <2>5. \A j \in Kinds : ledgerFor => Given("ap", j) = mem'["slot"].granted[j]
    BY <1>a, <2>2, <2>3, <2>4 DEF Exact, Exactly
  <2>6. Exactly'
    BY <1>b, <1>f, <2>1, <2>2, <2>3, <2>5 DEF Exactly, Given
  <2>7. Owing(p)'
    BY <1>b, <2>1, <2>3 DEF Owing
  <2>8. QED
    BY <1>e, <2>2, <2>6, <2>7
<1>12. CASE GateMoves(p)
  <2>1. Far /\ pc[p] # "persist" /\ UNCHANGED <<mem, disk, book, ledgerFor>>
    BY <1>12, GateApart
  <2>2. QED
    BY <1>a, <1>e, <1>h, <1>i, <2>1
<1>13. QED
  BY <1>1, <1>2, <1>3, <1>4, <1>5, <1>6, <1>7, <1>8, <1>9, <1>10, <1>11, <1>12, Saves
  DEF Step, GateMoves

LEMMA ExactElsewhere ==
  ASSUME OneSession, TypeOK, Cursors, Sound, Exact,
         Connect \/ LoadAdopt \/ ReceiveItems \/ Disconnect \/ Crash \/ Tick \/ Environment
  PROVE  Exact'
<1> USE DEF clientVars, procVars, netVars, gameVars, histVars
<1>a. Careful /\ used.connects \in Nat /\ MaxConnects <= 1 /\ MaxConnects \in Nat
  BY EnvironmentAssumption DEF OneSession, TypeOK, EnvironmentAssumption
<1>b. ASSUME \A q \in Procs : pc'[q] \in {"idle", "adopt", "enter"}
      PROVE  (\A q \in Procs : Owing(q)') /\ \A k \in Kinds : ~Carrying(k)'
  BY <1>b DEF Owing, Carrying
<1>c. Idle => \A k \in Kinds : ~Carrying(k)
  BY DEF Idle, At, Carrying
<1>d. \A k \in Kinds : /\ disk["slot"].granted[k] <= Owed[k][rcvd]
                       /\ Idle /\ ledgerFor => Given("ap", k) = disk["slot"].granted[k]
  BY <1>c DEF Exact, Exactly
<1>e. \A k \in Kinds : disk["slot"].granted[k] \in Nat /\ Owed[k][rcvd] \in Nat
  BY Sums DEF TypeOK, Entries, SlotKeys
<1>1. CASE Connect
  <2>1. \A q \in Procs : pc'[q] \in {"idle", "adopt", "enter"}
    BY <1>1, <1>a, Rests DEF Connect, Goto, Idle, At, Procs, TypeOK
  <2>2. used'.connects = used.connects + 1
    BY <1>1 DEF Connect, TypeOK
  <2>3. Session'
    BY <1>1, <1>a, <2>2 DEF Connect, Exact, Session
  <2>4. Idle
    BY <1>1, <1>a, Rests DEF Connect, Procs
  <2>5. Exactly'
    BY <1>1, <1>d, <2>4 DEF Connect, Exactly, Given
  <2>6. QED
    BY <1>b, <2>1, <2>3, <2>5 DEF Exact
<1>2. CASE LoadAdopt
  <2>1. pc["loop"] = "adopt" /\ loaded = disk /\ conn = "up"
    BY <1>2 DEF LoadAdopt, At, Sound, Pages, Online, Procs
  <2>2. pc["worker"] = "idle"
    BY <2>1 DEF Sound, Serial, Procs
  <2>3. \A q \in Procs : pc[q] # "persist" /\ pc'[q] \in {"idle", "adopt", "enter"}
    BY <1>2, <2>1, <2>2 DEF LoadAdopt, Goto, Procs, TypeOK
  <2>4. Session'
    BY <1>2, <2>1 DEF LoadAdopt, Exact, Session
  <2>5. Exactly'
    <3>1. \A k \in Kinds : ~Carrying(k)
      BY <2>3 DEF Carrying
    <3>2. QED
      BY <1>2, <3>1 DEF LoadAdopt, Exact, Exactly, Given
  <2>6. QED
    BY <1>b, <2>3, <2>4, <2>5 DEF Exact
<1>3. CASE ReceiveItems \/ Tick
  <2>1. Idle
    BY <1>3, <1>a, Rests DEF ReceiveItems, Tick, Procs
  <2>2. \A q \in Procs : pc'[q] \in {"idle", "adopt", "enter"}
    BY <1>3, <2>1 DEF ReceiveItems, Tick, Goto, Idle, At, Procs, TypeOK
  <2>3. Session'
    BY <1>3 DEF ReceiveItems, Tick, Exact, Session
  <2>4. rcvd' \in 0..NItems /\ rcvd <= rcvd'
    BY <1>3, Numbers DEF ReceiveItems, Tick, TypeOK
  <2>5. \A k \in Kinds : Owed[k][rcvd'] \in Nat /\ Owed[k][rcvd] <= Owed[k][rcvd']
    BY <2>4, Sums DEF TypeOK
  <2>6. Exactly'
    BY <1>3, <1>d, <1>e, <2>1, <2>5 DEF ReceiveItems, Tick, Exactly, Given
  <2>7. QED
    BY <1>b, <2>2, <2>3, <2>6 DEF Exact
<1>4. CASE Disconnect
  BY <1>4, <1>a DEF Disconnect, Exact, Session
<1>5. CASE Crash
  <2>1. conn = "down"
    BY <1>5, <1>a DEF Crash, Exact, Session, TypeOK
  <2>2. Idle /\ \A q \in Procs : pc'[q] = "idle"
    BY <1>5, <2>1 DEF Crash, Idle, At, Sound, Online
  <2>3. disk = NoState /\ disk' = NoState /\ mem' = NoState /\ conn' = "down"
    BY <1>5, <2>1 DEF Crash, Exact, Session
  <2>4. \A k \in Kinds : disk'["slot"].granted[k] = 0 /\ Owed[k][rcvd'] \in Nat
    BY <1>5, <2>3, Sums, Numbers DEF Crash, NoState, NoEntry, NoMoney, SlotKeys
  <2>5. Exactly'
    BY <1>5, <1>d, <2>2, <2>3, <2>4 DEF Crash, Exactly, Given
  <2>6. Session'
    BY <2>3 DEF Session
  <2>7. QED
    BY <1>b, <2>2, <2>5, <2>6 DEF Exact
<1>6. CASE Send \/ AgeResolves \/ YearEnds \/ AnchorFound \/ AnchorLost
  <2>1. /\ UNCHANGED <<mem, disk, pc, loc, conn, rcvd, park, book, ledgerFor>>
        /\ used'.connects = used.connects
    BY <1>6 DEF Send, AgeResolves, YearEnds, AnchorFound, AnchorLost, TypeOK
  <2>2. QED
    BY <2>1 DEF Exact, Session, Exactly, Carrying, Given, Owing
<1>7. CASE LoadPark \/ NewSave \/ PlayerMove
  <2>1. Idle /\ UNCHANGED <<mem, disk, pc, conn, rcvd>> /\ used'.connects = used.connects
    BY <1>7, <1>a, Rests DEF LoadPark, NewSave, PlayerMove, TypeOK
  <2>2. \A q \in Procs : pc'[q] \in {"idle", "adopt", "enter"}
    BY <2>1 DEF Idle, At
  <2>3. Session'
    BY <2>1 DEF Exact, Session
  <2>4. Exactly'
    <3>1. CASE LoadPark
      BY <1>d, <2>1, <3>1 DEF LoadPark, Exactly, Given
    <3>2. CASE NewSave
      BY <1>d, <2>1, <3>2, NewSaveEmpty DEF Exactly
    <3>3. CASE PlayerMove
      BY <1>d, <2>1, <3>3, MoveIsNet DEF PlayerMove, Exactly
    <3>4. QED
      BY <1>7, <3>1, <3>2, <3>3
  <2>5. QED
    BY <1>b, <2>2, <2>3, <2>4 DEF Exact
<1>8. QED
  BY <1>1, <1>2, <1>3, <1>4, <1>5, <1>6, <1>7 DEF Environment

LEMMA ExactInitially == Init => Exact
<1> SUFFICES ASSUME Init PROVE Exact
  OBVIOUS
<1>1. \A k \in Kinds : Given("ap", k) = 0
  BY GivenInitially
<1>2. \A k \in Kinds : 0 <= Owed[k][rcvd]
  BY Sums, Numbers DEF Init
<1>3. QED
  BY <1>1, <1>2 DEF Init, Exact, Session, Exactly, Owing, NoState, NoEntry, NoMoney, SlotKeys

LEMMA ExactInductive ==
  OneSession /\ IInv /\ Sound /\ Telling /\ Exact /\ [Next]_vars => Exact'
<1> SUFFICES ASSUME OneSession, IInv, Sound, Telling, Exact, [Next]_vars PROVE Exact'
  OBVIOUS
<1>1. CASE UNCHANGED vars
  BY <1>1, ExactStays DEF vars, clientVars, procVars, netVars, gameVars, histVars
<1>2. CASE Next
  BY <1>2, ExactStep, ExactElsewhere DEF Next, IInv, OneSession
<1>3. QED
  BY <1>1, <1>2

\* In one session the money of a park and the ledger never differ between two
\* passes, whatever the player spends, as long as the fingerprint of a fresh
\* park tells the truth (_reconcile_cumulative, _maybe_fresh_reset).
THEOREM LedgerIsExact ==
  ASSUME OneSession PROVE Spec /\ []Telling => []ExactGrant
<1>1. Exact => ExactGrant
  BY DEF Exact, Session, Exactly, Carrying, ExactGrant, Idle, At
<1>2. IInv /\ Sound /\ Telling /\ Exact /\ [Next]_vars => Exact'
  BY ExactInductive
<1>3. Spec => []Sound
  BY AlwaysSound DEF OneSession
<1>4. QED
  BY <1>1, <1>2, <1>3, AlwaysIInv, ExactInitially, PTL DEF Spec
-----------------------------------------------------------------------------
(* The refinement.  In one session with one save, the money the park has   *)
(* been given moves as MoneyGrant says: every step of the threads, the     *)
(* server, the game and the player is one of its steps or none.            *)

Money == [k \in Kinds |-> Given("ap", k)]

\* The ledger is about the save in the park, but while a thread resets both.
Attached == ledgerFor \/ \E p \in Procs : pc[p] = "unledger"

LEMMA AttachedStep ==
  ASSUME TypeOK, Sound, Exact, MaxSaves = 0, OneSession, Attached, [Next]_vars
  PROVE  Attached'
<1> USE DEF clientVars, procVars, netVars, gameVars, histVars
<1>1. CASE UNCHANGED vars
  BY <1>1 DEF vars, Attached
<1>2. ASSUME NEW p \in Procs, Step(p) PROVE Attached'
  <2>1. pc[p] # "unledger" => ledgerFor
    <3>1. \A q \in Procs : q # p => pc'[q] = "idle" /\ pc'[q] = pc[q]
      BY <1>2, StepAlone, StepLocal
    <3>2. QED
      BY <3>1 DEF Attached
  <2>2. CASE Baseline(p)
    BY <1>2, <2>2 DEF Baseline, Goto, TypeOK, Attached
  <2>3. CASE Unledger(p)
    <3>1. park = "ap"
      BY <2>3 DEF Unledger, At, Exact, Owing
    <3>2. QED
      BY <2>3, <3>1 DEF Unledger, Attached
  <2>4. CASE EnterOffline(p) \/ Hold(p) \/ Enter(p) \/ NotFresh(p) \/ FreshDetected(p)
             \/ Rezero(p) \/ ItemGone(p) \/ SkipUnknown(p) \/ ApplyItem(p) \/ AckItem(p)
    BY <2>1, <2>4 DEF EnterOffline, Hold, Enter, NotFresh, FreshDetected, Rezero, ItemGone,
                      SkipUnknown, ApplyItem, AckItem, AtItem, At, Attached
  <2>5. CASE PauseItem(p) \/ ItemsDone(p) \/ Targets(p) \/ AdoptTarget(p) \/ NothingMissing(p)
             \/ Missing(p) \/ ReadBalance(p) \/ WriteBalance(p) \/ PersistGrant(p)
             \/ LedgerDone(p)
    BY <2>1, <2>5 DEF PauseItem, ItemsDone, Targets, AdoptTarget, NothingMissing, Missing,
                      ReadBalance, WriteBalance, PersistGrant, LedgerDone,
                      AtItem, At, Attached
  <2>6. CASE GateMoves(p)
    BY <2>1, <2>6, GateApart DEF Attached
  <2>7. QED
    BY <1>2, <2>2, <2>3, <2>4, <2>5, <2>6, Saves DEF Step, GateMoves, OneSession
<1>3. CASE Connect \/ LoadAdopt \/ ReceiveItems \/ Tick
  <2>1. \A p \in Procs : pc[p] = "unledger" => pc'[p] = "unledger"
    BY <1>3 DEF Connect, LoadAdopt, ReceiveItems, Tick, MayStart, At, Goto, TypeOK
  <2>2. QED
    BY <1>3, <2>1 DEF Connect, LoadAdopt, ReceiveItems, Tick, Attached
<1>4. CASE Disconnect
  BY <1>4 DEF Disconnect, Attached
<1>5. CASE Crash
  <2>1. conn # "up"
    BY <1>5, EnvironmentAssumption
    DEF Crash, Exact, Session, TypeOK, EnvironmentAssumption
  <2>2. \A p \in Procs : pc[p] = "idle"
    BY <2>1 DEF Sound, Online
  <2>3. QED
    BY <1>5, <2>2 DEF Crash, Attached
<1>6. CASE NewSave
  BY <1>6 DEF NewSave, TypeOK
<1>7. CASE Send \/ LoadPark \/ AgeResolves \/ YearEnds \/ AnchorLost \/ AnchorFound \/ PlayerMove
  BY <1>7 DEF Send, LoadPark, AgeResolves, YearEnds, AnchorLost, AnchorFound, PlayerMove, Attached
<1>8. QED
  BY <1>1, <1>2, <1>3, <1>4, <1>5, <1>6, <1>7 DEF Next, Environment

\* A step of a thread gives the park one grant or no money at all.
LEMMA StepGrants ==
  ASSUME Careful, IInv, Sound, Exact, Attached, NEW p \in Procs, Step(p)
  PROVE  Money' = Money \/ \E k \in Kinds : Grant!Grant(k)
<1> USE DEF clientVars, procVars, netVars, gameVars, histVars
<1>a. TypeOK /\ Due(p) /\ Owing(p)
  BY DEF IInv, Sound, Exact
<1>b. ASSUME UNCHANGED book PROVE Money' = Money
  BY <1>b DEF Money, Given
<1>1. CASE Baseline(p)
  <2>1. park = "ap" /\ \A k \in Kinds : Given("ap", k) = 0
    BY <1>1, <1>a DEF Baseline, At, Owing
  <2>2. CASE UNCHANGED book
    BY <1>b, <2>2
  <2>3. CASE /\ StartMoney # NoStart
             /\ book' = [book EXCEPT ![park].cash["cash"] = StartMoney,
                                     ![park].base["cash"] = StartMoney,
                                     ![park].net["cash"]  = 0]
    <3>1. ASSUME NEW k \in Kinds
          PROVE  \/ Given("ap", k)' = Given("ap", k)
                 \/ Given("ap", k)' = StartMoney - StartMoney - 0
      BY <1>a, <2>3, Sums, ZenonT(60) DEF Given, TypeOK, Books
    <3>2. \A k \in Kinds : Given("ap", k)' = 0
      BY <2>1, <2>3, <3>1, Numbers
    <3>3. QED
      BY <2>1, <3>2 DEF Money
  <2>4. QED
    BY <1>1, <2>2, <2>3 DEF Baseline
<1>2. CASE WriteBalance(p) /\ Resolved
  <2> DEFINE k == loc[p].kind
  <2>1. k \in Kinds /\ loc[p].delta \in Nat /\ loc[p].delta > 0 /\ pc[p] = "write"
    BY <1>2, <1>a DEF WriteBalance, At, Owing, TypeOK, Locals
  <2>2. /\ \A j \in Kinds : Given("ap", j)' = IF j = k THEN Given("ap", j) + loc[p].delta
                                                       ELSE Given("ap", j)
        /\ loc[p].delta = loc[p].target[k] - mem["slot"].granted[k]
    BY <1>2, <1>a, BalanceWritten
  <2>3. ledgerFor /\ \A q \in Procs : pc[q] # "persist"
    <3>1. \A q \in Procs : pc[q] # "idle" => q = p
      BY <2>1 DEF Sound, Serial
    <3>2. QED
      BY <2>1, <3>1 DEF Attached
  <2>4. Given("ap", k) = mem["slot"].granted[k] /\ loc[p].target[k] = Owed[k][rcvd]
    BY <1>a, <2>1, <2>3 DEF Exact, Session, Exactly, Carrying, Owing
  <2>5. /\ mem["slot"].granted[k] \in Nat /\ Owed[k][rcvd] \in Nat
        /\ rcvd \in 0..NItems /\ sent \in 0..NItems /\ rcvd <= sent /\ Owed[k][0] = 0
    BY <1>a, <2>1, Sums, MoneyAssumption
    DEF IInv, Cursors, TypeOK, Entries, SlotKeys, MoneyAssumption
  <2>6. Given("ap", k) < Owed[k][rcvd] /\ rcvd # 0
    BY <2>1, <2>2, <2>4, <2>5
  <2>7. rcvd \in 1..sent
    BY <2>5, <2>6, Numbers
  <2>8. Given("ap", k) + loc[p].delta = Owed[k][rcvd]
    BY <2>2, <2>4, <2>5
  <2>9. Money' = [Money EXCEPT ![k] = Owed[k][rcvd]]
    BY <2>1, <2>2, <2>8 DEF Money
  <2>10. sent' = sent
    BY <1>2 DEF WriteBalance
  <2>11. QED
    BY <2>1, <2>6, <2>7, <2>9, <2>10 DEF Grant!Grant, Money
<1>3. CASE WriteBalance(p) /\ ~Resolved
  BY <1>b, <1>3 DEF WriteBalance
<1>4. CASE EnterOffline(p) \/ Hold(p) \/ Enter(p) \/ NotFresh(p) \/ FreshDetected(p)
           \/ Unledger(p) \/ Rezero(p) \/ ItemGone(p) \/ SkipUnknown(p) \/ ApplyItem(p)
  BY <1>b, <1>4 DEF EnterOffline, Hold, Enter, NotFresh, FreshDetected, Unledger, Rezero,
                    ItemGone, SkipUnknown, ApplyItem
<1>5. CASE AckItem(p) \/ PauseItem(p) \/ ItemsDone(p) \/ Targets(p) \/ AdoptTarget(p)
           \/ NothingMissing(p) \/ Missing(p) \/ ReadBalance(p) \/ PersistGrant(p)
           \/ LedgerDone(p)
  BY <1>b, <1>5 DEF AckItem, PauseItem, ItemsDone, Targets, AdoptTarget, NothingMissing,
                    Missing, ReadBalance, PersistGrant, LedgerDone
<1>6. CASE GateMoves(p)
  BY <1>a, <1>b, <1>6, GateApart
<1>7. QED
  BY <1>1, <1>2, <1>3, <1>4, <1>5, <1>6, Saves DEF Step, GateMoves

LEMMA StepMaps ==
  ASSUME OneSession, MaxSaves = 0, IInv, Sound, Exact, Attached, [Next]_vars
  PROVE  [Grant!Next]_Grant!vars
<1> USE DEF clientVars, procVars, netVars, gameVars, histVars
<1>a. TypeOK
  BY DEF IInv
<1>b. ASSUME Money' = Money, sent' = sent PROVE UNCHANGED Grant!vars
  BY <1>b DEF Grant!vars, Money
<1>c. ASSUME UNCHANGED book PROVE Money' = Money
  BY <1>c DEF Money, Given
<1>1. CASE UNCHANGED vars
  BY <1>1, <1>b, <1>c DEF vars
<1>2. ASSUME NEW p \in Procs, Step(p) PROVE [Grant!Next]_Grant!vars
  <2>1. sent' = sent
    BY <1>2, <1>a, StepLocal
  <2>2. QED
    BY <1>2, <1>b, <2>1, StepGrants DEF Grant!Next, OneSession
<1>3. CASE Connect \/ LoadAdopt \/ ReceiveItems \/ Disconnect \/ Crash \/ Tick
  BY <1>3, <1>b, <1>c DEF Connect, LoadAdopt, ReceiveItems, Disconnect, Crash, Tick
<1>4. CASE Send
  <2>1. Money' = Money
    BY <1>4, <1>c DEF Send
  <2>2. QED
    BY <1>4, <2>1 DEF Send, Grant!Send, Grant!Next, Money
<1>5. CASE NewSave
  BY <1>5, <1>a DEF NewSave, TypeOK
<1>6. CASE LoadPark \/ AgeResolves \/ YearEnds \/ AnchorLost \/ AnchorFound
  BY <1>6, <1>b, <1>c DEF LoadPark, AgeResolves, YearEnds, AnchorLost, AnchorFound
<1>7. CASE PlayerMove
  <2>1. Money' = Money
    BY <1>7, <1>a, MoveIsNet DEF Money
  <2>2. QED
    BY <1>7, <1>b, <2>1 DEF PlayerMove
<1>8. QED
  BY <1>1, <1>2, <1>3, <1>4, <1>5, <1>6, <1>7 DEF Next, Environment

\* In one session and one save, with a fingerprint that tells the truth, the
\* money of the AP park implements MoneyGrant: whole prefixes of the sent
\* items, one addition at a time, for any items, kinds and sums
\* (_cumulative_targets, _reconcile_cumulative).
THEOREM MoneyIsGranted ==
  ASSUME OneSession, MaxSaves = 0 PROVE Spec /\ []Telling => GrantSpec
<1>1. Init => Grant!Init /\ Attached
  <2>1. Init => Money = [k \in Kinds |-> 0]
    BY GivenInitially DEF Money
  <2>2. QED
    BY <2>1 DEF Grant!Init, Money, Init, Attached
<1>2. IInv /\ Sound /\ Telling /\ Exact /\ [Next]_vars => Exact'
  BY ExactInductive
<1>3. IInv /\ Sound /\ Exact /\ Attached /\ [Next]_vars => Attached'
  BY AttachedStep DEF IInv
<1>4. IInv /\ Sound /\ Exact /\ Attached /\ [Next]_vars => [Grant!Next]_Grant!vars
  BY StepMaps
<1>5. Spec => []Sound
  BY AlwaysSound DEF OneSession
<1>6. QED
  BY <1>1, <1>2, <1>3, <1>4, <1>5, AlwaysIInv, ExactInitially, PTL
  DEF Spec, GrantSpec, Grant!Spec
=============================================================================
