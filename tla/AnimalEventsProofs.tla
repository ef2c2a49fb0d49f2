------------------------- MODULE AnimalEventsProofs -------------------------
(***************************************************************************)
(* Proofs about AnimalEvents: the ring readers return the records that the *)
(* detours have stored, whatever the size of the ring; every variable      *)
(* keeps its type, so no cursor ever passes its ring; and no check is      *)
(* reported for an event that did not happen, as long as no animal changes *)
(* before its insert was drained and no handle is used again.              *)
(***************************************************************************)
EXTENDS AnimalEvents, Integers, SequenceTheorems, TLAPS

-----------------------------------------------------------------------------
(* The rings                                                               *)

\* What the proofs need of the constants and of the small sets.
LEMMA Facts ==
  /\ Mapped \subseteq Species /\ Ring \in Nat /\ Ring >= 1
  /\ None \notin Handles /\ None \notin Species /\ None \notin Animal
  /\ MaxFaults \in Nat /\ MaxReleases \in Nat /\ MaxMoves \in Nat
  /\ Rings = {"habitat", "exhibit"} /\ "habitat" # "exhibit"
  /\ Hooks = {"habitat", "exhibit", "release", "capture"}
BY EventsAssumption DEF EventsAssumption, Rings, Hooks, Animal

\* Two records that share a slot are a ring apart.
LEMMA SlotApart ==
  ASSUME NEW R \in Nat, R >= 1, NEW n \in Nat, NEW k \in Nat,
         n <= k, k < n + R, k % R = n % R
  PROVE  k = n
<1> DEFINE a == n \div R
           b == k \div R
           r == n % R
<1>1. a \in Int /\ b \in Int /\ r \in Int
  OBVIOUS
<1>2. n = R * a + r /\ k = R * b + r
  OBVIOUS
<1> HIDE DEF a, b, r
<1>3. R * a + r <= R * b + r /\ R * b + r < R * a + r + R
  BY <1>1, <1>2
<1>4. a <= b
  BY <1>1, <1>3
<1>5. b < a + 1
  BY <1>1, <1>3
<1>6. a = b
  BY <1>1, <1>4, <1>5
<1> QED
  BY <1>2, <1>6

\* The slot of a record among the last Ring holds that record.
LEMMA InSlotExact ==
  ASSUME NEW r, Len(log[r]) \in Nat, NEW n \in 1..Len(log[r]), n + Ring > Len(log[r])
  PROVE  InSlot(r, n) = log[r][n]
<1> DEFINE c    == Len(log[r])
           same == {m \in 1..c : m % Ring = n % Ring}
           Last(m) == \A k \in same : k <= m
<1> USE Facts
<1>1. ASSUME NEW k \in same, n <= k PROVE k = n
  <2>1. k \in Nat /\ n \in Nat /\ k < n + Ring /\ k % Ring = n % Ring
    OBVIOUS
  <2> QED
    BY <1>1, <2>1, SlotApart
<1>a. same \subseteq Nat /\ n \in same
  OBVIOUS
<1> HIDE DEF same
<1>2. n \in same /\ Last(n)
  BY <1>1, <1>a
<1>3. ASSUME NEW m \in same, Last(m) PROVE m = n
  BY <1>1, <1>2, <1>3, <1>a
<1>4. (CHOOSE m \in same : Last(m)) = n
  BY <1>2, <1>3
<1> QED
  BY <1>4 DEF InSlot, same

\* A reader gets the records after its cursor, in order, or the last Ring of
\* them when there are more: births.py and exhibits.py, poll_events.
THEOREM ReadersExact ==
  ASSUME NEW r, NEW c \in Nat, Len(log[r]) = c, cursor[r] \in 0..c
  PROVE  LET first == FirstIn(c, cursor[r])
         IN  /\ first \in (cursor[r] + 1)..(c + 1)
             /\ first > c - Ring
             /\ c - cursor[r] <= Ring => first = cursor[r] + 1
             /\ RecordsSince(r, c) = [i \in 1..(c + 1 - first) |-> log[r][first + i - 1]]
<1> DEFINE first == FirstIn(c, cursor[r])
<1> USE Facts
<1>1. /\ first \in (cursor[r] + 1)..(c + 1)
      /\ first > c - Ring
      /\ c - cursor[r] <= Ring => first = cursor[r] + 1
  BY DEF FirstIn
<1> HIDE DEF first
<1>2. ASSUME NEW i \in 1..(c + 1 - first)
      PROVE  InSlot(r, first + i - 1) = log[r][first + i - 1]
  <2>1. first + i - 1 \in 1..c /\ first + i - 1 + Ring > c
    BY <1>1
  <2> QED
    BY <2>1, InSlotExact
<1>3. RecordsSince(r, c) = [i \in 1..(c + 1 - first) |-> log[r][first + i - 1]]
  BY <1>2 DEF RecordsSince, first
<1> QED
  BY <1>1, <1>3 DEF first

-----------------------------------------------------------------------------
(* Types                                                                   *)

\* The two rings with their cursors, on top of TypeOK.
Records(r) == IF r = "habitat" THEN Handles ELSE Animal
Shapes == /\ log \in [Rings -> Seq(Handles \cup Animal)] /\ cursor \in [Rings -> Nat]
          /\ \A r \in Rings : log[r] \in Seq(Records(r))
Typed  == TypeOK /\ Shapes

LEMMA TypedInit == Init => Typed
<1> SUFFICES ASSUME Init PROVE Typed
  OBVIOUS
<1> USE Facts
<1>1. \A r \in Rings : log[r] = <<>> /\ cursor[r] = 0
  BY DEF Init
<1>2. Shapes
  BY <1>1 DEF Init, Shapes
<1>3. Present = {} /\ Len(<<>>) = 0
  BY DEF Init, Present
<1>4. TypeOK
  <2>1. /\ roster \in [Handles -> Animal \cup {None}] /\ leaving \subseteq Present
        /\ cache \in [Handles -> Mapped \cup {None}] /\ captured \in Handles \cup {None}
        /\ unswept \subseteq Handles /\ todo \in Seq(Handles \cup {None})
    BY <1>3 DEF Init
  <2>2. /\ log["habitat"] \in Seq(Handles) /\ log["exhibit"] \in Seq(Animal)
        /\ \A r \in Rings : cursor[r] \in 0..Len(log[r])
    <3>1. <<>> \in Seq(Handles) /\ <<>> \in Seq(Animal)
      OBVIOUS
    <3>2. log["habitat"] = <<>> /\ log["exhibit"] = <<>>
      BY <1>1
    <3>3. \A r \in Rings : cursor[r] = 0 /\ Len(log[r]) = 0
      BY <1>1, <1>3
    <3> QED
      BY <3>1, <3>2, <3>3
  <2>3. /\ releases \in 0..MaxReleases /\ seen \in 0..releases
        /\ moves \in 0..MaxMoves /\ faults \in 0..MaxFaults
    BY DEF Init
  <2>4. /\ installed \subseteq Hooks /\ bred \subseteq Mapped /\ acquired \subseteq Mapped
        /\ released \subseteq Mapped /\ reported \subseteq Checks /\ happened \subseteq Checks
        /\ step \in Steps
    BY DEF Init, Steps
  <2>5. lock \in BOOLEAN /\ locked \in BOOLEAN /\ received \in BOOLEAN
    BY DEF Init
  <2> QED
    BY <2>1, <2>2, <2>3, <2>4, <2>5 DEF TypeOK
<1> QED
  BY <1>2, <1>4 DEF Typed

\* What a detour stores is at the end of its ring.
LEMMA RecordTyped ==
  ASSUME Typed, NEW r \in Rings, NEW rec \in Records(r), Record(r, rec), UNCHANGED cursor
  PROVE  /\ Shapes' /\ log'["habitat"] \in Seq(Handles) /\ log'["exhibit"] \in Seq(Animal)
         /\ \A q \in Rings : cursor'[q] \in 0..Len(log'[q])
         /\ \A q \in Rings : q # r => log'[q] = log[q]
         /\ log'[r] = log[r] \/ (r \in installed /\ log'[r] = Append(log[r], rec))
<1> USE Facts
<1>1. \A q \in Rings : log[q] \in Seq(Records(q)) /\ cursor[q] \in 0..Len(log[q])
  BY DEF Typed, TypeOK, Shapes
<1>2. CASE UNCHANGED log
  BY <1>1, <1>2 DEF Typed, TypeOK, Shapes, Records
<1>3. CASE r \in installed /\ log' = [log EXCEPT ![r] = Append(@, rec)]
  <2>1. log'[r] = Append(log[r], rec) /\ \A q \in Rings : q # r => log'[q] = log[q]
    BY <1>3 DEF Typed, Shapes
  <2>2. \A q \in Rings : log'[q] \in Seq(Records(q)) /\ Len(log'[q]) >= Len(log[q])
    <3>1. rec \in Records(r) /\ log[r] \in Seq(Records(r))
      BY <1>1
    <3>2. log'[r] \in Seq(Records(r)) /\ Len(log'[r]) = Len(log[r]) + 1
      BY <2>1, <3>1, AppendProperties
    <3>3. \A q \in Rings : Len(log[q]) \in Nat
      BY <1>1
    <3>4. ASSUME NEW q \in Rings, q # r
          PROVE  log'[q] \in Seq(Records(q)) /\ Len(log'[q]) >= Len(log[q])
      <4>1. log'[q] = log[q]
        BY <2>1, <3>4
      <4> QED
        BY <1>1, <3>3, <4>1
    <3>5. log'[r] \in Seq(Records(r)) /\ Len(log'[r]) >= Len(log[r])
      BY <3>2, <3>3
    <3> QED
      BY <3>4, <3>5
  <2>3. \A q \in Rings : cursor'[q] \in 0..Len(log'[q])
    BY <1>1, <2>2
  <2>4. log' \in [Rings -> Seq(Handles \cup Animal)]
    <3>1. rec \in Handles \cup Animal
      BY DEF Records
    <3>2. Append(log[r], rec) \in Seq(Handles \cup Animal)
      BY <3>1 DEF Typed, Shapes
    <3> QED
      BY <1>3, <3>2 DEF Typed, Shapes
  <2>5. Shapes'
    BY <2>2, <2>4 DEF Typed, Shapes, Records
  <2>6. log'["habitat"] \in Seq(Handles) /\ log'["exhibit"] \in Seq(Animal)
    BY <2>2 DEF Records
  <2> QED
    BY <1>3, <2>1, <2>3, <2>5, <2>6
<1> QED
  BY <1>2, <1>3 DEF Record

\* What a reader gets are records of its ring.
LEMMA NewTyped ==
  ASSUME Typed, NEW r \in Rings
  PROVE  /\ New(r) \in Seq(Records(r))
         /\ \A i \in DOMAIN New(r) : \E n \in (cursor[r] + 1)..Len(log[r]) : New(r)[i] = log[r][n]
<1> USE Facts
<1> DEFINE c == Len(log[r])
           first == FirstIn(c, cursor[r])
<1>1. log[r] \in Seq(Records(r)) /\ cursor[r] \in 0..c /\ c \in Nat
  BY DEF Typed, TypeOK, Shapes
<1>2. /\ first \in (cursor[r] + 1)..(c + 1)
      /\ RecordsSince(r, c) = [i \in 1..(c + 1 - first) |-> log[r][first + i - 1]]
  BY <1>1, ReadersExact
<1> HIDE DEF first
<1>3. \A i \in 1..(c + 1 - first) : first + i - 1 \in (cursor[r] + 1)..c
  BY <1>1, <1>2
<1>4. \A n \in (cursor[r] + 1)..c : n \in 1..c /\ log[r][n] \in Records(r)
  BY <1>1
<1>5. c + 1 - first \in Nat
  BY <1>1, <1>2
<1>6. RecordsSince(r, c) \in Seq(Records(r))
  <2> DEFINE k == c + 1 - first
             f == [i \in 1..k |-> log[r][first + i - 1]]
  <2>1. f \in [1..k -> Records(r)]
    BY <1>3, <1>4
  <2>2. f \in Seq(Records(r))
    BY <1>5, <2>1, SeqDef
  <2> QED
    BY <1>2, <2>2
<1>7. \A i \in DOMAIN RecordsSince(r, c) :
        \E n \in (cursor[r] + 1)..c : RecordsSince(r, c)[i] = log[r][n]
  BY <1>2, <1>3
<1> QED
  BY <1>6, <1>7 DEF New

LEMMA EnsureTyped ==
  ASSUME Typed, NEW hook \in Hooks, Ensure(hook)
  PROVE  installed' \subseteq Hooks /\ faults' \in 0..MaxFaults
<1>1. installed' \subseteq Hooks
  BY DEF Typed, TypeOK, Ensure
<1>2. faults' \in 0..MaxFaults
  BY Facts DEF Typed, TypeOK, Ensure, Fault
<1> QED
  BY <1>1, <1>2

\* The cursor after a drain.
LEMMA AdvanceTyped ==
  ASSUME Typed, NEW r \in Rings, Advance(r), UNCHANGED log
  PROVE  Shapes' /\ \A q \in Rings : cursor'[q] \in 0..Len(log'[q])
<1> USE Facts
<1>1. \A q \in Rings : Len(log[q]) \in Nat
  BY DEF Typed, Shapes
<1>2. \A q \in Rings : cursor'[q] = (IF q = r THEN Len(log[r]) ELSE cursor[q])
  BY DEF Typed, Shapes, Advance
<1>3. \A q \in Rings : cursor'[q] \in 0..Len(log'[q])
  BY <1>1, <1>2 DEF Typed, TypeOK
<1>4. cursor' \in [Rings -> Nat]
  BY <1>1 DEF Typed, Shapes, Advance
<1> QED
  BY <1>3, <1>4 DEF Typed, Shapes, Records

\* A ring that is left alone.
LEMMA LogTyped ==
  ASSUME Typed, UNCHANGED <<log, cursor>>
  PROVE  /\ Shapes' /\ log'["habitat"] \in Seq(Handles) /\ log'["exhibit"] \in Seq(Animal)
         /\ \A q \in Rings : cursor'[q] \in 0..Len(log'[q])
BY DEF Typed, TypeOK, Shapes, Records

\* The species that a roster look-up yields.
LEMMA LookedUp ==
  ASSUME NEW h, Known(h)
  PROVE  roster[h].species \in Mapped
BY DEF Known

LEMMA TypedTick ==
  ASSUME Typed, Tick
  PROVE  Typed'
<1> USE Facts DEF gameVars, setVars, tickVars
<1>t. Typed /\ TypeOK /\ Shapes
  BY DEF Typed
<1>1. CASE ReadRing
  <2>1. todo' \in Seq(Handles \cup {None})
    <3>1. CASE todo' = New("habitat")
      <4>1. New("habitat") \in Seq(Handles)
        BY NewTyped DEF Records
      <4> QED
        BY <3>1, <4>1
    <3>2. CASE todo' = <<>>
      BY <3>2
    <3> QED
      BY <1>1, <3>1, <3>2 DEF ReadRing
  <2>2. installed' \subseteq Hooks /\ faults' \in 0..MaxFaults
    <3>1. CASE Ensure("habitat")
      BY <3>1, EnsureTyped
    <3>2. CASE Fault("drain") /\ UNCHANGED installed
      BY <3>2, <1>t DEF Fault, TypeOK
    <3> QED
      BY <1>1, <3>1, <3>2 DEF ReadRing
  <2>3. Shapes' /\ \A q \in Rings : cursor'[q] \in 0..Len(log'[q])
    BY <1>1, AdvanceTyped, LogTyped DEF ReadRing
  <2>4. TypeOK'
    BY <1>1, <2>1, <2>2, <2>3, <1>t DEF ReadRing, TypeOK, Present, Steps
  <2> QED
    BY <2>3, <2>4 DEF Typed
<1>2. CASE DrainInsert
  <2> DEFINE h == Head(todo)
  <2>1. h \in Handles \cup {None} /\ todo' \in Seq(Handles \cup {None})
    BY <1>2, <1>t, HeadTailProperties DEF DrainInsert, TypeOK
  <2>2. /\ cache' \in [Handles -> Mapped \cup {None}]
        /\ bred' \subseteq Mapped /\ acquired' \subseteq Mapped
    <3>1. CASE Known(h) /\ cache' = [cache EXCEPT ![h] = roster[h].species] /\ Classify(roster[h])
      <4>1. roster[h].species \in Mapped
        BY <3>1, LookedUp
      <4> QED
        BY <3>1, <4>1, <1>t DEF Classify, TypeOK
    <3>2. CASE UNCHANGED <<cache, bred, acquired>>
      BY <3>2, <1>t DEF TypeOK
    <3> QED
      BY <1>2, <3>1, <3>2 DEF DrainInsert
  <2>3. faults' \in 0..MaxFaults
    BY <1>2, <1>t DEF DrainInsert, Fault, TypeOK
  <2>4. Shapes' /\ \A q \in Rings : cursor'[q] \in 0..Len(log'[q])
    BY <1>2, LogTyped DEF DrainInsert
  <2>5. TypeOK'
    BY <1>2, <2>1, <2>2, <2>3, <2>4, <1>t DEF DrainInsert, TypeOK, Present
  <2> QED
    BY <2>4, <2>5 DEF Typed
<1>3. CASE DrainExhibit
  <2>1. bred' \subseteq Mapped /\ acquired' \subseteq Mapped
    BY <1>3, <1>t DEF DrainExhibit, TypeOK
  <2>2. installed' \subseteq Hooks /\ faults' \in 0..MaxFaults
    <3>1. CASE Ensure("exhibit")
      BY <3>1, EnsureTyped
    <3>2. CASE Fault("drain") /\ UNCHANGED installed
      BY <3>2, <1>t DEF Fault, TypeOK
    <3> QED
      BY <1>3, <3>1, <3>2 DEF DrainExhibit
  <2>3. Shapes' /\ \A q \in Rings : cursor'[q] \in 0..Len(log'[q])
    BY <1>3, AdvanceTyped, LogTyped DEF DrainExhibit
  <2>4. TypeOK'
    BY <1>3, <2>1, <2>2, <2>3, <1>t DEF DrainExhibit, TypeOK, Present, Steps
  <2> QED
    BY <2>3, <2>4 DEF Typed
<1>4. CASE SweepRoster
  <2>1. cache' \in [Handles -> Mapped \cup {None}]
    <3>1. CASE cache' = [h \in Handles |-> IF h \in Swept THEN roster[h].species ELSE cache[h]]
      <4>1. \A h \in Swept : roster[h].species \in Mapped
        BY LookedUp DEF Swept
      <4> QED
        BY <3>1, <4>1, <1>t DEF TypeOK
    <3>2. CASE UNCHANGED cache
      BY <3>2, <1>t DEF TypeOK
    <3> QED
      BY <1>4, <3>1, <3>2 DEF SweepRoster
  <2>2. reported' \subseteq Checks
    BY <1>4, <1>t DEF SweepRoster, TypeOK, Checks, Triggers
  <2>3. unswept' \subseteq Handles /\ faults' \in 0..MaxFaults
    BY <1>4, <1>t DEF SweepRoster, TypeOK, Fault
  <2>4. Shapes' /\ \A q \in Rings : cursor'[q] \in 0..Len(log'[q])
    BY <1>4, LogTyped DEF SweepRoster
  <2>5. TypeOK'
    BY <1>4, <2>1, <2>2, <2>3, <2>4, <1>t DEF SweepRoster, TypeOK, Present, Steps
  <2> QED
    BY <2>4, <2>5 DEF Typed
<1>5. CASE InstallGate \/ InstallCapture
  <2>1. installed' \subseteq Hooks /\ faults' \in 0..MaxFaults /\ step' \in Steps
    <3>1. installed' \subseteq Hooks
      BY <1>5, <1>t DEF InstallGate, InstallCapture, TypeOK
    <3>2. faults' \in 0..MaxFaults
      BY <1>5, <1>t DEF InstallGate, InstallCapture, Fault, TypeOK
    <3>3. step' \in Steps
      BY <1>5 DEF InstallGate, InstallCapture, Steps
    <3> QED
      BY <3>1, <3>2, <3>3
  <2>2. lock' \in BOOLEAN
    BY <1>5, <1>t DEF InstallGate, InstallCapture, TypeOK
  <2>3. Shapes' /\ \A q \in Rings : cursor'[q] \in 0..Len(log'[q])
    BY <1>5, LogTyped DEF InstallGate, InstallCapture
  <2>4. TypeOK'
    BY <1>5, <2>1, <2>2, <2>3, <1>t DEF InstallGate, InstallCapture, TypeOK, Present
  <2> QED
    BY <2>3, <2>4 DEF Typed
<1>6. CASE ReadReleases
  <2>1. seen' \in 0..releases /\ step' \in Steps
    BY <1>6, <1>t DEF ReadReleases, TypeOK, Steps
  <2>2. Shapes' /\ \A q \in Rings : cursor'[q] \in 0..Len(log'[q])
    BY <1>6, LogTyped DEF ReadReleases
  <2>3. TypeOK'
    BY <1>6, <2>1, <2>2, <1>t DEF ReadReleases, TypeOK, Present
  <2> QED
    BY <2>2, <2>3 DEF Typed
<1>7. CASE AttributeRelease
  <2>1. Attributed(captured) \in Mapped \cup {None}
    <3>1. Known(captured) => roster[captured].species \in Mapped
      BY LookedUp
    <3> QED
      BY <3>1, <1>t DEF Attributed, TypeOK
  <2>2. released' \subseteq Mapped
    BY <1>7, <2>1, <1>t DEF AttributeRelease, TypeOK
  <2>4. Shapes' /\ \A q \in Rings : cursor'[q] \in 0..Len(log'[q])
    BY <1>7, LogTyped DEF AttributeRelease
  <2>5. TypeOK'
    BY <1>7, <2>2, <2>4, <1>t DEF AttributeRelease, TypeOK, Present, Steps
  <2> QED
    BY <2>4, <2>5 DEF Typed
<1>8. CASE EndTick
  <2>1. reported' \subseteq Checks
    BY <1>8, <1>t DEF EndTick, TypeOK, Checks, Triggers
  <2>2. locked' \in BOOLEAN
    BY <1>8, <1>t DEF EndTick, TypeOK
  <2>3. lock' \in BOOLEAN
    BY <1>8, <1>t DEF EndTick, LockFlag, TypeOK
  <2>4. faults' \in 0..MaxFaults
    BY <1>8, <1>t DEF EndTick, Fault, TypeOK
  <2>5. Shapes' /\ \A q \in Rings : cursor'[q] \in 0..Len(log'[q])
    BY <1>8, LogTyped DEF EndTick
  <2>6. TypeOK'
    BY <1>8, <2>1, <2>2, <2>3, <2>4, <2>5, <1>t DEF EndTick, TypeOK, Present, Steps
  <2> QED
    BY <2>5, <2>6 DEF Typed
<1> QED
  BY <1>1, <1>2, <1>3, <1>4, <1>5, <1>6, <1>7, <1>8 DEF Tick

\* The history only grows by checks of the right kind.
LEMMA CheckTyped ==
  ASSUME NEW a \in Animal
  PROVE  Check(a) \in Checks /\ a.species \in Species /\ a # None
BY Facts DEF Check, Checks, Triggers, Animal

LEMMA TypedGame ==
  ASSUME Typed, Game
  PROVE  Typed'
<1> USE Facts DEF setVars, tickVars
<1>t. Typed /\ TypeOK /\ Shapes
  BY DEF Typed
<1>m. moves' \in 0..MaxMoves
  BY <1>t DEF Game, TypeOK
\* What the steps of the game have in common.
<1> DEFINE Kept == /\ UNCHANGED <<lock, installed, cursor, cache, setVars, seen, locked, received,
                                  tickVars, faults>>
           Rest == /\ roster' \in [Handles -> Animal \cup {None}] /\ leaving' \subseteq Present'
                   /\ unswept' \subseteq Handles /\ happened' \subseteq Checks
                   /\ Shapes' /\ log'["habitat"] \in Seq(Handles)
                   /\ log'["exhibit"] \in Seq(Animal)
                   /\ \A q \in Rings : cursor'[q] \in 0..Len(log'[q])
                   /\ releases' \in 0..MaxReleases /\ seen' \in 0..releases'
                   /\ captured' \in Handles \cup {None}
<1>q. ASSUME Kept, Rest PROVE Typed'
  <2>1. /\ lock' \in BOOLEAN /\ installed' \subseteq Hooks
        /\ cache' \in [Handles -> Mapped \cup {None}]
        /\ bred' \subseteq Mapped /\ acquired' \subseteq Mapped /\ released' \subseteq Mapped
        /\ reported' \subseteq Checks
        /\ locked' \in BOOLEAN /\ received' \in BOOLEAN
        /\ step' \in Steps /\ todo' \in Seq(Handles \cup {None}) /\ faults' \in 0..MaxFaults
    BY <1>q, <1>t DEF TypeOK
  <2>2. TypeOK'
    BY <1>q, <1>m, <2>1 DEF TypeOK
  <2> QED
    BY <1>q, <2>2 DEF Typed
\* An animal that enters the roster under a free handle.
<1>r. ASSUME NEW h \in Handles, NEW a \in Animal, roster[h] = None,
             roster' = [roster EXCEPT ![h] = a], UNCHANGED leaving
      PROVE  roster' \in [Handles -> Animal \cup {None}] /\ leaving' \subseteq Present'
  BY <1>r, <1>t DEF TypeOK, Present
<1>1. ASSUME NEW h \in Handles, NEW s \in Species, Buy(h, s) PROVE Typed'
  <2> DEFINE a == [species |-> s, newborn |-> FALSE]
  <2>1. a \in Animal
    BY DEF Animal
  <2>2. roster' \in [Handles -> Animal \cup {None}] /\ leaving' \subseteq Present'
    BY <1>1, <1>r, <2>1 DEF Buy, MayUse
  <2>3. Rest
    BY <1>1, <1>t, <2>2, LogTyped DEF Buy, TypeOK
  <2> QED
    BY <1>1, <1>q, <2>3 DEF Buy
<1>2. ASSUME NEW h \in Handles, NEW s \in Species, Bear(h, s) PROVE Typed'
  <2> DEFINE a == [species |-> s, newborn |-> TRUE]
  <2>1. a \in Animal
    BY DEF Animal
  <2>2. roster' \in [Handles -> Animal \cup {None}] /\ leaving' \subseteq Present'
    BY <1>2, <1>r, <2>1 DEF Bear, MayUse
  <2>3. happened' \subseteq Checks
    BY <1>2, <1>t, <2>1, CheckTyped DEF Bear, Witness, TypeOK
  <2>4. h \in Records("habitat")
    BY DEF Records
  <2>5. /\ Shapes' /\ log'["habitat"] \in Seq(Handles) /\ log'["exhibit"] \in Seq(Animal)
        /\ \A q \in Rings : cursor'[q] \in 0..Len(log'[q])
    BY <1>2, <2>4, RecordTyped DEF Bear
  <2>6. Rest
    BY <1>2, <1>t, <2>2, <2>3, <2>5 DEF Bear, TypeOK
  <2> QED
    BY <1>2, <1>q, <2>6 DEF Bear
<1>3. ASSUME NEW h \in Handles, Place(h) PROVE Typed'
  <2>1. roster[h] \in Animal
    BY <1>3, <1>t DEF Place, Present, TypeOK
  <2>2. roster' \in [Handles -> Animal \cup {None}] /\ leaving' \subseteq Present'
    BY <1>3, <1>t DEF Place, TypeOK, Present
  <2>3. happened' \subseteq Checks
    BY <1>3, <1>t, <2>1, CheckTyped DEF Place, Witness, TypeOK
  <2>4. h \in Records("habitat")
    BY DEF Records
  <2>5. /\ Shapes' /\ log'["habitat"] \in Seq(Handles) /\ log'["exhibit"] \in Seq(Animal)
        /\ \A q \in Rings : cursor'[q] \in 0..Len(log'[q])
    BY <1>3, <2>4, RecordTyped DEF Place
  <2>6. Rest
    BY <1>3, <1>t, <2>2, <2>3, <2>5 DEF Place, TypeOK
  <2> QED
    BY <1>3, <1>q, <2>6 DEF Place
<1>4. ASSUME NEW h \in Handles, Grow(h) PROVE Typed'
  <2>1. roster[h] \in Animal
    BY <1>4, <1>t DEF Grow, Present, TypeOK
  <2>2. [roster[h] EXCEPT !.newborn = FALSE] \in Animal
    BY <2>1 DEF Animal
  <2>3. roster' = [roster EXCEPT ![h] = [roster[h] EXCEPT !.newborn = FALSE]]
    BY <1>4, <1>t DEF Grow, TypeOK
  <2>4. roster' \in [Handles -> Animal \cup {None}]
    BY <2>2, <2>3, <1>t DEF TypeOK
  <2>5. leaving' \subseteq Present'
    BY <1>4, <2>2, <2>3, <1>t DEF Grow, TypeOK, Present
  <2>6. Rest
    BY <1>4, <1>t, <2>4, <2>5, LogTyped DEF Grow, TypeOK
  <2> QED
    BY <1>4, <1>q, <2>6 DEF Grow
<1>5. ASSUME NEW h \in Handles, Depart(h) PROVE Typed'
  <2>1. roster' \in [Handles -> Animal \cup {None}] /\ leaving' \subseteq Present'
    BY <1>5, <1>t DEF Depart, TypeOK, Present
  <2>2. Rest
    BY <1>5, <1>t, <2>1, LogTyped DEF Depart, TypeOK
  <2> QED
    BY <1>5, <1>q, <2>2 DEF Depart
<1>6. ASSUME NEW h \in Handles, Release(h) PROVE Typed'
  <2>1. roster[h] \in Animal /\ h \in Present
    BY <1>6, <1>t DEF Release, Present, TypeOK
  <2>2. <<"conservation_release", roster[h].species>> \in Checks
    BY <2>1, CheckTyped DEF Checks, Triggers
  <2>3. roster' \in [Handles -> Animal \cup {None}] /\ leaving' \subseteq Present'
    BY <1>6, <2>1, <1>t DEF Release, TypeOK, Present
  <2>4. happened' \subseteq Checks
    BY <1>6, <2>2, <1>t DEF Release, Witness, TypeOK
  <2>5. releases' \in 0..MaxReleases /\ seen' \in 0..releases'
    BY <1>6, <1>t DEF Release, TypeOK
  <2>6. Rest
    BY <1>6, <1>t, <2>3, <2>4, <2>5, LogTyped DEF Release, Capture, TypeOK
  <2> QED
    BY <1>6, <1>q, <2>6 DEF Release
<1>7. ASSUME NEW a \in Animal, AddExhibit(a) PROVE Typed'
  <2>1. a \in Records("exhibit")
    BY DEF Records
  <2>2. happened' \subseteq Checks
    BY <1>7, <1>t, CheckTyped DEF AddExhibit, Witness, TypeOK
  <2>3. /\ Shapes' /\ log'["habitat"] \in Seq(Handles) /\ log'["exhibit"] \in Seq(Animal)
        /\ \A q \in Rings : cursor'[q] \in 0..Len(log'[q])
    BY <1>7, <2>1, RecordTyped DEF AddExhibit
  <2>4. Rest
    BY <1>7, <1>t, <2>2, <2>3 DEF AddExhibit, TypeOK, Present
  <2> QED
    BY <1>7, <1>q, <2>4 DEF AddExhibit
<1> QED
  BY <1>1, <1>2, <1>3, <1>4, <1>5, <1>6, <1>7 DEF Game

LEMMA TypedStep == Typed /\ [Next]_vars => Typed'
<1> SUFFICES ASSUME Typed, [Next]_vars PROVE Typed'
  OBVIOUS
<1>1. CASE ReceiveProgram \/ UNCHANGED vars
  <2>1. /\ UNCHANGED <<gameVars, installed, cursor, cache, setVars, seen, locked, tickVars,
                       happened, unswept, faults, moves>>
        /\ received' \in BOOLEAN
    BY <1>1 DEF ReceiveProgram, vars, Typed, TypeOK
  <2>2. Shapes' /\ \A q \in Rings : cursor'[q] \in 0..Len(log'[q])
    BY <2>1, LogTyped DEF gameVars
  <2>3. TypeOK'
    BY <2>1, <2>2 DEF gameVars, setVars, tickVars, Typed, TypeOK, Present
  <2> QED
    BY <2>2, <2>3 DEF Typed
<1> QED
  BY <1>1, TypedTick, TypedGame DEF Next

\* Every variable keeps its type, whatever the interleaving; in particular no
\* cursor is ever ahead of its ring, so no record is skipped for good.
THEOREM TypeCorrect == Spec => []TypeOK
<1>1. Typed => TypeOK
  BY DEF Typed
<1> QED
  BY <1>1, TypedInit, TypedStep, PTL DEF Spec

-----------------------------------------------------------------------------
(* No check without its event                                              *)

\* An animal stays as its insert recorded it until the insert is drained, and
\* a handle with a cached species is not used again.
Steady == "quick" \notin Races /\ "reuse" \notin Races

\* An insert still to be looked up is about an animal in the roster whose check
\* is due.
Pending ==
  \A h \in Handles : Busy(h) => roster[h] # None /\ Check(roster[h]) \in happened

\* So is every exhibit record.
Exhibited ==
  \A n \in 1..Len(log["exhibit"]) : Check(log["exhibit"][n]) \in happened

\* What the client has learned has happened.
Learned ==
  /\ {"first_breed"} \X bred \subseteq happened
  /\ {"first_acquire"} \X acquired \subseteq happened
  /\ {"conservation_release"} \X released \subseteq happened
  /\ reported \subseteq happened

\* The cache does not mistake an animal in the roster for another one.
Cached ==
  \A h \in Present : cache[h] # None => cache[h] = roster[h].species

\* Both ways of attributing the last release name a species released.
LastRelease ==
  captured # None =>
    /\ cache[captured] # None => <<"conservation_release", cache[captured]>> \in happened
    /\ roster[captured] # None =>
         <<"conservation_release", roster[captured].species>> \in happened

Truthful == Typed /\ Pending /\ Exhibited /\ Learned /\ Cached /\ LastRelease

LEMMA TruthfulInit == Init => Truthful
<1> SUFFICES ASSUME Init PROVE Truthful
  OBVIOUS
<1> USE Facts
<1>1. \A r \in Rings : log[r] = <<>> /\ cursor[r] = 0 /\ Len(log[r]) = 0
  BY DEF Init
<1>2. Pending
  BY <1>1 DEF Init, Pending, Busy, Undrained
<1>3. Exhibited
  BY <1>1 DEF Exhibited
<1>4. Learned
  BY DEF Init, Learned
<1>5. Cached
  BY DEF Init, Cached, Present
<1>6. LastRelease
  BY DEF Init, LastRelease
<1> QED
  BY <1>2, <1>3, <1>4, <1>5, <1>6, TypedInit DEF Truthful

\* A step of the poll does not add to what has happened, nor to the inserts
\* still to be looked up.
LEMMA BusyTick ==
  ASSUME Typed, Tick, NEW h \in Handles, Busy(h)'
  PROVE  Busy(h)
<1> USE Facts
<1>t. /\ \A r \in Rings : Len(log[r]) \in Nat /\ cursor[r] \in 0..Len(log[r])
      /\ cursor \in [Rings -> Nat]
  BY DEF Typed, TypeOK, Shapes
<1>1. CASE ReadRing
  <2>1. CASE Advance("habitat") /\ todo' = New("habitat")
    <3>1. cursor'["habitat"] = Len(log["habitat"]) /\ log' = log
      BY <1>1, <2>1, <1>t DEF ReadRing, gameVars, Advance
    <3>2. ~Undrained(h)'
      BY <3>1, <1>t DEF Undrained
    <3>3. PICK i \in DOMAIN New("habitat") : New("habitat")[i] = h
      BY <2>1, <3>2 DEF Busy
    <3>4. PICK n \in (cursor["habitat"] + 1)..Len(log["habitat"]) : h = log["habitat"][n]
      BY <3>3, NewTyped
    <3> QED
      BY <3>4 DEF Busy, Undrained
  <2>2. CASE todo' = <<>> /\ UNCHANGED cursor
    <3>1. log' = log
      BY <1>1 DEF ReadRing, gameVars
    <3> QED
      BY <2>2, <3>1 DEF Busy, Undrained
  <2> QED
    BY <1>1, <2>1, <2>2 DEF ReadRing
<1>2. CASE DrainInsert
  <2>1. /\ step = "events" /\ todo # <<>> /\ todo' = Tail(todo)
        /\ log' = log /\ cursor' = cursor
    BY <1>2 DEF DrainInsert, gameVars
  <2>2. todo \in Seq(Handles \cup {None})
    BY DEF Typed, TypeOK
  <2>3. \A i \in DOMAIN Tail(todo) : i + 1 \in DOMAIN todo /\ Tail(todo)[i] = todo[i + 1]
    BY <2>1, <2>2, HeadTailProperties
  <2> QED
    BY <2>1, <2>3 DEF Busy, Undrained
<1>3. CASE DrainExhibit
  <2>1. log' = log /\ cursor'["habitat"] = cursor["habitat"] /\ step' # "events"
    BY <1>3, <1>t DEF DrainExhibit, gameVars, Advance
  <2> QED
    BY <2>1 DEF Busy, Undrained
<1>4. CASE SweepRoster \/ InstallGate \/ InstallCapture \/ ReadReleases \/ AttributeRelease
           \/ EndTick
  <2>1. log' = log /\ cursor' = cursor /\ step' # "events"
    BY <1>4 DEF SweepRoster, InstallGate, InstallCapture, ReadReleases, AttributeRelease,
                EndTick, gameVars
  <2> QED
    BY <2>1 DEF Busy, Undrained
<1> QED
  BY <1>1, <1>2, <1>3, <1>4 DEF Tick

LEMMA TickKeeps ==
  ASSUME Tick
  PROVE  UNCHANGED <<roster, log, captured, happened>>
BY DEF Tick, ReadRing, DrainInsert, DrainExhibit, SweepRoster, InstallGate, InstallCapture,
       ReadReleases, AttributeRelease, EndTick, gameVars

LEMMA TruthfulTick ==
  ASSUME Truthful, Tick
  PROVE  Truthful'
<1> USE Facts DEF setVars
<1>t. Typed /\ TypeOK /\ Shapes
  BY DEF Truthful, Typed
<1>a. UNCHANGED <<roster, log, captured, happened>>
  BY TickKeeps
<1>b. Typed'
  BY <1>t, TypedTick
<1>c. Pending'
  BY <1>a, <1>t, BusyTick DEF Truthful, Pending, Check
<1>d. Exhibited'
  BY <1>a DEF Truthful, Exhibited, Check
<1>e. SUFFICES Learned' /\ Cached' /\ LastRelease'
  BY <1>b, <1>c, <1>d DEF Truthful
\* A step that learns nothing and leaves the cache alone.
<1>q. ASSUME UNCHANGED cache PROVE Cached' /\ LastRelease'
  BY <1>q, <1>a DEF Truthful, Cached, LastRelease, Present
<1>p. ASSUME UNCHANGED <<bred, acquired, released, reported>> PROVE Learned'
  BY <1>p, <1>a DEF Truthful, Learned
\* A cache that follows the roster where it changes.
<1>r. ASSUME NEW S \in SUBSET Handles, \A h \in S : Known(h),
             cache' = [h \in Handles |-> IF h \in S THEN roster[h].species ELSE cache[h]]
      PROVE  Cached' /\ LastRelease'
  <2>1. Cached'
    BY <1>r, <1>a, <1>t DEF Truthful, Cached, Present
  <2>2. LastRelease'
    BY <1>r, <1>a, <1>t DEF Truthful, LastRelease, Known, TypeOK
  <2> QED
    BY <2>1, <2>2
<1>1. CASE ReadRing
  BY <1>1, <1>p, <1>q DEF ReadRing
<1>2. CASE DrainInsert
  <2> DEFINE h == Head(todo)
  <2>1. CASE UNCHANGED <<cache, bred, acquired>>
    BY <1>2, <2>1, <1>p, <1>q DEF DrainInsert
  <2>2. CASE Known(h) /\ cache' = [cache EXCEPT ![h] = roster[h].species] /\ Classify(roster[h])
    <3>1. h \in Handles /\ h \in {todo[i] : i \in DOMAIN todo}
      <4>1. todo # <<>> /\ todo \in Seq(Handles \cup {None})
        BY <1>2, <1>t DEF DrainInsert, TypeOK
      <4>2. 1 \in DOMAIN todo /\ todo[1] = h /\ h \in Handles \cup {None}
        BY <4>1, HeadTailProperties
      <4> QED
        BY <2>2, <4>2 DEF Known
    <3>2. Busy(h)
      BY <1>2, <3>1 DEF DrainInsert, Busy
    <3>3. Check(roster[h]) \in happened
      BY <3>1, <3>2 DEF Truthful, Pending
    <3>4. Cached' /\ LastRelease'
      <4>1. cache' = [g \in Handles |-> IF g \in {h} THEN roster[g].species ELSE cache[g]]
        BY <2>2, <3>1, <1>t DEF TypeOK
      <4> QED
        BY <1>r, <2>2, <3>1, <4>1
    <3>5. Learned'
      <4>1. CASE roster[h].newborn
        <5>1. bred' = bred \cup {roster[h].species} /\ UNCHANGED acquired
          BY <2>2, <4>1 DEF Classify
        <5>2. <<"first_breed", roster[h].species>> \in happened
          BY <3>3, <4>1 DEF Check
        <5> QED
          BY <1>2, <5>1, <5>2, <1>a DEF DrainInsert, Truthful, Learned
      <4>2. CASE ~roster[h].newborn
        <5>1. acquired' = acquired \cup {roster[h].species} /\ UNCHANGED bred
          BY <2>2, <4>2 DEF Classify
        <5>2. <<"first_acquire", roster[h].species>> \in happened
          BY <3>3, <4>2 DEF Check
        <5> QED
          BY <1>2, <5>1, <5>2, <1>a DEF DrainInsert, Truthful, Learned
      <4> QED
        BY <4>1, <4>2
    <3> QED
      BY <3>4, <3>5
  <2> QED
    BY <1>2, <2>1, <2>2 DEF DrainInsert
<1>3. CASE DrainExhibit
  <2>1. Cached' /\ LastRelease'
    BY <1>3, <1>q DEF DrainExhibit
  <2>2. CASE UNCHANGED <<bred, acquired>>
    BY <1>3, <2>1, <2>2, <1>p DEF DrainExhibit
  <2>3. ASSUME NEW i \in DOMAIN New("exhibit") PROVE Check(New("exhibit")[i]) \in happened
    <3>1. PICK n \in (cursor["exhibit"] + 1)..Len(log["exhibit"]) :
                 New("exhibit")[i] = log["exhibit"][n]
      BY <1>t, NewTyped
    <3>2. n \in 1..Len(log["exhibit"])
      BY <1>t DEF TypeOK
    <3> QED
      BY <3>1, <3>2 DEF Truthful, Exhibited
  <2> DEFINE new == {New("exhibit")[i] : i \in DOMAIN New("exhibit")}
             Born == {a.species : a \in {b \in new : b.newborn}} \cap Mapped
             Got  == {a.species : a \in {b \in new : ~b.newborn}} \cap Mapped
  <2>4. CASE bred' = bred \cup Born /\ acquired' = acquired \cup Got
    <3>1. \A a \in new : Check(a) \in happened
      BY <2>3
    <3>2. {"first_breed"} \X Born \subseteq happened
      BY <3>1 DEF Check
    <3>3. {"first_acquire"} \X Got \subseteq happened
      BY <3>1 DEF Check
    <3> HIDE DEF Born, Got
    <3>4. Learned'
      BY <1>3, <2>4, <3>2, <3>3, <1>a DEF DrainExhibit, Truthful, Learned
    <3> QED
      BY <2>1, <3>4
  <2> QED
    BY <1>3, <2>2, <2>4 DEF DrainExhibit
<1>4. CASE SweepRoster
  <2>1. Learned'
    BY <1>4, <1>a DEF SweepRoster, Truthful, Learned
  <2>2. CASE cache' = [h \in Handles |-> IF h \in Swept THEN roster[h].species ELSE cache[h]]
    <3>1. Swept \in SUBSET Handles /\ \A h \in Swept : Known(h)
      BY DEF Swept, Present
    <3>2. Cached' /\ LastRelease'
      BY <1>r, <2>2, <3>1
    <3> QED
      BY <2>1, <3>2
  <2>3. CASE UNCHANGED cache
    BY <2>1, <2>3, <1>q
  <2> QED
    BY <1>4, <2>2, <2>3 DEF SweepRoster
<1>5. CASE InstallGate \/ InstallCapture
  BY <1>5, <1>p, <1>q DEF InstallGate, InstallCapture
<1>6. CASE ReadReleases
  BY <1>6, <1>p, <1>q DEF ReadReleases
<1>7. CASE AttributeRelease
  <2>1. {"conservation_release"} \X ({Attributed(captured)} \ {None}) \subseteq happened
    BY DEF Attributed, Known, Truthful, LastRelease
  <2>2. Learned'
    BY <1>7, <2>1, <1>a DEF AttributeRelease, Truthful, Learned
  <2> QED
    BY <1>7, <2>2, <1>q DEF AttributeRelease
<1>8. CASE EndTick
  <2>1. Learned'
    BY <1>8, <1>a DEF EndTick, Truthful, Learned
  <2> QED
    BY <1>8, <2>1, <1>q DEF EndTick
<1> QED
  BY <1>1, <1>2, <1>3, <1>4, <1>5, <1>6, <1>7, <1>8 DEF Tick

\* What a step of the game does to the inserts still to be looked up.
LEMMA BusyGame ==
  ASSUME Typed, NEW r \in Rings, NEW rec \in Records(r), Record(r, rec),
         UNCHANGED <<cursor, step, todo>>, NEW h \in Handles, Busy(h)'
  PROVE  Busy(h) \/ (r = "habitat" /\ rec = h /\ r \in installed)
<1> USE Facts
<1>1. /\ \A q \in Rings : q # r => log'[q] = log[q]
      /\ log'[r] = log[r] \/ (r \in installed /\ log'[r] = Append(log[r], rec))
  BY RecordTyped
<1>2. log["habitat"] \in Seq(Handles) /\ log[r] \in Seq(Records(r)) /\ cursor["habitat"] \in Nat
  BY DEF Typed, TypeOK, Shapes
<1>3. CASE log'["habitat"] = log["habitat"]
  BY <1>3 DEF Busy, Undrained
<1>4. CASE r = "habitat" /\ r \in installed /\ log'[r] = Append(log[r], rec)
  <2>1. \A n \in 1..Len(log'["habitat"]) :
          log'["habitat"][n] = IF n = Len(log["habitat"]) + 1 THEN rec ELSE log["habitat"][n]
    BY <1>2, <1>4, AppendProperties
  <2>2. Len(log'["habitat"]) = Len(log["habitat"]) + 1
    BY <1>2, <1>4, AppendProperties
  <2>3. CASE Undrained(h)'
    <3>1. PICK n \in (cursor["habitat"] + 1)..Len(log'["habitat"]) : log'["habitat"][n] = h
      BY <2>3 DEF Undrained
    <3>2. n = Len(log["habitat"]) + 1 \/ n \in (cursor["habitat"] + 1)..Len(log["habitat"])
      BY <1>2, <2>2
    <3>3. n \in 1..Len(log'["habitat"])
      BY <1>2, <2>2
    <3>4. CASE n = Len(log["habitat"]) + 1
      BY <1>4, <2>1, <3>1, <3>3, <3>4
    <3>5. CASE n # Len(log["habitat"]) + 1
      BY <2>1, <3>1, <3>2, <3>3, <3>5 DEF Busy, Undrained
    <3> QED
      BY <3>4, <3>5
  <2>4. CASE ~Undrained(h)'
    BY <2>4 DEF Busy
  <2> QED
    BY <2>3, <2>4
<1> QED
  BY <1>1, <1>3, <1>4

LEMMA TruthfulGame ==
  ASSUME Steady, Truthful, Game
  PROVE  Truthful'
<1> USE Facts DEF setVars, tickVars
<1>t. Typed /\ TypeOK /\ Shapes
  BY DEF Truthful, Typed
<1>b. Typed'
  BY <1>t, TypedGame
<1>e. SUFFICES Pending' /\ Exhibited' /\ Learned' /\ Cached' /\ LastRelease'
  BY <1>b DEF Truthful
\* What the steps of the game have in common.
<1>l. ASSUME happened \subseteq happened', UNCHANGED <<bred, acquired, released, reported>>
      PROVE  Learned'
  BY <1>l DEF Truthful, Learned
<1>n. ASSUME happened \subseteq happened', UNCHANGED <<log, cursor, step, todo>>,
             \A h \in Handles : Busy(h) => roster'[h] = roster[h]
      PROVE  Pending' /\ Exhibited'
  <2>1. \A h \in Handles : Busy(h)' => Busy(h)
    BY <1>n DEF Busy, Undrained
  <2>2. Pending'
    BY <1>n, <2>1 DEF Truthful, Pending, Check
  <2>3. Exhibited'
    BY <1>n DEF Truthful, Exhibited, Check
  <2> QED
    BY <2>2, <2>3
\* An animal that enters the roster: its handle is cached for nobody and was
\* not the one released.
<1>r. ASSUME NEW h \in Handles, NEW a, MayUse(h), roster' = [roster EXCEPT ![h] = a],
             UNCHANGED <<cache, captured>>, happened \subseteq happened'
      PROVE  Cached' /\ LastRelease' /\ ~Busy(h)
  <2>1. roster[h] = None /\ cache[h] = None /\ captured # h
    BY <1>r DEF MayUse, Steady
  <2>2. Cached'
    BY <1>r, <2>1, <1>t DEF Truthful, Cached, Present, TypeOK
  <2>3. LastRelease'
    BY <1>r, <2>1, <1>t DEF Truthful, LastRelease, TypeOK
  <2>4. ~Busy(h)
    BY <2>1 DEF Truthful, Pending
  <2> QED
    BY <2>2, <2>3, <2>4
<1>1. ASSUME NEW h \in Handles, NEW s \in Species, Buy(h, s)
      PROVE  Pending' /\ Exhibited' /\ Learned' /\ Cached' /\ LastRelease'
  <2>1. Cached' /\ LastRelease' /\ ~Busy(h)
    BY <1>1, <1>r DEF Buy
  <2>2. \A g \in Handles : Busy(g) => roster'[g] = roster[g]
    BY <1>1, <2>1, <1>t DEF Buy, TypeOK
  <2> QED
    BY <1>1, <1>l, <1>n, <2>1, <2>2 DEF Buy
<1>2. ASSUME NEW h \in Handles, NEW s \in Species, Bear(h, s)
      PROVE  Pending' /\ Exhibited' /\ Learned' /\ Cached' /\ LastRelease'
  <2> DEFINE a == [species |-> s, newborn |-> TRUE]
  <2>1. MayUse(h) /\ Record("habitat", h) /\ Witness("habitat", Check(a)) /\ roster' = [roster EXCEPT ![h] = a]
    BY <1>2 DEF Bear
  <2>a. a \in Animal /\ h \in Records("habitat")
    BY DEF Animal, Records
  <2>2. a \in Animal /\ a # None /\ h \in Records("habitat")
    BY <2>a
  <2>3. happened \subseteq happened' /\ ("habitat" \in installed => Check(a) \in happened')
    BY <2>1 DEF Witness
  <2> HIDE DEF a
  <2>4. Cached' /\ LastRelease' /\ ~Busy(h)
    BY <1>2, <1>r, <2>1, <2>3 DEF Bear
  <2>5. Learned'
    BY <1>2, <1>l, <2>3 DEF Bear
  <2>6. Exhibited'
    <3>1. log'["exhibit"] = log["exhibit"]
      BY <1>2, <2>1, <2>2, <1>t, RecordTyped DEF Bear
    <3> QED
      BY <2>3, <3>1 DEF Truthful, Exhibited, Check
  <2>7. Pending'
    <3> SUFFICES ASSUME NEW g \in Handles, Busy(g)'
                 PROVE  roster'[g] # None /\ Check(roster'[g]) \in happened'
      BY DEF Pending, Check
    <3>1. Busy(g) \/ (h = g /\ "habitat" \in installed)
      BY <1>2, <2>1, <2>2, <1>t, BusyGame DEF Bear
    <3>2. CASE g = h
      <4>1. roster'[g] = a /\ "habitat" \in installed
        BY <2>1, <2>4, <3>1, <3>2, <1>t DEF TypeOK
      <4> QED
        BY <2>2, <2>3, <4>1
    <3>3. CASE g # h
      <4>1. Busy(g) /\ roster'[g] = roster[g]
        BY <2>1, <3>1, <3>3, <1>t DEF TypeOK
      <4> QED
        BY <2>3, <4>1 DEF Truthful, Pending
    <3> QED
      BY <3>2, <3>3
  <2> QED
    BY <2>4, <2>5, <2>6, <2>7
<1>3. ASSUME NEW h \in Handles, Place(h)
      PROVE  Pending' /\ Exhibited' /\ Learned' /\ Cached' /\ LastRelease'
  <2>1. /\ Record("habitat", h) /\ Witness("habitat", Check(roster[h])) /\ roster' = roster
        /\ roster[h] # None /\ h \in Records("habitat")
    BY <1>3 DEF Place, Present, Records
  <2>2. happened \subseteq happened' /\ ("habitat" \in installed => Check(roster[h]) \in happened')
    BY <2>1 DEF Witness
  <2>3. Cached' /\ LastRelease'
    BY <1>3, <2>1, <2>2 DEF Place, Truthful, Cached, LastRelease, Present
  <2>4. Learned'
    BY <1>3, <1>l, <2>2 DEF Place
  <2>5. Exhibited'
    <3>1. log'["exhibit"] = log["exhibit"]
      BY <1>3, <2>1, <1>t, RecordTyped DEF Place
    <3> QED
      BY <2>2, <3>1 DEF Truthful, Exhibited, Check
  <2>6. Pending'
    <3> SUFFICES ASSUME NEW g \in Handles, Busy(g)'
                 PROVE  roster'[g] # None /\ Check(roster'[g]) \in happened'
      BY DEF Pending, Check
    <3>1. Busy(g) \/ (h = g /\ "habitat" \in installed)
      BY <1>3, <2>1, <1>t, BusyGame DEF Place
    <3> QED
      BY <2>1, <2>2, <3>1 DEF Truthful, Pending
  <2> QED
    BY <2>3, <2>4, <2>5, <2>6
<1>4. ASSUME NEW h \in Handles, Grow(h)
      PROVE  Pending' /\ Exhibited' /\ Learned' /\ Cached' /\ LastRelease'
  <2>1. roster[h] \in Animal /\ ~Busy(h)
    BY <1>4, <1>t DEF Grow, Present, TypeOK, Steady
  <2>2. /\ roster' = [roster EXCEPT ![h] = [roster[h] EXCEPT !.newborn = FALSE]]
        /\ [roster[h] EXCEPT !.newborn = FALSE].species = roster[h].species
    BY <1>4, <2>1, <1>t DEF Grow, TypeOK, Animal
  <2>3. \A g \in Handles : /\ g # h => roster'[g] = roster[g]
                           /\ roster'[g] # None => roster[g] # None
                           /\ roster[g] # None => roster'[g].species = roster[g].species
    BY <2>1, <2>2, <1>t DEF TypeOK
  <2>4. Cached'
    BY <1>4, <2>3 DEF Grow, Truthful, Cached, Present
  <2>5. LastRelease'
    <3>1. /\ UNCHANGED <<captured, cache, happened>>
          /\ captured # None => captured \in Handles
      BY <1>4, <1>t DEF Grow, TypeOK
    <3> QED
      BY <2>3, <3>1 DEF Truthful, LastRelease
  <2>6. Pending' /\ Exhibited' /\ Learned'
    BY <1>4, <1>l, <1>n, <2>1, <2>3 DEF Grow
  <2> QED
    BY <2>4, <2>5, <2>6
<1>5. ASSUME NEW h \in Handles, Depart(h)
      PROVE  Pending' /\ Exhibited' /\ Learned' /\ Cached' /\ LastRelease'
  <2>1. ~Busy(h)
    BY <1>5 DEF Depart, Steady
  <2>2. \A g \in Handles : roster'[g] = (IF g = h THEN None ELSE roster[g])
    BY <1>5, <1>t DEF Depart, TypeOK
  <2>3. Cached'
    BY <1>5, <2>2 DEF Depart, Truthful, Cached, Present
  <2>4. LastRelease'
    BY <1>5, <2>2, <1>t DEF Depart, Truthful, LastRelease, TypeOK
  <2>5. Pending' /\ Exhibited' /\ Learned'
    BY <1>5, <1>l, <1>n, <2>1, <2>2 DEF Depart
  <2> QED
    BY <2>3, <2>4, <2>5
<1>6. ASSUME NEW h \in Handles, Release(h)
      PROVE  Pending' /\ Exhibited' /\ Learned' /\ Cached' /\ LastRelease'
  <2>1. /\ h \in Present /\ roster' = roster /\ cache' = cache /\ happened \subseteq happened'
        /\ \/ captured' = captured
           \/ captured' = h /\ <<"conservation_release", roster[h].species>> \in happened'
    BY <1>6 DEF Release, Capture, Witness
  <2>2. Cached'
    BY <2>1 DEF Truthful, Cached, Present
  <2>3. LastRelease'
    BY <2>1 DEF Truthful, Cached, LastRelease, Present
  <2>4. Pending' /\ Exhibited' /\ Learned'
    BY <1>6, <1>l, <1>n, <2>1 DEF Release
  <2> QED
    BY <2>2, <2>3, <2>4
<1>7. ASSUME NEW a \in Animal, AddExhibit(a)
      PROVE  Pending' /\ Exhibited' /\ Learned' /\ Cached' /\ LastRelease'
  <2>1. Record("exhibit", a) /\ Witness("exhibit", Check(a)) /\ roster' = roster /\ a \in Records("exhibit")
    BY <1>7 DEF AddExhibit, Records
  <2>2. happened \subseteq happened' /\ ("exhibit" \in installed => Check(a) \in happened')
    BY <2>1 DEF Witness
  <2>3. Cached' /\ LastRelease'
    BY <1>7, <2>1, <2>2 DEF AddExhibit, Truthful, Cached, LastRelease, Present
  <2>4. Learned'
    BY <1>7, <1>l, <2>2 DEF AddExhibit
  <2>5. Pending'
    <3> SUFFICES ASSUME NEW g \in Handles, Busy(g)'
                 PROVE  roster'[g] # None /\ Check(roster'[g]) \in happened'
      BY DEF Pending, Check
    <3>1. Busy(g)
      BY <1>7, <2>1, <1>t, BusyGame DEF AddExhibit
    <3> QED
      BY <2>1, <2>2, <3>1 DEF Truthful, Pending
  <2>6. Exhibited'
    <3>1. \/ log'["exhibit"] = log["exhibit"]
          \/ "exhibit" \in installed /\ log'["exhibit"] = Append(log["exhibit"], a)
      BY <1>7, <2>1, <1>t, RecordTyped DEF AddExhibit
    <3>2. log["exhibit"] \in Seq(Animal)
      BY <1>t DEF TypeOK
    <3>3. CASE log'["exhibit"] = log["exhibit"]
      BY <2>2, <3>3 DEF Truthful, Exhibited, Check
    <3>4. CASE "exhibit" \in installed /\ log'["exhibit"] = Append(log["exhibit"], a)
      <4>1. \A n \in 1..Len(log'["exhibit"]) :
              \/ n \in 1..Len(log["exhibit"]) /\ log'["exhibit"][n] = log["exhibit"][n]
              \/ log'["exhibit"][n] = a
        BY <3>2, <3>4, AppendProperties
      <4> QED
        BY <2>2, <3>4, <4>1 DEF Truthful, Exhibited, Check
    <3> QED
      BY <3>1, <3>3, <3>4
  <2> QED
    BY <2>3, <2>4, <2>5, <2>6
<1> QED
  BY <1>1, <1>2, <1>3, <1>4, <1>5, <1>6, <1>7 DEF Game

LEMMA TruthfulStep == Steady /\ Truthful /\ [Next]_vars => Truthful'
<1> SUFFICES ASSUME Steady, Truthful, [Next]_vars PROVE Truthful'
  OBVIOUS
<1>1. CASE ReceiveProgram \/ UNCHANGED vars
  <2>1. UNCHANGED <<gameVars, cursor, cache, setVars, tickVars, happened>>
    BY <1>1 DEF ReceiveProgram, vars
  <2>2. Typed'
    BY TypedStep DEF Truthful
  <2>3. Pending' /\ Exhibited'
    BY <2>1 DEF gameVars, tickVars, Truthful, Pending, Exhibited, Busy, Undrained, Check
  <2>4. Learned' /\ Cached' /\ LastRelease'
    BY <2>1 DEF gameVars, setVars, Truthful, Learned, Cached, LastRelease, Present
  <2> QED
    BY <2>2, <2>3, <2>4 DEF Truthful
<1> QED
  BY <1>1, TruthfulTick, TruthfulGame DEF Next

\* A step of the poll reports, a step of the game lets things happen, and
\* neither does both.
LEMMA PromiseStep ==
  ASSUME Truthful, Truthful', [Next]_vars
  PROVE  [Promise!Next]_(Promise!vars)
<1>1. /\ happened \subseteq happened' /\ reported \subseteq reported'
      /\ UNCHANGED happened \/ UNCHANGED reported
  <2>1. CASE Tick
    <3>1. UNCHANGED happened
      BY <2>1, TickKeeps
    <3>2. reported \subseteq reported'
      BY <2>1 DEF Tick, ReadRing, DrainInsert, DrainExhibit, SweepRoster, InstallGate,
                  InstallCapture, ReadReleases, AttributeRelease, EndTick, setVars
    <3> QED
      BY <3>1, <3>2
  <2>2. CASE Game
    <3>1. UNCHANGED reported
      BY <2>2 DEF Game, Buy, Bear, Place, Grow, Depart, Release, AddExhibit, setVars
    <3>2. happened \subseteq happened'
      BY <2>2 DEF Game, Buy, Bear, Place, Grow, Depart, Release, AddExhibit, Witness
    <3> QED
      BY <3>1, <3>2
  <2>3. CASE ReceiveProgram \/ UNCHANGED vars
    BY <2>3 DEF ReceiveProgram, vars, setVars
  <2> QED
    BY <2>1, <2>2, <2>3 DEF Next
<1>2. reported' \subseteq happened'
  BY DEF Truthful, Learned
<1>3. CASE happened' # happened
  BY <1>1, <1>3 DEF Promise!Next, Promise!Happen
<1>4. CASE UNCHANGED happened /\ reported' # reported
  <2> DEFINE cs == reported' \ reported
  <2>1. cs \in SUBSET (happened \ reported) /\ cs # {} /\ reported' = reported \cup cs
    BY <1>1, <1>2, <1>4
  <2>2. Promise!Report(cs)
    BY <1>4, <2>1 DEF Promise!Report
  <2> QED
    BY <2>1, <2>2 DEF Promise!Next
<1>5. CASE UNCHANGED happened /\ UNCHANGED reported
  BY <1>5 DEF Promise!vars
<1> QED
  BY <1>3, <1>4, <1>5

\* The safety half of ReportsEvents: the detours, the drains, the cache and the
\* attribution never report a check before its event has happened, however
\* many inserts overrun a ring and however many releases share a tick, as long
\* as no animal changes before its insert was drained and no handle with a
\* cached species is used again.
THEOREM ReportsOnlyEvents ==
  ASSUME Steady
  PROVE  Spec => Promise!Spec
<1>1. Init => Promise!Init
  BY DEF Init, Promise!Init
<1>2. Truthful /\ [Next]_vars => Truthful'
  BY TruthfulStep
<1>3. Truthful /\ Truthful' /\ [Next]_vars => [Promise!Next]_(Promise!vars)
  BY PromiseStep
<1> QED
  BY <1>1, <1>2, <1>3, TruthfulInit, PTL DEF Spec, Promise!Spec
=============================================================================
