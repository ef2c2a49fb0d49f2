------------------------ MODULE ExhibitReleaseProofs ------------------------
(***************************************************************************)
(* Proofs about ExhibitRelease: every variable keeps its type, so no more  *)
(* releases are credited or given up than are pending; and, when the game  *)
(* and the tick take turns and the population stands still while a release *)
(* is under way, no species is credited more often than its animals were   *)
(* released.                                                               *)
(***************************************************************************)
EXTENDS ExhibitRelease, FiniteSetTheorems, SequenceTheorems, TLAPS

-----------------------------------------------------------------------------
(* Types                                                                   *)

\* The census and the baseline it is compared with are both at hand.
Compared == step = "drops" => raw # None /\ baseline # None
Typed    == TypeOK /\ Compared

\* What the proofs need of the constants.
LEMMA Facts ==
  /\ IsFiniteSet(Animals) /\ SpeciesOf \in [Animals -> Species] /\ Mapped \subseteq Species
  /\ Ring \in Nat /\ Ring >= 1 /\ GiveUp \in Nat /\ GiveUp >= 1 /\ MaxFaults \in Nat
  /\ None \notin [Species -> Nat]
BY ExhibitAssumption DEF ExhibitAssumption

\* How far a counter is ahead of another one.
LEMMA Ahead == ASSUME NEW m \in Nat, NEW n \in Nat, n > m PROVE n - m \in Nat
OBVIOUS

\* Animals can be counted.
LEMMA Countable ==
  ASSUME NEW S \in SUBSET Animals
  PROVE  IsFiniteSet(S) /\ Cardinality(S) \in Nat
BY Facts, FS_Subset, FS_CardinalityType

LEMMA CensusTyped == Census \in [Species -> Nat]
<1>1. ASSUME NEW s \in Species
      PROVE  Cardinality({a \in Animals : where[a] \in {"placed", "leaving", "late"}
                                          /\ SpeciesOf[a] = s}) \in Nat
  BY Countable
<1> QED
  BY <1>1 DEF Census

LEMMA TypedInit == Init => Typed
<1> SUFFICES ASSUME Init PROVE Typed
  OBVIOUS
<1> USE Facts
<1>1. /\ where \in [Animals -> Places] /\ captured \in Seq(Animals)
      /\ credits \in [Species -> Nat]
  BY DEF Init, Places
<1>2. /\ count \in Nat /\ seen \in Nat /\ pending \in Nat /\ waited \in 0..GiveUp
      /\ cursor \in Nat /\ faults \in 0..MaxFaults
  BY DEF Init
<1>3. todo \in [old : SUBSET Animals, new : Seq(Animals)]
  BY DEF Init, NoCaptures
<1>4. /\ done \in SUBSET Animals /\ retry \in SUBSET Animals /\ cached \in SUBSET Animals
      /\ prev = None /\ baseline = None /\ raw = None /\ removed \in SUBSET Animals
      /\ untold \in SUBSET {"ids", "census"} /\ step = "idle"
  BY DEF Init
<1> QED
  BY <1>1, <1>2, <1>3, <1>4 DEF Typed, TypeOK, Compared, Steps

\* A credit.
LEMMA CreditTyped ==
  ASSUME Typed, NEW s \in Species, pending > 0, Credit(s)
  PROVE  credits' \in [Species -> Nat] /\ pending' \in Nat
BY DEF Typed, TypeOK, Credit

LEMMA FaultTyped ==
  ASSUME Typed, NEW read, Fault(read)
  PROVE  faults' \in 0..MaxFaults
BY Facts DEF Typed, TypeOK, Fault

LEMMA ConsumeTyped ==
  ASSUME Typed, NEW a \in Animals, Consume(a)
  PROVE  /\ credits' \in [Species -> Nat] /\ pending' \in Nat /\ faults' \in 0..MaxFaults
         /\ done' \in SUBSET Animals /\ retry' \in SUBSET Animals /\ cached' \in SUBSET Animals
<1>1. faults' \in 0..MaxFaults
  <2>1. CASE UNCHANGED faults
    BY <2>1 DEF Typed, TypeOK
  <2>2. CASE Fault("defs")
    BY <2>2, FaultTyped
  <2> QED
    BY <2>1, <2>2 DEF Consume
<1>2. CASE CreditCapture(a)
  <2>1. SpeciesOf[a] \in Species
    BY Facts
  <2>2. credits' \in [Species -> Nat] /\ pending' \in Nat
    BY <1>2, <2>1, CreditTyped DEF CreditCapture
  <2> QED
    BY <1>1, <1>2, <2>2 DEF CreditCapture, Typed, TypeOK
<1>3. CASE ParkCapture(a)
  BY <1>1, <1>3 DEF ParkCapture, Typed, TypeOK
<1>4. CASE IgnoreCapture
  BY <1>1, <1>4 DEF IgnoreCapture, Typed, TypeOK
<1> QED
  BY <1>2, <1>3, <1>4 DEF Consume

LEMMA TypedTick ==
  ASSUME Typed, Tick
  PROVE  Typed'
<1> USE Facts DEF gameVars, snapshotVars, captureVars, pendingVars, tickVars
<1>t. Typed /\ TypeOK
  BY DEF Typed
<1>c. Census \in [Species -> Nat]
  BY CensusTyped
<1>1. CASE BeginTick
  <2>1. seen' \in Nat /\ faults' \in 0..MaxFaults
    BY <1>1, <1>t DEF BeginTick, ReadCount, Fault, TypeOK
  <2>2. pending' \in Nat
    <3>1. /\ seen \in Nat /\ pending \in Nat
          /\ pending' = IF seen' > seen THEN pending + (seen' - seen) ELSE pending
      BY <1>1, <1>t DEF BeginTick, TypeOK
    <3>2. CASE seen' > seen
      <4>1. pending' = pending + (seen' - seen)
        BY <3>1, <3>2
      <4>2. seen' - seen \in Nat
        BY <2>1, <3>1, <3>2, Ahead
      <4> QED
        BY <3>1, <4>1, <4>2
    <3>3. CASE ~(seen' > seen)
      BY <3>1, <3>3
    <3> QED
      BY <3>2, <3>3
  <2>3. where' \in [Animals -> Places]
    BY <1>1, <1>t DEF BeginTick, TypeOK, Places
  <2> QED
    BY <1>1, <2>1, <2>2, <2>3, <1>t DEF BeginTick, TypeOK, Typed, Compared, Steps
<1>2. CASE ReadCaptures
  <2>1. Len(captured) \in Nat /\ Oldest(Len(captured)) \in Nat
    BY <1>t DEF Oldest, TypeOK
  <2>2. SubSeq(captured, Oldest(Len(captured)) + 1, Len(captured)) \in Seq(Animals)
    BY <2>1, <1>t, SubSeqProperties DEF TypeOK
  <2>3. todo' \in [old : SUBSET Animals, new : Seq(Animals)]
    <3>1. retry \in SUBSET Animals /\ <<>> \in Seq(Animals)
      BY <1>t DEF TypeOK
    <3>2. \/ todo' = [old |-> retry,
                     new |-> SubSeq(captured, Oldest(Len(captured)) + 1, Len(captured))]
          \/ todo' = [old |-> retry, new |-> <<>>]
      BY <1>2 DEF ReadCaptures
    <3> DEFINE rest == SubSeq(captured, Oldest(Len(captured)) + 1, Len(captured))
    <3>3. CASE todo' = [old |-> retry, new |-> rest]
      <4> HIDE DEF rest
      <4>1. rest \in Seq(Animals)
        BY <2>2 DEF rest
      <4> QED
        BY <3>1, <3>3, <4>1
    <3>4. CASE todo' = [old |-> retry, new |-> <<>>]
      BY <3>1, <3>4
    <3> QED
      BY <3>2, <3>3, <3>4
  <2>4. cursor' \in Nat /\ faults' \in 0..MaxFaults
    BY <1>2, <2>1, <1>t DEF ReadCaptures, Fault, TypeOK
  <2> QED
    BY <1>2, <2>3, <2>4, <1>t DEF ReadCaptures, TypeOK, Typed, Compared, Steps
<1>3. CASE DrainCapture
  <2>1. PICK a \in Animals :
          /\ Consume(a)
          /\ \/ todo' = [todo EXCEPT !.old = @ \ {a}]
             \/ todo' = [todo EXCEPT !.new = Tail(@)] /\ todo.new # <<>>
    <3>1. CASE \E a \in todo.old : Consume(a) /\ todo' = [todo EXCEPT !.old = @ \ {a}]
      <4>1. todo.old \subseteq Animals
        BY <1>t DEF TypeOK
      <4> QED
        BY <3>1, <4>1
    <3>2. CASE /\ todo.old = {} /\ todo.new # <<>>
               /\ Consume(Head(todo.new)) /\ todo' = [todo EXCEPT !.new = Tail(@)]
      <4>1. Head(todo.new) \in Animals
        BY <3>2, <1>t, HeadTailProperties DEF TypeOK
      <4> QED
        BY <3>2, <4>1
    <3> QED
      BY <1>3, <3>1, <3>2 DEF DrainCapture
  <2>2. todo' \in [old : SUBSET Animals, new : Seq(Animals)]
    <3>1. CASE todo' = [todo EXCEPT !.old = @ \ {a}]
      BY <3>1, <1>t DEF TypeOK
    <3>2. CASE todo' = [todo EXCEPT !.new = Tail(@)] /\ todo.new # <<>>
      <4>1. Tail(todo.new) \in Seq(Animals)
        BY <3>2, <1>t, HeadTailProperties DEF TypeOK
      <4> QED
        BY <3>2, <4>1, <1>t DEF TypeOK
    <3> QED
      BY <2>1, <3>1, <3>2
  <2>3. /\ credits' \in [Species -> Nat] /\ pending' \in Nat /\ faults' \in 0..MaxFaults
        /\ done' \in SUBSET Animals /\ retry' \in SUBSET Animals /\ cached' \in SUBSET Animals
    BY <2>1, <1>t, ConsumeTyped
  <2> QED
    BY <1>3, <2>2, <2>3, <1>t DEF DrainCapture, TypeOK, Typed, Compared
<1>4. CASE EndDrain
  BY <1>4, <1>t DEF EndDrain, TypeOK, Typed, Compared, Steps
<1>5. CASE ReadRoster
  <2>1. Stored \in SUBSET Animals
    BY DEF Stored
  <2>2. cached' \in SUBSET Animals /\ removed' \in SUBSET Animals /\ prev' \in SUBSET Animals
    BY <1>5, <2>1, <1>t DEF ReadRoster, TypeOK
  <2>3. faults' \in 0..MaxFaults
    BY <1>5, <1>t DEF ReadRoster, Fault, TypeOK
  <2> QED
    BY <1>5, <2>2, <2>3, <1>t DEF ReadRoster, TypeOK, Typed, Compared, Steps
<1>6. CASE RosterUnreadable
  <2>1. faults' \in 0..MaxFaults
    BY <1>6, <1>t, FaultTyped DEF RosterUnreadable
  <2> QED
    BY <1>6, <2>1, <1>t DEF RosterUnreadable, TypeOK, Typed, Compared, Steps
<1>7. CASE Evict
  <2>1. PICK a \in removed : /\ Attribute(a)
                             /\ removed' = removed \ {a}
                             /\ cached' = cached \ {a} /\ done' = done \ {a}
    BY <1>7 DEF Evict
  <2>2. a \in Animals /\ SpeciesOf[a] \in Species
    BY <1>t DEF TypeOK
  <2>3. credits' \in [Species -> Nat] /\ pending' \in Nat
    BY <2>1, <2>2, <1>t, CreditTyped DEF Attribute, TypeOK
  <2> QED
    BY <1>7, <2>1, <2>3, <1>t DEF Evict, TypeOK, Typed, Compared
<1>8. CASE EndEvict
  BY <1>8, <1>t DEF EndEvict, TypeOK, Typed, Compared, Steps
<1>9. CASE ReadCensus
  <2>1. raw' \in [Species -> Nat] /\ raw' # None
    BY <1>9, <1>c DEF ReadCensus
  <2>2. baseline' \in [Species -> Nat] \cup {None} /\ (step' = "drops" => baseline' # None)
    BY <1>9, <1>c, <1>t DEF ReadCensus, TypeOK
  <2> QED
    BY <1>9, <2>1, <2>2, <1>t DEF ReadCensus, TypeOK, Typed, Compared, Steps
<1>10. CASE CensusUnreadable
  <2>1. faults' \in 0..MaxFaults
    BY <1>10, <1>t, FaultTyped DEF CensusUnreadable
  <2> QED
    BY <1>10, <2>1, <1>t DEF CensusUnreadable, TypeOK, Typed, Compared, Steps
<1>11. CASE AttributeDrop
  <2>1. PICK s \in Species :
               /\ raw[s] < baseline[s]
               /\ baseline' = [baseline EXCEPT ![s] = @ - 1]
               /\ IF s \in Mapped THEN Credit(s) ELSE pending' = pending - 1 /\ UNCHANGED credits
    BY <1>11 DEF AttributeDrop
  <2>2. /\ raw \in [Species -> Nat] /\ baseline \in [Species -> Nat] /\ pending > 0
        /\ step = "drops" /\ raw # None
    BY <1>11, <1>t DEF AttributeDrop, TypeOK, Typed, Compared
  <2>3. baseline' \in [Species -> Nat]
    BY <2>1, <2>2
  <2>4. credits' \in [Species -> Nat] /\ pending' \in Nat
    BY <2>1, <2>2, <1>t, CreditTyped DEF TypeOK
  <2> QED
    BY <1>11, <2>2, <2>3, <2>4, <1>t DEF AttributeDrop, TypeOK, Typed, Compared
<1>12. CASE EndDrops
  BY <1>12, <1>t DEF EndDrops, TypeOK, Typed, Compared, Steps
<1>13. CASE RetirePending
  <2>1. pending' \in Nat /\ waited' \in 0..GiveUp
    BY <1>13, <1>t DEF RetirePending, TypeOK
  <2>2. /\ retry' \in SUBSET Animals
        /\ baseline' \in [Species -> Nat] \cup {None}
        /\ untold' \in SUBSET {"ids", "census"}
    BY <1>13, <1>t DEF RetirePending, TypeOK
  <2> QED
    BY <1>13, <2>1, <2>2, <1>t DEF RetirePending, TypeOK, Typed, Compared, Steps
<1> QED
  BY <1>1, <1>2, <1>3, <1>4, <1>5, <1>6, <1>7, <1>8, <1>9, <1>10, <1>11, <1>12, <1>13 DEF Tick

LEMMA TypedGame ==
  ASSUME Typed, Game
  PROVE  Typed'
<1> USE Facts DEF gameVars, snapshotVars, captureVars, pendingVars, tickVars
<1>t. Typed /\ TypeOK
  BY DEF Typed
<1>1. ASSUME NEW a \in Animals, ReleaseStored(a) PROVE Typed'
  <2>1. captured' \in Seq(Animals)
    BY <1>1, <1>t, AppendProperties DEF ReleaseStored, TypeOK
  <2> QED
    BY <1>1, <2>1, <1>t DEF ReleaseStored, TypeOK, Typed, Compared, Places
<1>2. ASSUME NEW a \in Animals, \/ ReleasePlaced(a) \/ CensusFollows(a) \/ ArriveStored(a)
                                \/ ArrivePlaced(a) \/ Lose(a)
      PROVE  Typed'
  <2>1. where' \in [Animals -> Places] /\ captured' = captured
    BY <1>2, <1>t DEF ReleasePlaced, CensusFollows, ArriveStored, ArrivePlaced, Lose, TypeOK, Places
  <2>a. count' \in Nat
    BY <1>2, <1>t DEF ReleasePlaced, CensusFollows, ArriveStored, ArrivePlaced, Lose, TypeOK
  <2>b. untold' \in SUBSET {"ids", "census"}
    <3>1. \/ untold' = untold \/ untold' = untold \cup {"census"} \/ untold' = untold \cup {"ids"}
      BY <1>2 DEF ReleasePlaced, CensusFollows, ArriveStored, ArrivePlaced, Lose
    <3> QED
      BY <3>1, <1>t DEF TypeOK
  <2>3. UNCHANGED <<snapshotVars, captureVars, pendingVars, tickVars, faults>>
    BY <1>2 DEF ReleasePlaced, CensusFollows, ArriveStored, ArrivePlaced, Lose
  <2> QED
    BY <2>1, <2>a, <2>b, <2>3, <1>t DEF TypeOK, Typed, Compared
<1> QED
  BY <1>1, <1>2 DEF Game

LEMMA TypedStep == Typed /\ [Next]_vars => Typed'
<1>1. Typed /\ UNCHANGED vars => Typed'
  BY DEF vars, gameVars, snapshotVars, captureVars, pendingVars, tickVars, Typed, TypeOK, Compared
<1> QED
  BY <1>1, TypedTick, TypedGame DEF Next

\* Every variable keeps its type, whatever the interleaving and whichever reads
\* fail: a pending release is never credited or given up twice, the count of
\* pending releases and the baseline of the census never fall below 0.
THEOREM TypeCorrect == Spec => []TypeOK
<1>1. Typed => TypeOK
  BY DEF Typed
<1> QED
  BY <1>1, TypedInit, TypedStep, PTL DEF Spec

-----------------------------------------------------------------------------
(* Counting animals of a species                                           *)

Of(S, s)  == Cardinality({a \in S : SpeciesOf[a] = s})
One(a, s) == IF SpeciesOf[a] = s THEN 1 ELSE 0

LEMMA OfMono ==
  ASSUME NEW S, NEW T \in SUBSET Animals, S \subseteq T, NEW s
  PROVE  Of(S, s) \in Nat /\ Of(T, s) \in Nat /\ Of(S, s) <= Of(T, s)
<1> DEFINE A == {a \in S : SpeciesOf[a] = s}
           B == {a \in T : SpeciesOf[a] = s}
<1>1. IsFiniteSet(A) /\ IsFiniteSet(B) /\ A \subseteq B
  BY Countable
<1>2. Cardinality(A) \in Nat /\ Cardinality(B) \in Nat /\ Cardinality(A) <= Cardinality(B)
  BY <1>1, FS_Subset, FS_CardinalityType
<1> QED
  BY <1>2 DEF Of

LEMMA OfPlus ==
  ASSUME NEW S \in SUBSET Animals, NEW a \in Animals \ S, NEW s
  PROVE  Of(S \cup {a}, s) = Of(S, s) + One(a, s)
<1> DEFINE A == {b \in S : SpeciesOf[b] = s}
           B == {b \in S \cup {a} : SpeciesOf[b] = s}
<1>1. IsFiniteSet(A) /\ Cardinality(A) \in Nat /\ a \notin A
  BY Countable
<1>2. CASE SpeciesOf[a] = s
  <2>1. B = A \cup {a}
    BY <1>2
  <2>2. Cardinality(B) = Cardinality(A) + 1
    BY <1>1, <2>1, FS_AddElement
  <2> QED
    BY <1>2, <2>2 DEF Of, One
<1>3. CASE SpeciesOf[a] # s
  <2>1. B = A
    BY <1>3
  <2> QED
    BY <1>1, <1>3, <2>1 DEF Of, One
<1> QED
  BY <1>2, <1>3

LEMMA OfMinus ==
  ASSUME NEW S \in SUBSET Animals, NEW a \in S, NEW s
  PROVE  Of(S, s) = Of(S \ {a}, s) + One(a, s)
<1>1. (S \ {a}) \cup {a} = S /\ a \in Animals \ (S \ {a}) /\ S \ {a} \in SUBSET Animals
  OBVIOUS
<1> QED
  BY <1>1, OfPlus

LEMMA OfNothing == \A s : Of({}, s) = 0
<1>1. \A s : {a \in {} : SpeciesOf[a] = s} = {}
  OBVIOUS
<1> QED
  BY <1>1, FS_EmptySet DEF Of

LEMMA OfApart ==
  ASSUME NEW S \in SUBSET Animals, NEW T \in SUBSET Animals, S \cap T = {}, NEW s
  PROVE  Of(S \cup T, s) = Of(S, s) + Of(T, s)
<1> DEFINE A == {a \in S : SpeciesOf[a] = s}
           B == {a \in T : SpeciesOf[a] = s}
<1>1. /\ IsFiniteSet(A) /\ IsFiniteSet(B) /\ Cardinality(A) \in Nat /\ Cardinality(B) \in Nat
      /\ A \cap B = {} /\ {a \in S \cup T : SpeciesOf[a] = s} = A \cup B
  BY Countable
<1>2. Cardinality(A \cup B) = Cardinality(A) + Cardinality(B) - Cardinality(A \cap B)
  BY <1>1, FS_Union
<1>3. Cardinality(A \cap B) = 0
  BY <1>1, FS_EmptySet
<1>4. Of(S \cup T, s) = Cardinality(A \cup B) /\ Of(S, s) = Cardinality(A) /\ Of(T, s) = Cardinality(B)
  BY <1>1 DEF Of
<1> HIDE DEF A, B
<1> QED
  BY <1>1, <1>2, <1>3, <1>4

LEMMA OneTyped == \A a, s : One(a, s) \in {0, 1}
BY DEF One

-----------------------------------------------------------------------------
(* At most one credit per release                                          *)

\* The game moves between the ticks only, nothing but releases happens while
\* one is under way, and the release count and the capture ring are readable.
\* The census may take as long as it likes.
Orderly == /\ "mid" \notin Races /\ "mixed" \notin Races
           /\ "count" \notin Faults /\ "drain" \notin Faults

Placed == {a \in Animals : where[a] = "placed"}
Under  == {a \in Animals : where[a] \in {"leaving", "late"}}

\* A snapshot made stale by a death, sale or arrival is renewed before the
\* next release.
Settled == untold # {} => pending = 0 /\ count <= seen /\ Under = {}

\* Each stored animal is captured once, as it is released; what a tick has
\* still to consume are the last captures it has read.
Captures ==
  /\ \A i, j \in DOMAIN captured : captured[i] = captured[j] => i = j
  /\ \A i \in DOMAIN captured : where[captured[i]] = "freed"
  /\ cursor <= Len(captured) /\ (step \notin {"idle", "drain"} => cursor = Len(captured))
  /\ step # "consume" => todo = NoCaptures
  /\ Len(todo.new) <= cursor
  /\ \A i \in DOMAIN todo.new : todo.new[i] = captured[cursor - Len(todo.new) + i]

\* An id that waits for its species was captured earlier and is not cached.
Parked ==
  /\ \A a \in retry \cup todo.old : /\ \E i \in 1..(cursor - Len(todo.new)) : captured[i] = a
                                    /\ a \notin cached
  /\ retry \cap todo.old = {}

\* An id leaves the id set by a release, unless the set is stale; a death or
\* sale is looked at while nothing is pending.
Rosters ==
  /\ \A a \in cached : where[a] \in {"stored", "freed", "gone"}
  /\ step # "evict" => removed = {}
  /\ prev # None => \A a \in prev : \/ where[a] \in {"stored", "freed"}
                                    \/ where[a] = "gone" /\ "ids" \in untold
  /\ \A a \in removed : where[a] = "freed" \/ (where[a] = "gone" /\ pending = 0)

\* The baseline never runs below the census, unless it is stale.
Censuses ==
  /\ raw # None => step \in {"drops", "retire"} /\ raw = Census
  /\ baseline = None => Under = {}
  /\ baseline # None /\ "census" \notin untold => \A s \in Species : baseline[s] >= Census[s]

Sound == Typed /\ Settled /\ Captures /\ Parked /\ Rosters /\ Censuses

\* The released animals that a capture or the id set may still credit.
Open == {a \in Released : \/ a \in cached \cup retry \cup todo.old
                          \/ \E i \in DOMAIN todo.new : todo.new[i] = a
                          \/ \E i \in (cursor + 1)..Len(captured) : captured[i] = a}

\* The drops of a species that the census may still show.
Drop(s) == IF baseline = None \/ "census" \in untold THEN 0 ELSE baseline[s] - Of(Placed, s)

\* What is credited, and what may still be, has been released.
Ledger == \A s \in Species : credits[s] + Of(Open, s) + Drop(s) <= Of(Released, s)

Exact == Sound /\ Ledger

LEMMA CensusIs ==
  ASSUME NEW s \in Species
  PROVE  /\ Census[s] = Of(Placed, s) + Of(Under, s)
         /\ Of(Placed, s) \in Nat /\ Of(Under, s) \in Nat
<1>1. Placed \in SUBSET Animals /\ Under \in SUBSET Animals /\ Placed \cap Under = {}
  BY DEF Placed, Under
<1>2. {a \in Animals : where[a] \in {"placed", "leaving", "late"} /\ SpeciesOf[a] = s}
        = {a \in Placed \cup Under : SpeciesOf[a] = s}
  BY DEF Placed, Under
<1>3. Census[s] = Of(Placed \cup Under, s)
  BY <1>2 DEF Census, Of
<1> QED
  BY <1>1, <1>3, OfApart, OfMono

LEMMA DropNat ==
  ASSUME Sound, NEW s \in Species
  PROVE  Drop(s) \in Nat /\ Of(Open, s) \in Nat /\ Of(Released, s) \in Nat /\ credits[s] \in Nat
<1>1. Of(Open, s) \in Nat /\ Of(Released, s) \in Nat
  BY OfMono DEF Open, Released
<1>2. Drop(s) \in Nat
  <2>1. CASE baseline = None \/ "census" \in untold
    BY <2>1 DEF Drop
  <2>2. CASE baseline # None /\ "census" \notin untold
    <3>1. baseline[s] \in Nat /\ baseline[s] >= Census[s]
      BY <2>2 DEF Sound, Typed, TypeOK, Censuses
    <3> QED
      BY <2>2, <3>1, CensusIs DEF Drop
  <2> QED
    BY <2>1, <2>2
<1> QED
  BY <1>1, <1>2 DEF Sound, Typed, TypeOK

LEMMA ExactInit == Init => Exact
<1> SUFFICES ASSUME Init PROVE Exact
  OBVIOUS
<1>1. /\ captured = <<>> /\ cursor = 0 /\ step = "idle" /\ todo = NoCaptures
      /\ todo.new = <<>> /\ todo.old = {} /\ retry = {} /\ cached = {} /\ removed = {}
      /\ prev = None /\ baseline = None /\ raw = None /\ untold = {}
  BY DEF Init, NoCaptures
<1>2. Len(<<>>) = 0 /\ DOMAIN <<>> = {}
  OBVIOUS
<1>3. Under = {} /\ Released = {}
  BY DEF Init, Under, Released
<1>4. Settled /\ Rosters /\ Censuses
  BY <1>1, <1>3 DEF Settled, Rosters, Censuses
<1>5. Captures /\ Parked
  BY <1>1, <1>2 DEF Captures, Parked
<1>6. Ledger
  <2>1. Open = {}
    BY <1>3 DEF Open
  <2>2. \A s \in Species : credits[s] = 0 /\ Drop(s) = 0
    BY <1>1 DEF Init, Drop
  <2> QED
    BY <1>3, <2>1, <2>2, OfNothing DEF Ledger
<1> QED
  BY <1>4, <1>5, <1>6, TypedInit DEF Exact, Sound

\* During a tick the animals stay where they are.
LEMMA Still ==
  ASSUME Typed, Tick
  PROVE  /\ Under' = Under /\ Placed' = Placed /\ Released' = Released /\ Stored' = Stored
         /\ Census' = Census
         /\ \A a \in Animals, p \in {"stored", "placed", "freed", "gone"} :
              where'[a] = p <=> where[a] = p
         /\ UNCHANGED <<count, captured>>
<1>1. /\ \A a \in Animals : \/ where'[a] = where[a]
                            \/ where[a] = "leaving" /\ where'[a] = "late"
      /\ UNCHANGED <<count, captured>>
  <2>1. CASE BeginTick
    BY <2>1 DEF BeginTick
  <2>2. CASE UNCHANGED gameVars
    BY <2>2 DEF gameVars
  <2> QED
    BY <2>1, <2>2 DEF Tick, ReadCaptures, DrainCapture, EndDrain, ReadRoster, RosterUnreadable,
                      Evict, EndEvict, ReadCensus, CensusUnreadable, AttributeDrop, EndDrops,
                      RetirePending
<1>2. Under' = Under /\ Placed' = Placed /\ Released' = Released /\ Stored' = Stored
  BY <1>1 DEF Under, Placed, Released, Stored
<1>3. Census' = Census
  <2>1. \A a \in Animals : where'[a] \in {"placed", "leaving", "late"}
                             <=> where[a] \in {"placed", "leaving", "late"}
    BY <1>1
  <2>2. \A s \in Species : {a \in Animals : where'[a] \in {"placed", "leaving", "late"} /\ SpeciesOf[a] = s}
                           = {a \in Animals : where[a] \in {"placed", "leaving", "late"} /\ SpeciesOf[a] = s}
    BY <2>1
  <2> QED
    BY <2>2 DEF Census
<1>4. \A a \in Animals, p \in {"stored", "placed", "freed", "gone"} : where'[a] = p <=> where[a] = p
  BY <1>1
<1> QED
  BY <1>1, <1>2, <1>3, <1>4

\* The two reads that Orderly keeps from failing.
LEMMA NoFault ==
  ASSUME Orderly
  PROVE  ~Fault("count") /\ ~Fault("drain")
BY DEF Orderly, Fault

\* Consuming a capture lowers the pending releases or leaves them, parks no id
\* that is cached, and caches nothing.
LEMMA ConsumeEffect ==
  ASSUME Typed, NEW a \in Animals, Consume(a)
  PROVE  /\ cached' \subseteq cached
         /\ \/ /\ retry' = retry /\ a \notin cached' /\ pending > 0
               /\ Credit(SpeciesOf[a])
            \/ /\ retry' = retry \cup {a} /\ a \notin cached /\ UNCHANGED <<credits, pending>>
               /\ pending > 0 /\ cached' = cached
            \/ UNCHANGED <<retry, credits, pending, cached>>
<1>1. CASE CreditCapture(a)
  BY <1>1 DEF CreditCapture
<1>2. CASE ParkCapture(a) /\ a \notin cached
  BY <1>2 DEF ParkCapture
<1>3. CASE IgnoreCapture
  BY <1>3 DEF IgnoreCapture
<1> QED
  BY <1>1, <1>2, <1>3 DEF Consume

\* A step of the drain consumes the id after those consumed before it, or an
\* older one that waits for its species; either way it is now among the captures
\* consumed, and is not looked at again in this tick.
Drained(a) ==
  /\ \E i \in 1..(cursor - Len(todo'.new)) : captured[i] = a
  /\ a \notin todo'.old /\ \A i \in DOMAIN todo'.new : todo'.new[i] # a
  /\ \A b : b \in todo'.old \/ (\E i \in DOMAIN todo'.new : todo'.new[i] = b)
             => b \in todo.old \/ (\E i \in DOMAIN todo.new : todo.new[i] = b)
  /\ where[a] = "freed" /\ (a \in todo.old \/ \E i \in DOMAIN todo.new : todo.new[i] = a)
  /\ a \notin retry

LEMMA Draining ==
  ASSUME Typed, Captures, Parked, DrainCapture
  PROVE  \E a \in Animals :
           /\ Consume(a)
           /\ \/ /\ a \in todo.old /\ todo'.old = todo.old \ {a} /\ todo'.new = todo.new
                 /\ Len(todo'.new) = Len(todo.new)
              \/ /\ todo.old = {} /\ todo.new # <<>> /\ a = captured[cursor - Len(todo.new) + 1]
                 /\ todo'.old = {} /\ todo'.new = Tail(todo.new)
                 /\ Len(todo.new) >= 1 /\ Len(todo'.new) = Len(todo.new) - 1
           /\ Drained(a)
<1> DEFINE len == Len(todo.new)
<1>t. /\ TypeOK /\ captured \in Seq(Animals) /\ Len(captured) \in Nat /\ cursor \in Nat
      /\ todo.new \in Seq(Animals) /\ todo.old \in SUBSET Animals /\ retry \in SUBSET Animals
      /\ cursor = Len(captured) /\ len \in Nat /\ len <= cursor
      /\ DOMAIN captured = 1..Len(captured) /\ DOMAIN todo.new = 1..len
  <2>1. TypeOK /\ step = "consume"
    BY DEF Typed, DrainCapture
  <2>2. /\ captured \in Seq(Animals) /\ todo.new \in Seq(Animals) /\ cursor \in Nat
        /\ todo.old \in SUBSET Animals /\ retry \in SUBSET Animals
    BY <2>1 DEF TypeOK
  <2> QED
    BY <2>1, <2>2 DEF Captures
\* What the ids in the tick's hands have to do with the ring.
<1>r. \A i \in DOMAIN todo.new : todo.new[i] = captured[cursor - len + i]
  BY DEF Captures
<1>o. \A b \in retry \cup todo.old : \E i \in 1..(cursor - len) : captured[i] = b
  BY DEF Parked
<1>1. CASE \E a \in todo.old : Consume(a) /\ todo' = [todo EXCEPT !.old = @ \ {a}]
  <2>1. PICK a \in todo.old : Consume(a) /\ todo' = [todo EXCEPT !.old = @ \ {a}]
    BY <1>1
  <2>2. todo'.old = todo.old \ {a} /\ todo'.new = todo.new
    BY <2>1, <1>t DEF TypeOK
  <2>3. PICK k \in 1..(cursor - len) : captured[k] = a
    BY <1>o
  <2>4. \A i \in DOMAIN todo.new : todo.new[i] # a
    <3>1. ASSUME NEW i \in DOMAIN todo.new, todo.new[i] = a PROVE FALSE
      <4>1. /\ cursor - len + i \in DOMAIN captured /\ k \in DOMAIN captured
            /\ cursor - len + i # k
        BY <2>3, <1>t
      <4>2. captured[cursor - len + i] = a
        BY <3>1, <1>r
      <4> QED
        BY <4>1, <4>2, <2>3 DEF Captures
    <3> QED
      BY <3>1
  <2>5. where[a] = "freed"
    <3>1. k \in DOMAIN captured
      BY <1>t
    <3> QED
      BY <2>3, <3>1 DEF Captures
  <2>6. a \notin retry
    BY DEF Parked
  <2>7. Drained(a)
    BY <2>2, <2>3, <2>4, <2>5, <2>6 DEF Drained
  <2> QED
    BY <2>1, <2>2, <2>7, <1>t
<1>2. CASE /\ todo.old = {} /\ todo.new # <<>>
           /\ Consume(Head(todo.new)) /\ todo' = [todo EXCEPT !.new = Tail(@)]
  <2> DEFINE a == Head(todo.new)
  <2>1. /\ a \in Animals /\ 1 \in DOMAIN todo.new /\ a = todo.new[1] /\ len >= 1
        /\ Tail(todo.new) \in Seq(Animals) /\ Len(Tail(todo.new)) = len - 1
        /\ \A i \in 1..(len - 1) : Tail(todo.new)[i] = todo.new[i + 1]
    BY <1>2, <1>t, HeadTailProperties
  <2>2. todo'.old = {} /\ todo'.new = Tail(todo.new) /\ Len(todo'.new) = len - 1
    BY <1>2, <2>1, <1>t DEF TypeOK
  <2>3. a = captured[cursor - len + 1]
    BY <2>1, <1>r
  <2> HIDE DEF a
  <2>4. cursor - len + 1 \in DOMAIN captured /\ cursor - len + 1 \in 1..(cursor - (len - 1))
    BY <2>1, <1>t
  <2>5. DOMAIN Tail(todo.new) = 1..(len - 1)
    BY <2>1
  <2>6. ASSUME NEW i \in 1..(len - 1)
        PROVE  /\ i + 1 \in DOMAIN todo.new /\ Tail(todo.new)[i] = todo.new[i + 1]
               /\ Tail(todo.new)[i] # a
    <3>1. i + 1 \in DOMAIN todo.new /\ Tail(todo.new)[i] = todo.new[i + 1]
      BY <2>1, <1>t
    <3>2. todo.new[i + 1] = captured[cursor - len + (i + 1)]
      BY <3>1, <1>r
    <3>3. /\ cursor - len + (i + 1) \in DOMAIN captured
          /\ cursor - len + (i + 1) # cursor - len + 1
      BY <1>t
    <3>4. captured[cursor - len + (i + 1)] # captured[cursor - len + 1]
      BY <2>4, <3>3 DEF Captures
    <3> QED
      BY <2>3, <3>1, <3>2, <3>4
  <2>7. \A i \in DOMAIN Tail(todo.new) : Tail(todo.new)[i] # a
    BY <2>5, <2>6
  <2>8. where[a] = "freed"
    BY <2>3, <2>4 DEF Captures
  <2>9. a \notin retry
    <3>1. ASSUME a \in retry PROVE FALSE
      <4>1. PICK i \in 1..(cursor - len) : captured[i] = a
        BY <3>1, <1>o
      <4>2. i \in DOMAIN captured /\ i # cursor - len + 1
        BY <1>t
      <4> QED
        BY <2>3, <2>4, <4>1, <4>2 DEF Captures
    <3> QED
      BY <3>1
  <2>10. Drained(a)
    <3>1. \A b : (\E i \in DOMAIN todo'.new : todo'.new[i] = b)
                 => \E i \in DOMAIN todo.new : todo.new[i] = b
      BY <2>1, <2>2, <2>5, <2>6
    <3>2. \E i \in 1..(cursor - Len(todo'.new)) : captured[i] = a
      BY <2>2, <2>3, <2>4
    <3>3. a \notin todo'.old /\ \A i \in DOMAIN todo'.new : todo'.new[i] # a
      BY <2>2, <2>7
    <3> QED
      BY <2>1, <2>2, <2>8, <2>9, <3>1, <3>2, <3>3 DEF Drained
  <2> QED
    BY <1>2, <2>1, <2>2, <2>3, <2>10 DEF a
<1> QED
  BY <1>1, <1>2 DEF DrainCapture

LEMMA SoundTick ==
  ASSUME Orderly, Sound, Tick
  PROVE  Sound'
<1> USE Facts DEF gameVars, snapshotVars, captureVars, pendingVars, tickVars
<1>t. /\ Typed /\ TypeOK /\ Settled /\ Captures /\ Parked /\ Rosters /\ Censuses
      /\ captured \in Seq(Animals) /\ Len(captured) \in Nat /\ cursor \in Nat /\ pending \in Nat
      /\ todo.new \in Seq(Animals) /\ todo.old \in SUBSET Animals /\ retry \in SUBSET Animals
      /\ cached \in SUBSET Animals /\ removed \in SUBSET Animals
      /\ prev # None => prev \in SUBSET Animals
  BY DEF Sound, Typed, TypeOK
<1>b. Typed'
  BY <1>t, TypedTick
<1>e. SUFFICES Settled' /\ Captures' /\ Parked' /\ Rosters' /\ Censuses'
  BY <1>b DEF Sound
<1>s. /\ Under' = Under /\ Stored' = Stored /\ Census' = Census
      /\ \A a \in Animals, p \in {"stored", "placed", "freed", "gone"} :
           where'[a] = p <=> where[a] = p
      /\ captured' = captured /\ count' = count
  BY <1>t, Still
<1>d. \A i \in DOMAIN captured : captured[i] \in Animals
  BY <1>t
\* How each part survives a step that leaves most of it alone.
<1>f. ASSUME untold' \subseteq untold, pending = 0 /\ count <= seen => pending' = 0 /\ count <= seen'
      PROVE  Settled'
  BY <1>f, <1>t, <1>s DEF Settled
<1>g. ASSUME UNCHANGED <<cursor, todo>>, step' # "consume" => todo = NoCaptures,
             step' \notin {"idle", "drain"} => step \notin {"idle", "drain"}
      PROVE  Captures'
  <2>1. \A i \in DOMAIN captured : where'[captured[i]] = "freed"
    BY <1>d, <1>t, <1>s DEF Captures
  <2> QED
    BY <1>g, <1>t, <1>s, <2>1 DEF Captures, NoCaptures
<1>h. ASSUME UNCHANGED <<cursor, todo>>, retry' \subseteq retry, cached' \subseteq cached
      PROVE  Parked'
  BY <1>h, <1>t, <1>s DEF Parked
<1>i. ASSUME cached' \subseteq cached, prev' = prev, removed' \subseteq removed,
             "ids" \in untold => "ids" \in untold', step' # "evict" => removed' = {},
             removed' # {} /\ pending = 0 => pending' = 0
      PROVE  Rosters'
  BY <1>i, <1>t, <1>s DEF Rosters
<1>j. ASSUME raw' = raw \/ raw' = None, raw' # None => step' \in {"drops", "retire"},
             baseline' = baseline, "census" \in untold => "census" \in untold'
      PROVE  Censuses'
  BY <1>j, <1>t, <1>s DEF Censuses
<1>1. CASE BeginTick
  <2>1. step = "idle" /\ step' = "drain" /\ seen' = count
    BY <1>1, NoFault DEF BeginTick, ReadCount
  <2>2. removed = {} /\ raw = None
    BY <2>1, <1>t DEF Rosters, Censuses
  <2>3. Settled'
    <3>1. seen \in Nat /\ count \in Nat
      BY <1>t DEF TypeOK
    <3>2. count <= seen => ~(seen' > seen) /\ count <= seen'
      BY <2>1, <3>1
    <3>3. count <= seen => pending' = pending
      BY <1>1, <3>2 DEF BeginTick
    <3> QED
      BY <1>1, <1>f, <3>2, <3>3 DEF BeginTick
  <2>4. Captures' /\ Parked'
    BY <1>1, <2>1, <1>g, <1>h, <1>t DEF BeginTick, Captures
  <2>5. Rosters' /\ Censuses'
    BY <1>1, <2>1, <2>2, <1>i, <1>j DEF BeginTick
  <2> QED
    BY <2>3, <2>4, <2>5
<1>2. CASE ReadCaptures
  <2> DEFINE n == Len(captured)
             o == Oldest(n)
  <2>1. /\ step = "drain" /\ step' = "consume" /\ cursor' = n /\ retry' = {}
        /\ todo' = [old |-> retry, new |-> SubSeq(captured, o + 1, n)]
    BY <1>2, NoFault DEF ReadCaptures
  <2>2. todo.new = <<>> /\ Len(todo.new) = 0
    BY <2>1, <1>t DEF Captures, NoCaptures
  <2>3. o \in Nat /\ cursor <= o /\ o <= n
    BY <1>t DEF Oldest, Captures
  <2> HIDE DEF o
  <2>4. /\ Len(SubSeq(captured, o + 1, n)) = n - o
        /\ DOMAIN SubSeq(captured, o + 1, n) = 1..(n - o)
        /\ \A i \in 1..(n - o) : SubSeq(captured, o + 1, n)[i] = captured[o + i]
    BY <2>3, <1>t, SubSeqProperties
  <2>5. todo'.old = retry /\ todo'.new = SubSeq(captured, o + 1, n)
    BY <2>1
  <2>6. Captures'
    <3>1. Len(todo'.new) <= n /\ n - Len(todo'.new) = o
      BY <2>3, <2>4, <2>5, <1>t
    <3>2. \A i \in DOMAIN todo'.new : todo'.new[i] = captured[n - Len(todo'.new) + i]
      BY <2>4, <2>5, <3>1
    <3>3. \A i \in DOMAIN captured : where'[captured[i]] = "freed"
      BY <1>d, <1>t, <1>s DEF Captures
    <3>4. cursor' = n /\ step' = "consume" /\ captured' = captured /\ n = Len(captured)
      BY <2>1, <1>s
    <3>5. \A i \in DOMAIN todo'.new : todo'.new[i] = captured'[cursor' - Len(todo'.new) + i]
      BY <3>2, <3>4
    <3>6. Len(todo'.new) <= cursor' /\ cursor' <= Len(captured') /\ cursor' = Len(captured')
      BY <3>1, <3>4, <1>t
    <3>7. /\ \A i, j \in DOMAIN captured' : captured'[i] = captured'[j] => i = j
          /\ \A i \in DOMAIN captured' : where'[captured'[i]] = "freed"
      BY <3>3, <3>4, <1>t DEF Captures
    <3> HIDE DEF n
    <3> QED
      BY <3>4, <3>5, <3>6, <3>7 DEF Captures
  <2>7. Parked'
    <3>1. cursor' - Len(todo'.new) = o
      BY <2>1, <2>3, <2>4, <2>5, <1>t
    <3>2. \A a \in retry : a \notin cached /\ \E i \in 1..cursor : captured[i] = a
      BY <2>2, <1>t DEF Parked
    <3>3. \A a \in retry : \E i \in 1..o : captured[i] = a
      BY <2>3, <3>2, <1>t
    <3>4. cached' = cached /\ captured' = captured /\ retry' = {}
      BY <1>2, <2>1, <1>s DEF ReadCaptures
    <3>5. \A a \in retry' \cup todo'.old : /\ a \notin cached'
                                         /\ \E i \in 1..(cursor' - Len(todo'.new)) : captured'[i] = a
      BY <2>5, <3>1, <3>2, <3>3, <3>4
    <3> QED
      BY <3>4, <3>5 DEF Parked
  <2>8. removed = {} /\ raw = None
    BY <2>1, <1>t DEF Rosters, Censuses
  <2>9. Settled' /\ Rosters' /\ Censuses'
    BY <1>2, <2>1, <2>8, <1>f, <1>i, <1>j DEF ReadCaptures
  <2> QED
    BY <2>6, <2>7, <2>9
<1>4. CASE EndDrain
  <2>1. Settled' /\ Captures' /\ Parked'
    BY <1>4, <1>f, <1>g, <1>h DEF EndDrain
  <2>2. removed = {} /\ raw = None
    BY <1>4, <1>t DEF EndDrain, Rosters, Censuses
  <2>3. Rosters' /\ Censuses'
    BY <1>4, <2>2, <1>i, <1>j DEF EndDrain
  <2> QED
    BY <2>1, <2>3
<1>5. CASE ReadRoster
  <2>1. /\ step = "roster" /\ step' = "evict" /\ prev' = Stored
        /\ removed' = (IF prev = None THEN {} ELSE prev \ Stored)
        /\ cached' \subseteq cached \cup Stored /\ untold' = untold \ {"ids"}
    BY <1>5 DEF ReadRoster
  <2>2. \A a \in Stored : where[a] = "stored" /\ a \in Animals
    BY DEF Stored
  <2>3. Settled'
    BY <1>5, <2>1, <1>f DEF ReadRoster
  <2>4. Captures'
    BY <1>5, <2>1, <1>g, <1>t DEF ReadRoster, Captures
  <2>5. Parked'
    <3>1. \A a \in retry \cup todo.old : \E i \in 1..(cursor - Len(todo.new)) : captured[i] = a
      BY <1>t DEF Parked
    <3>2. \A i \in 1..(cursor - Len(todo.new)) : i \in DOMAIN captured
      BY <1>t DEF Captures
    <3>3. \A a \in retry \cup todo.old : where[a] = "freed"
      BY <3>1, <3>2, <1>t DEF Captures
    <3>4. \A a \in retry \cup todo.old : a \notin cached'
      BY <2>1, <2>2, <3>3, <1>t DEF Parked
    <3> QED
      BY <1>5, <3>1, <3>4, <1>s, <1>t DEF ReadRoster, Parked
  <2>6. Rosters'
    <3>1. \A a \in cached' : where'[a] \in {"stored", "freed", "gone"}
      BY <2>1, <2>2, <1>s, <1>t DEF Rosters
    <3>2. \A a \in prev' : where'[a] = "stored"
      BY <2>1, <2>2, <1>s
    <3>3. ASSUME NEW a \in removed'
          PROVE  where'[a] = "freed" \/ (where'[a] = "gone" /\ pending' = 0)
      <4>1. prev # None /\ a \in prev /\ a \in Animals /\ where[a] # "stored"
        BY <2>1, <3>3, <1>t DEF Stored
      <4>2. where[a] = "freed" \/ (where[a] = "gone" /\ "ids" \in untold)
        BY <4>1, <1>t DEF Rosters
      <4>3. "ids" \in untold => pending = 0
        BY <1>t DEF Settled
      <4> QED
        BY <1>5, <4>1, <4>2, <4>3, <1>s DEF ReadRoster
    <3> QED
      BY <2>1, <3>1, <3>2, <3>3 DEF Rosters
  <2>7. raw = None
    BY <2>1, <1>t DEF Censuses
  <2>8. Censuses'
    BY <1>5, <2>1, <2>7, <1>j DEF ReadRoster
  <2> QED
    BY <2>3, <2>4, <2>5, <2>6, <2>8
<1>6. CASE RosterUnreadable
  <2>1. removed = {} /\ raw = None /\ todo = NoCaptures
    BY <1>6, <1>t DEF RosterUnreadable, Rosters, Censuses, Captures
  <2>2. Settled' /\ Captures' /\ Parked'
    BY <1>6, <2>1, <1>f, <1>g, <1>h DEF RosterUnreadable
  <2>3. Rosters' /\ Censuses'
    BY <1>6, <2>1, <1>i, <1>j DEF RosterUnreadable
  <2> QED
    BY <2>2, <2>3
<1>8. CASE EndEvict
  <2>1. removed = {} /\ raw = None /\ todo = NoCaptures
    BY <1>8, <1>t DEF EndEvict, Censuses, Captures
  <2>2. Settled' /\ Captures' /\ Parked'
    BY <1>8, <2>1, <1>f, <1>g, <1>h DEF EndEvict
  <2>3. Rosters' /\ Censuses'
    BY <1>8, <2>1, <1>i, <1>j DEF EndEvict
  <2> QED
    BY <2>2, <2>3
<1>9. CASE ReadCensus
  <2>1. removed = {} /\ todo = NoCaptures /\ step' \in {"drops", "retire"} /\ step = "census"
    BY <1>9, <1>t DEF ReadCensus, Rosters, Captures
  <2>2. Settled' /\ Captures' /\ Parked'
    BY <1>9, <2>1, <1>f, <1>g, <1>h DEF ReadCensus
  <2>3. Rosters'
    BY <1>9, <2>1, <1>i DEF ReadCensus
  <2>4. Censuses'
    <3>1. Census \in [Species -> Nat] /\ Census # None
      BY CensusTyped
    <3>2. \A s \in Species : Census[s] >= Census[s]
      BY <3>1
    <3>3. raw' = Census /\ baseline' = (IF baseline = None THEN Census ELSE baseline) /\ untold' = untold
      BY <1>9 DEF ReadCensus
    <3> QED
      BY <2>1, <3>1, <3>2, <3>3, <1>s, <1>t DEF Censuses
  <2> QED
    BY <2>2, <2>3, <2>4
<1>10. CASE CensusUnreadable
  <2>1. removed = {} /\ todo = NoCaptures
    BY <1>10, <1>t DEF CensusUnreadable, Rosters, Captures
  <2>2. Settled' /\ Captures' /\ Parked'
    BY <1>10, <2>1, <1>f, <1>g, <1>h DEF CensusUnreadable
  <2>3. Rosters' /\ Censuses'
    BY <1>10, <2>1, <1>i, <1>j DEF CensusUnreadable
  <2> QED
    BY <2>2, <2>3
<1>12. CASE EndDrops
  <2>1. removed = {} /\ todo = NoCaptures
    BY <1>12, <1>t DEF EndDrops, Rosters, Captures
  <2>2. Settled' /\ Captures' /\ Parked'
    BY <1>12, <2>1, <1>f, <1>g, <1>h DEF EndDrops
  <2>3. Rosters' /\ Censuses'
    BY <1>12, <2>1, <1>i, <1>j DEF EndDrops
  <2> QED
    BY <2>2, <2>3
<1>3. CASE DrainCapture
  <2>1. /\ step = "consume" /\ step' = "consume" /\ cursor' = cursor /\ removed = {} /\ raw = None
        /\ UNCHANGED <<seen, prev, baseline, removed, raw, untold>>
    BY <1>3, <1>t DEF DrainCapture, Rosters, Censuses
  <2>2. cursor = Len(captured)
    BY <2>1, <1>t DEF Captures
  <2> DEFINE len == Len(todo.new)
  <2>3. PICK a \in Animals :
          /\ Consume(a)
          /\ \/ /\ a \in todo.old /\ todo'.old = todo.old \ {a} /\ todo'.new = todo.new
                /\ Len(todo'.new) = len
             \/ /\ todo.old = {} /\ todo.new # <<>> /\ a = captured[cursor - len + 1]
                /\ todo'.old = {} /\ todo'.new = Tail(todo.new)
                /\ len >= 1 /\ Len(todo'.new) = len - 1
          /\ Drained(a)
    BY <1>3, <1>t, Draining
  <2>4. /\ len \in Nat /\ len <= cursor
        /\ \/ a \in todo.old /\ Len(todo'.new) = len
           \/ len >= 1 /\ Len(todo'.new) = len - 1
    <3>1. len \in Nat /\ len <= cursor
      BY <1>t DEF Captures
    <3> HIDE DEF len
    <3>2. \/ a \in todo.old /\ Len(todo'.new) = len
          \/ len >= 1 /\ Len(todo'.new) = len - 1
      BY <2>3
    <3> QED
      BY <3>1, <3>2
  <2>5. Settled'
    <3>1. pending = 0 => pending' = 0
      BY <2>3, <1>t, ConsumeEffect
    <3> QED
      BY <2>1, <3>1, <1>f, <1>s
  <2>6. Captures'
    <3>1. \A i \in DOMAIN todo'.new : todo'.new[i] = captured[cursor - Len(todo'.new) + i]
      <4>1. CASE todo'.new = todo.new
        BY <4>1, <1>t DEF Captures
      <4>2. CASE todo.new # <<>> /\ todo'.new = Tail(todo.new)
        <5>1. /\ Len(Tail(todo.new)) = len - 1
              /\ \A i \in DOMAIN Tail(todo.new) : i \in Nat /\ i + 1 \in DOMAIN todo.new
                                                  /\ Tail(todo.new)[i] = todo.new[i + 1]
          BY <4>2, <1>t, HeadTailProperties
        <5>2. \A i \in DOMAIN Tail(todo.new) : cursor - (len - 1) + i = cursor - len + (i + 1)
          BY <2>4, <5>1, <1>t
        <5> QED
          BY <4>2, <5>1, <5>2, <1>t DEF Captures
      <4> QED
        BY <2>3, <4>1, <4>2
    <3>2. Len(todo'.new) <= cursor
      BY <2>4, <1>t
    <3>3. \A i \in DOMAIN captured : where'[captured[i]] = "freed"
      BY <1>d, <1>t, <1>s DEF Captures
    <3> QED
      BY <2>1, <2>2, <3>1, <3>2, <3>3, <1>t, <1>s DEF Captures
  <2>7. Parked'
    <3>1. \A i \in 1..(cursor - len) : i \in 1..(cursor - Len(todo'.new))
      BY <2>4, <1>t
    <3>2. \A b \in retry \cup todo.old : /\ b \notin cached
                                         /\ \E i \in 1..(cursor - Len(todo'.new)) : captured[i] = b
      BY <3>1, <1>t DEF Parked
    <3>3. \E i \in 1..(cursor - Len(todo'.new)) : captured[i] = a
      BY <2>3 DEF Drained
    <3>4. /\ cached' \subseteq cached
          /\ retry' \subseteq retry \cup {a} /\ (a \in retry' => a \in retry \/ a \notin cached)
      BY <2>3, <1>t, ConsumeEffect
    <3>5. todo'.old \subseteq todo.old /\ a \notin todo'.old
      BY <2>3
    <3>6. retry' \cap todo'.old = {}
      BY <3>4, <3>5, <1>t DEF Parked
    <3>7. \A b \in retry' \cup todo'.old : b \notin cached'
      BY <3>2, <3>4, <3>5
    <3> QED
      BY <2>1, <3>2, <3>3, <3>4, <3>5, <3>6, <3>7, <1>s DEF Parked
  <2>8. Rosters' /\ Censuses'
    BY <2>1, <2>3, <1>t, <1>i, <1>j, ConsumeEffect
  <2> QED
    BY <2>5, <2>6, <2>7, <2>8
<1>7. CASE Evict
  <2>1. PICK a \in removed : /\ Attribute(a)
                             /\ removed' = removed \ {a}
                             /\ cached' = cached \ {a}
    BY <1>7 DEF Evict
  <2>2. pending = 0 => pending' = 0
    BY <2>1 DEF Attribute
  <2>3. /\ step = "evict" /\ raw = None /\ todo = NoCaptures
        /\ UNCHANGED <<prev, baseline, cursor, retry, seen, step, todo, raw, untold>>
    BY <1>7, <1>t DEF Evict, Censuses, Captures
  <2>4. Settled' /\ Captures' /\ Parked'
    BY <2>1, <2>2, <2>3, <1>f, <1>g, <1>h, <1>s
  <2>5. Rosters' /\ Censuses'
    BY <2>1, <2>2, <2>3, <1>i, <1>j
  <2> QED
    BY <2>4, <2>5
<1>11. CASE AttributeDrop
  <2>1. PICK s \in Species : /\ raw[s] < baseline[s]
                             /\ baseline' = [baseline EXCEPT ![s] = @ - 1]
    BY <1>11 DEF AttributeDrop
  <2>2. /\ step = "drops" /\ raw # None /\ baseline # None /\ raw = Census /\ removed = {}
        /\ pending > 0 /\ untold = {}
        /\ UNCHANGED <<cached, prev, cursor, retry, seen, step, todo, removed, raw, untold>>
    BY <1>11, <1>t DEF AttributeDrop, Typed, Compared, Censuses, Rosters, Settled
  <2>3. Settled'
    BY <2>2 DEF Settled
  <2>4. Captures' /\ Parked'
    BY <2>2, <1>g, <1>h, <1>t DEF Captures
  <2>5. Rosters'
    BY <2>2, <1>i
  <2>6. baseline \in [Species -> Nat] /\ raw \in [Species -> Nat]
    BY <2>2, <1>t DEF TypeOK
  <2>7. \A r \in Species : baseline'[r] >= Census[r]
    <3>1. \A r \in Species : baseline[r] >= Census[r]
      BY <2>2, <1>t DEF Censuses
    <3> QED
      BY <2>1, <2>2, <2>6, <3>1
  <2>8. baseline' # None
    BY <2>1, <2>6
  <2>9. Censuses'
    BY <2>2, <2>7, <2>8, <1>s DEF Censuses
  <2> QED
    BY <2>3, <2>4, <2>5, <2>9
<1>13. CASE RetirePending
  <2>1. /\ step = "retire" /\ step' = "idle" /\ removed = {} /\ todo = NoCaptures /\ raw' = None
        /\ retry' \subseteq retry /\ pending' \in {0, pending} /\ untold' \subseteq untold
        /\ UNCHANGED <<cached, prev, cursor, seen, todo, removed>>
        /\ "ids" \in untold => "ids" \in untold'
    BY <1>13, <1>t DEF RetirePending, Rosters, Captures
  <2>2. Settled' /\ Captures' /\ Parked'
    BY <2>1, <1>f, <1>g, <1>h, <1>s
  <2>3. Rosters'
    BY <2>1, <1>i
  <2>4. Censuses'
    <3>1. CASE baseline' = raw /\ raw # None
      <4>1. raw = Census /\ Census \in [Species -> Nat]
        BY <3>1, <1>t, CensusTyped DEF Censuses
      <4>2. \A s \in Species : Census[s] >= Census[s]
        BY <4>1
      <4> QED
        BY <2>1, <3>1, <4>1, <4>2, <1>s DEF Censuses
    <3>2. CASE UNCHANGED <<baseline, untold>>
      BY <2>1, <3>2, <1>j
    <3> QED
      BY <1>13, <3>1, <3>2 DEF RetirePending
  <2> QED
    BY <2>2, <2>3, <2>4
<1> QED
  BY <1>1, <1>2, <1>3, <1>4, <1>5, <1>6, <1>7, <1>8, <1>9, <1>10, <1>11, <1>12, <1>13 DEF Tick

\* Nothing but a release happens while one is under way, and each action moves
\* one animal.
Moves(a) ==
  \/ /\ where[a] = "stored" /\ where'[a] = "freed" /\ captured' = Append(captured, a)
     /\ untold = {} /\ untold' = {}
  \/ /\ where[a] = "placed" /\ where'[a] = "leaving" /\ captured' = captured
     /\ untold = {} /\ untold' = {} /\ baseline # None
  \/ /\ where[a] \in {"leaving", "late"} /\ where'[a] = "freed" /\ captured' = captured
     /\ untold = {} /\ untold' = {}
  \/ /\ where[a] = "away" /\ where'[a] = "stored" /\ UNCHANGED <<captured, count, untold>>
  \/ /\ pending = 0 /\ count <= seen /\ Under = {} /\ UNCHANGED <<captured, count>>
     /\ \/ where[a] = "away" /\ where'[a] = "placed" /\ untold' = untold \cup {"census"}
        \/ where[a] = "placed" /\ where'[a] = "gone" /\ untold' = untold \cup {"census"}
        \/ where[a] = "stored" /\ where'[a] = "gone" /\ untold' = untold \cup {"ids"}

LEMMA GameMoves ==
  ASSUME Orderly, Sound, Game
  PROVE  /\ step = "idle" /\ todo = NoCaptures /\ removed = {} /\ raw = None
         /\ UNCHANGED <<cached, prev, baseline, cursor, done, retry, seen, pending, waited,
                        credits, step, todo, removed, raw>>
         /\ \E a \in Animals : Moves(a) /\ \A b \in Animals : b # a => where'[b] = where[b]
<1> USE DEF gameVars, snapshotVars, captureVars, pendingVars, tickVars
<1>t. /\ Settled /\ Captures /\ Rosters /\ Censuses
      /\ where \in [Animals -> Places] /\ pending \in Nat /\ count \in Nat /\ seen \in Nat
  BY DEF Sound, Typed, TypeOK
<1>1. PICK a \in Animals : \/ ReleaseStored(a) \/ ReleasePlaced(a) \/ CensusFollows(a)
                           \/ ArriveStored(a) \/ ArrivePlaced(a) \/ Lose(a)
  BY DEF Game
<1>2. step = "idle"
  BY <1>1 DEF Orderly, ReleaseStored, ReleasePlaced, CensusFollows, ArriveStored, ArrivePlaced,
              Lose, MayRelease, MayChange
<1>3. UNCHANGED <<cached, prev, baseline, cursor, done, retry, seen, pending, waited, credits,
                  step, todo, removed, raw>>
  BY <1>1 DEF ReleaseStored, ReleasePlaced, CensusFollows, ArriveStored, ArrivePlaced, Lose
<1>4. \A b \in Animals : b # a => where'[b] = where[b]
  BY <1>1, <1>t DEF ReleaseStored, ReleasePlaced, CensusFollows, ArriveStored, ArrivePlaced, Lose
<1>5. Moves(a)
  <2>1. CASE ReleaseStored(a)
    BY <2>1, <1>t DEF Orderly, ReleaseStored, MayRelease, Moves
  <2>2. CASE ReleasePlaced(a)
    BY <2>2, <1>t DEF Orderly, ReleasePlaced, MayRelease, Moves
  <2>3. CASE CensusFollows(a)
    <3>1. a \in Under
      BY <2>3 DEF CensusFollows, Under
    <3>2. untold = {}
      BY <3>1, <1>t DEF Settled
    <3> QED
      BY <2>3, <3>2, <1>t DEF CensusFollows, Moves
  <2>4. CASE ArriveStored(a)
    BY <2>4, <1>t DEF ArriveStored, Moves
  <2>5. CASE ArrivePlaced(a) \/ Lose(a)
    <3>1. ~Outstanding
      BY <2>5 DEF Orderly, ArrivePlaced, Lose, MayChange
    <3>2. pending = 0 /\ count <= seen
      <4>1. ~(pending > 0) /\ ~(count > seen)
        BY <3>1 DEF Outstanding
      <4> QED
        BY <4>1, <1>t
    <3>3. Under = {}
      BY <3>1 DEF Outstanding, Under
    <3>4. UNCHANGED <<captured, count>>
      BY <2>5 DEF ArrivePlaced, Lose
    <3>5. \/ where[a] = "away" /\ where'[a] = "placed" /\ untold' = untold \cup {"census"}
          \/ where[a] = "placed" /\ where'[a] = "gone" /\ untold' = untold \cup {"census"}
          \/ where[a] = "stored" /\ where'[a] = "gone" /\ untold' = untold \cup {"ids"}
      BY <2>5, <1>t DEF ArrivePlaced, Lose
    <3> QED
      BY <3>2, <3>3, <3>4, <3>5 DEF Moves
  <2> QED
    BY <1>1, <2>1, <2>2, <2>3, <2>4, <2>5
<1>6. todo = NoCaptures /\ removed = {} /\ raw = None
  BY <1>2, <1>t DEF Captures, Rosters, Censuses
<1> QED
  BY <1>2, <1>3, <1>4, <1>5, <1>6

\* The census counts an animal that stays in it once, and no other one.
LEMMA CensusKept ==
  ASSUME NEW a \in Animals, \A b \in Animals : b # a => where'[b] = where[b],
         where'[a] \in {"placed", "leaving", "late"} => where[a] \in {"placed", "leaving", "late"}
  PROVE  \A s \in Species : Census'[s] \in Nat /\ Census[s] \in Nat /\ Census'[s] <= Census[s]
<1> SUFFICES ASSUME NEW s \in Species
             PROVE  Census'[s] \in Nat /\ Census[s] \in Nat /\ Census'[s] <= Census[s]
  OBVIOUS
<1> DEFINE A == {b \in Animals : where'[b] \in {"placed", "leaving", "late"} /\ SpeciesOf[b] = s}
           B == {b \in Animals : where[b] \in {"placed", "leaving", "late"} /\ SpeciesOf[b] = s}
<1>1. A \subseteq B /\ IsFiniteSet(A) /\ IsFiniteSet(B)
  BY Countable
<1>2. Cardinality(A) \in Nat /\ Cardinality(B) \in Nat /\ Cardinality(A) <= Cardinality(B)
  BY <1>1, FS_Subset, FS_CardinalityType
<1>3. Census'[s] = Cardinality(A) /\ Census[s] = Cardinality(B)
  BY DEF Census
<1> QED
  BY <1>2, <1>3

LEMMA SoundGame ==
  ASSUME Orderly, Sound, Game
  PROVE  Sound'
<1> USE Facts
<1>t. /\ Typed /\ TypeOK /\ Settled /\ Captures /\ Parked /\ Rosters /\ Censuses
      /\ captured \in Seq(Animals) /\ Len(captured) \in Nat /\ cursor \in Nat
      /\ todo.new \in Seq(Animals) /\ cached \in SUBSET Animals
      /\ prev # None => prev \in SUBSET Animals
      /\ baseline # None => baseline \in [Species -> Nat]
  BY DEF Sound, Typed, TypeOK
<1>b. Typed'
  BY <1>t, TypedGame
<1>1. /\ step = "idle" /\ todo = NoCaptures /\ removed = {} /\ raw = None
      /\ UNCHANGED <<cached, prev, baseline, cursor, retry, seen, pending, step, todo, removed, raw>>
  BY GameMoves
<1>2. PICK a \in Animals : Moves(a) /\ \A b \in Animals : b # a => where'[b] = where[b]
  BY GameMoves
<1>3. todo.new = <<>> /\ todo.old = {} /\ Len(todo.new) = 0 /\ DOMAIN todo.new = {}
  BY <1>1 DEF NoCaptures
<1>d. \A i \in DOMAIN captured : captured[i] \in Animals
  BY <1>t
<1>4. Settled'
  <2>1. ASSUME Under = {}, where'[a] \notin {"leaving", "late"} PROVE Under' = {}
    BY <2>1, <1>2 DEF Under
  <2>2. CASE untold' = {}
    BY <2>2 DEF Settled
  <2>3. CASE where[a] = "away" /\ where'[a] = "stored" /\ UNCHANGED <<captured, count, untold>>
    BY <2>1, <2>3, <1>1, <1>t DEF Settled
  <2>4. CASE pending = 0 /\ count <= seen /\ Under = {} /\ UNCHANGED count
             /\ where'[a] \in {"placed", "gone"}
    BY <2>1, <2>4, <1>1 DEF Settled
  <2> QED
    BY <1>2, <2>2, <2>3, <2>4 DEF Moves
<1>5. Captures' /\ Parked'
  <2>1. CASE captured' = Append(captured, a) /\ where[a] = "stored" /\ where'[a] = "freed"
    <3>1. /\ Len(captured') = Len(captured) + 1 /\ DOMAIN captured' = 1..(Len(captured) + 1)
          /\ captured'[Len(captured) + 1] = a
          /\ \A i \in 1..Len(captured) : captured'[i] = captured[i] /\ i \in DOMAIN captured
      BY <2>1, <1>t, AppendProperties
    <3>2. \A i \in 1..Len(captured) : captured[i] # a /\ captured[i] \in Animals
      BY <2>1, <3>1, <1>d, <1>t DEF Captures
    <3>3. \A i \in DOMAIN captured' : i \in 1..Len(captured) \/ i = Len(captured) + 1
      BY <3>1, <1>t
    <3>4. \A i, j \in DOMAIN captured' : captured'[i] = captured'[j] => i = j
      BY <3>1, <3>2, <3>3, <1>t DEF Captures
    <3>5. \A i \in DOMAIN captured' : where'[captured'[i]] = "freed"
      BY <2>1, <3>1, <3>2, <3>3, <1>2, <1>t DEF Captures
    <3>6. cursor' <= Len(captured') /\ Len(todo'.new) <= cursor'
      BY <1>1, <1>3, <1>t, <3>1 DEF Captures
    <3>7. Captures'
      BY <1>1, <1>3, <3>4, <3>5, <3>6 DEF Captures, NoCaptures
    <3>8. \A i \in 1..(cursor - Len(todo.new)) : i \in 1..Len(captured)
      BY <1>3, <1>t DEF Captures
    <3>9. Parked'
      BY <1>1, <3>1, <3>8, <1>t DEF Parked
    <3> QED
      BY <3>7, <3>9
  <2>2. CASE captured' = captured /\ (where[a] # "freed" \/ where'[a] = "freed")
    <3>1. \A i \in DOMAIN captured : where'[captured[i]] = "freed"
      BY <2>2, <1>d, <1>2, <1>t DEF Captures
    <3>2. Captures'
      BY <1>1, <2>2, <3>1, <1>t DEF Captures, NoCaptures
    <3> QED
      BY <1>1, <2>2, <3>2, <1>t DEF Parked
  <2> QED
    BY <1>2, <2>1, <2>2 DEF Moves
<1>6. Rosters'
  <2>1. \A b \in cached' : where'[b] \in {"stored", "freed", "gone"}
    BY <1>1, <1>2, <1>t DEF Rosters, Moves
  <2>2. prev' # None => \A b \in prev' : \/ where'[b] \in {"stored", "freed"}
                                         \/ where'[b] = "gone" /\ "ids" \in untold'
    BY <1>1, <1>2, <1>t DEF Rosters, Moves
  <2> QED
    BY <1>1, <2>1, <2>2 DEF Rosters
<1>7. Censuses'
  <2>1. baseline = None => Under' = {}
    <3>1. Under = {} /\ where'[a] \notin {"leaving", "late"} => Under' = {}
      BY <1>2 DEF Under
    <3> QED
      BY <3>1, <1>2, <1>t DEF Censuses, Moves
  <2>2. ASSUME baseline # None, "census" \notin untold'
        PROVE  \A s \in Species : baseline[s] >= Census'[s]
    <3>1. "census" \notin untold
      BY <2>2, <1>2 DEF Moves
    <3>2. where'[a] \in {"placed", "leaving", "late"} => where[a] \in {"placed", "leaving", "late"}
      BY <2>2, <1>2 DEF Moves
    <3>3. \A s \in Species : Census'[s] \in Nat /\ Census[s] \in Nat /\ Census'[s] <= Census[s]
      BY <3>2, <1>2, CensusKept
    <3>4. \A s \in Species : baseline[s] \in Nat /\ baseline[s] >= Census[s]
      BY <2>2, <3>1, <1>t DEF Censuses
    <3> QED
      BY <3>3, <3>4
  <2> QED
    BY <1>1, <2>1, <2>2 DEF Censuses
<1> QED
  BY <1>b, <1>4, <1>5, <1>6, <1>7 DEF Sound

\* What a step of the game opens: the animal it releases from storage.
LEMMA LedgerGame ==
  ASSUME Orderly, Sound, Ledger, Game
  PROVE  Ledger'
<1> USE Facts
<1>t. /\ Captures /\ Parked /\ Rosters /\ Censuses
      /\ captured \in Seq(Animals) /\ Len(captured) \in Nat /\ cursor \in Nat
      /\ cached \in SUBSET Animals
      /\ baseline # None => baseline \in [Species -> Nat]
  BY DEF Sound, Typed, TypeOK
<1>1. /\ todo = NoCaptures
      /\ UNCHANGED <<cached, baseline, cursor, retry, credits, todo>>
  BY GameMoves
<1>2. PICK a \in Animals : Moves(a) /\ \A b \in Animals : b # a => where'[b] = where[b]
  BY GameMoves
<1>3. todo.new = <<>> /\ todo.old = {} /\ DOMAIN todo.new = {} /\ Len(todo.new) = 0
  BY <1>1 DEF NoCaptures
<1>s. SUFFICES ASSUME NEW s \in Species
               PROVE  credits[s] + Of(Open', s) + Drop(s)' <= Of(Released', s)
  BY <1>1 DEF Ledger
<1>n. /\ credits[s] + Of(Open, s) + Drop(s) <= Of(Released, s)
      /\ Drop(s) \in Nat /\ Of(Open, s) \in Nat /\ Of(Released, s) \in Nat /\ credits[s] \in Nat
  BY DropNat DEF Ledger
<1>p. /\ Open \in SUBSET Animals /\ Released \in SUBSET Animals /\ Placed \in SUBSET Animals
      /\ Open \subseteq Released /\ Open' \in SUBSET Animals /\ Open' \subseteq Released'
      /\ Released' \in SUBSET Animals
  BY DEF Open, Released, Placed
\* A capture already there is of an animal that is gone.
<1>4. \A i \in DOMAIN captured : captured[i] \in Animals /\ where[captured[i]] = "freed"
  BY <1>t DEF Captures
<1>5. \A b \in retry : where[b] = "freed"
  <2>1. \A i \in 1..(cursor - Len(todo.new)) : i \in DOMAIN captured
    BY <1>3, <1>t DEF Captures
  <2> QED
    BY <2>1, <1>4, <1>t DEF Parked
<1>6. CASE where[a] = "stored" /\ where'[a] = "freed" /\ captured' = Append(captured, a)
           /\ untold' = untold
  <2>1. Released' = Released \cup {a} /\ a \notin Released /\ Placed' = Placed
    BY <1>6, <1>2 DEF Released, Placed
  <2>2. /\ Len(captured') = Len(captured) + 1 /\ captured'[Len(captured) + 1] = a
        /\ \A i \in 1..Len(captured) : captured'[i] = captured[i]
    BY <1>6, <1>t, AppendProperties
  <2>3. Open' \subseteq Open \cup {a}
    <3>1. SUFFICES ASSUME NEW b \in Open', b # a PROVE b \in Open
      OBVIOUS
    <3>2. b \in Released
      BY <3>1, <2>1, <1>p
    <3>3. CASE b \in cached \cup retry
      BY <3>2, <3>3 DEF Open
    <3>4. CASE \E i \in (cursor + 1)..(Len(captured) + 1) : captured'[i] = b
      <4>1. PICK i \in (cursor + 1)..(Len(captured) + 1) : captured'[i] = b
        BY <3>4
      <4>2. i # Len(captured) + 1
        BY <4>1, <3>1, <2>2
      <4>3. i \in (cursor + 1)..Len(captured) /\ i \in 1..Len(captured)
        BY <4>1, <4>2, <1>t
      <4>4. captured[i] = b
        BY <4>1, <4>3, <2>2
      <4> QED
        BY <3>2, <4>3, <4>4 DEF Open
    <3> QED
      BY <1>1, <1>3, <2>2, <3>1, <3>3, <3>4 DEF Open
  <2>4. Of(Open', s) \in Nat /\ Of(Open', s) <= Of(Open \cup {a}, s)
    BY <2>3, <1>p, OfMono
  <2>5. Of(Open \cup {a}, s) = Of(Open, s) + One(a, s) /\ Of(Released', s) = Of(Released, s) + One(a, s)
    BY <2>1, <1>p, OfPlus
  <2>6. Drop(s)' = Drop(s)
    BY <2>1, <1>1, <1>6 DEF Drop
  <2> QED
    BY <2>4, <2>5, <2>6, <1>n, OneTyped
\* Otherwise no capture is added.
<1>7. ASSUME captured' = captured, \A b \in Released : b \in Released',
             \A b \in Released' : b \in Released \/ b = a, a \in cached \cup retry => a \notin Released' \/ a \in Released,
             where[a] # "freed"
      PROVE  Of(Open', s) \in Nat /\ Of(Open', s) <= Of(Open, s)
  <2>1. \A i \in (cursor + 1)..Len(captured) : i \in DOMAIN captured
    BY <1>t
  <2>2. \A i \in (cursor + 1)..Len(captured) : captured[i] # a
    BY <2>1, <1>4, <1>7
  <2>3. Open' \subseteq Open
    BY <1>1, <1>3, <1>7, <2>2, <1>p DEF Open
  <2> QED
    BY <2>3, <1>p, OfMono
<1>8. CASE where[a] = "placed" /\ where'[a] = "leaving" /\ captured' = captured
           /\ untold = {} /\ untold' = {} /\ baseline # None
  <2>1. Released' = Released \cup {a} /\ a \notin Released /\ Placed' = Placed \ {a} /\ a \in Placed
    BY <1>8, <1>2 DEF Released, Placed
  <2>2. a \notin cached \cup retry
    BY <1>8, <1>5, <1>t DEF Rosters
  <2>3. Of(Open', s) \in Nat /\ Of(Open', s) <= Of(Open, s)
    BY <1>7, <1>8, <2>1, <2>2
  <2>4. Of(Released', s) = Of(Released, s) + One(a, s)
    BY <2>1, <1>p, OfPlus
  <2>5. Of(Placed, s) = Of(Placed', s) + One(a, s) /\ Of(Placed', s) \in Nat
    BY <2>1, <1>p, OfMinus, OfMono
  <2>6. Drop(s)' = baseline[s] - Of(Placed', s) /\ Drop(s) = baseline[s] - Of(Placed, s)
    BY <1>1, <1>8 DEF Drop
  <2>7. baseline[s] \in Nat /\ Of(Placed, s) \in Nat
    <3>1. baseline \in [Species -> Nat]
      BY <1>8, <1>t
    <3>2. Of(Placed, s) \in Nat
      BY <1>s, CensusIs
    <3> QED
      BY <1>s, <3>1, <3>2
  <2>8. Drop(s)' = Drop(s) + One(a, s)
    BY <2>5, <2>6, <2>7, OneTyped
  <2> QED
    BY <2>3, <2>4, <2>8, <1>n, OneTyped
<1>9. CASE /\ captured' = captured /\ where[a] # "freed" /\ (a \in Released <=> a \in Released')
           /\ \/ Placed' = Placed /\ ("census" \in untold' <=> "census" \in untold)
              \/ "census" \in untold'
  <2>1. Released' = Released
    <3>1. \A b \in Animals : b \in Released' <=> b \in Released
      BY <1>2, <1>9 DEF Released
    <3> QED
      BY <3>1, <1>p
  <2>2. Of(Open', s) \in Nat /\ Of(Open', s) <= Of(Open, s)
    BY <1>7, <1>9, <2>1
  <2>3. Drop(s)' \in {0, Drop(s)}
    BY <1>1, <1>9 DEF Drop
  <2> QED
    BY <2>1, <2>2, <2>3, <1>n
<1> QED
  <2>1. CASE where[a] \in {"leaving", "late"} /\ where'[a] = "freed" /\ captured' = captured /\ untold' = untold
    <3>1. Placed' = Placed /\ a \in Released /\ a \in Released'
      BY <2>1, <1>2 DEF Placed, Released
    <3> QED
      BY <1>9, <2>1, <3>1
  <2>2. CASE where[a] = "away" /\ where'[a] = "stored" /\ UNCHANGED <<captured, untold>>
    <3>1. Placed' = Placed /\ a \notin Released /\ a \notin Released'
      BY <2>2, <1>2 DEF Placed, Released
    <3> QED
      BY <1>9, <2>2, <3>1
  <2>3. CASE /\ where[a] \in {"away", "placed"} /\ where'[a] \in {"placed", "gone"}
             /\ captured' = captured /\ "census" \in untold'
    <3>1. a \notin Released /\ a \notin Released'
      BY <2>3 DEF Released
    <3> QED
      BY <1>9, <2>3, <3>1
  <2>4. CASE /\ where[a] = "stored" /\ where'[a] = "gone" /\ captured' = captured
             /\ untold' = untold \cup {"ids"}
    <3>1. Placed' = Placed /\ a \notin Released /\ a \notin Released'
      BY <2>4, <1>2 DEF Placed, Released
    <3> QED
      BY <1>9, <2>4, <3>1
  <2> QED
    BY <1>2, <1>6, <1>8, <2>1, <2>2, <2>3, <2>4 DEF Moves

\* A step of the tick credits an open release, or a drop of the census, or
\* nothing; it opens none.
LEMMA LedgerTick ==
  ASSUME Orderly, Sound, Ledger, Tick
  PROVE  Ledger'
<1> USE Facts DEF gameVars, snapshotVars, captureVars, pendingVars, tickVars
<1>t. /\ Typed /\ TypeOK /\ Settled /\ Captures /\ Parked /\ Rosters /\ Censuses
      /\ captured \in Seq(Animals) /\ Len(captured) \in Nat /\ cursor \in Nat /\ pending \in Nat
      /\ todo.old \in SUBSET Animals /\ retry \in SUBSET Animals /\ cached \in SUBSET Animals
      /\ removed \in SUBSET Animals /\ credits \in [Species -> Nat]
      /\ baseline # None => baseline \in [Species -> Nat]
  BY DEF Sound, Typed, TypeOK
<1>s. /\ Released' = Released /\ Placed' = Placed /\ Under' = Under /\ captured' = captured
      /\ Stored' = Stored
  BY <1>t, Still
<1>p. /\ Open \in SUBSET Animals /\ Open \subseteq Released /\ Released \in SUBSET Animals
      /\ Open' \in SUBSET Animals /\ Open' \subseteq Released
  BY <1>s DEF Open, Released
<1>n. \A s \in Species :
        /\ credits[s] + Of(Open, s) + Drop(s) <= Of(Released, s)
        /\ Drop(s) \in Nat /\ Of(Open, s) \in Nat /\ Of(Released, s) \in Nat /\ credits[s] \in Nat
  BY DropNat DEF Ledger
\* What a step that credits nothing must not do.
<1>q. ASSUME credits' = credits, Open' \subseteq Open,
             \A s \in Species : Drop(s)' \in Nat /\ Drop(s)' <= Drop(s)
      PROVE  Ledger'
  <2>1. \A s \in Species : Of(Open', s) \in Nat /\ Of(Open', s) <= Of(Open, s)
    BY <1>p, <1>q, OfMono
  <2>2. ASSUME NEW s \in Species
        PROVE  credits'[s] + Of(Open', s) + Drop(s)' <= Of(Released', s)
    BY <1>n, <1>q, <1>s, <2>1
  <2> QED
    BY <2>2 DEF Ledger
\* A step that credits an open release closes it.
<1>r. ASSUME NEW a \in Open, Credit(SpeciesOf[a]), Open' \subseteq Open \ {a},
             UNCHANGED <<baseline, untold>>
      PROVE  Ledger'
  <2>1. ASSUME NEW s \in Species
        PROVE  credits'[s] + Of(Open', s) + Drop(s)' <= Of(Released', s)
    <3>1. Of(Open', s) \in Nat /\ Of(Open', s) <= Of(Open \ {a}, s) /\ Of(Open \ {a}, s) \in Nat
      BY <1>p, <1>r, OfMono
    <3>2. Of(Open, s) = Of(Open \ {a}, s) + One(a, s)
      BY <1>p, OfMinus
    <3>3. credits'[s] = credits[s] + One(a, s)
      BY <1>t, <1>r DEF Credit, One
    <3>4. Drop(s)' = Drop(s)
      BY <1>r, <1>s DEF Drop
    <3> QED
      BY <3>1, <3>2, <3>3, <3>4, <1>n, <1>s, OneTyped
  <2> QED
    BY <2>1 DEF Ledger
<1>d. UNCHANGED <<baseline, untold>> => \A s \in Species : Drop(s)' \in Nat /\ Drop(s)' <= Drop(s)
  BY <1>n, <1>s DEF Drop
<1>u. \A s \in Species : /\ Census[s] = Of(Placed, s) + Of(Under, s)
                         /\ Of(Placed, s) \in Nat /\ Of(Under, s) \in Nat
  BY CensusIs
<1>1. CASE \/ BeginTick \/ EndDrain \/ RosterUnreadable \/ EndEvict \/ CensusUnreadable
           \/ EndDrops
  <2>1. UNCHANGED <<credits, cached, retry, todo, cursor, baseline, untold>>
    BY <1>1 DEF BeginTick, EndDrain, RosterUnreadable, EndEvict, CensusUnreadable, EndDrops
  <2>2. Open' \subseteq Open
    BY <2>1, <1>s DEF Open
  <2> QED
    BY <2>1, <2>2, <1>q, <1>d
<1>2. CASE ReadCaptures
  <2> DEFINE n == Len(captured)
             o == Oldest(n)
             rest == SubSeq(captured, o + 1, n)
  <2>1. /\ cursor' = n /\ retry' = {} /\ todo' = [old |-> retry, new |-> rest]
        /\ UNCHANGED <<credits, cached, baseline, untold>>
    BY <1>2, NoFault DEF ReadCaptures
  <2>2. o \in Nat /\ cursor <= o /\ o <= n
    BY <1>t DEF Oldest, Captures
  <2>3. \A i \in DOMAIN rest : o + i \in (cursor + 1)..n /\ rest[i] = captured[o + i]
    <3> HIDE DEF o
    <3>1. DOMAIN rest = 1..(n - o) /\ \A i \in 1..(n - o) : rest[i] = captured[o + i]
      BY <2>2, <1>t, SubSeqProperties
    <3> QED
      BY <2>2, <3>1, <1>t
  <2> HIDE DEF o, rest
  <2>4. todo'.old = retry /\ todo'.new = rest
    BY <2>1
  <2>5. (cursor' + 1)..n = {}
    BY <2>1, <1>t
  <2>6. Open' \subseteq Open
    <3>1. ASSUME NEW b \in Open' PROVE b \in Open
      <4>1. \/ b \in cached \cup retry
            \/ \E i \in DOMAIN rest : rest[i] = b
        BY <3>1, <2>1, <2>4, <2>5, <1>s DEF Open
      <4>2. (\E i \in DOMAIN rest : rest[i] = b)
              => \E i \in (cursor + 1)..Len(captured) : captured[i] = b
        BY <2>3
      <4> QED
        BY <3>1, <4>1, <4>2, <1>p DEF Open
    <3> QED
      BY <3>1
  <2> QED
    BY <2>1, <2>6, <1>q, <1>d
<1>3. CASE DrainCapture
  <2>1. cursor' = cursor /\ UNCHANGED <<baseline, untold>>
    BY <1>3 DEF DrainCapture
  <2>2. PICK a \in Animals : Consume(a) /\ Drained(a)
    BY <1>3, <1>t, Draining
  <2>3. (cursor + 1)..Len(captured) = {}
    <3>1. cursor = Len(captured)
      BY <1>3, <1>t DEF DrainCapture, Captures
    <3> QED
      BY <3>1, <1>t
  <2>4. a \in Open
    BY <2>2 DEF Drained, Open, Released
  <2>5. ASSUME NEW b \in Open', b \in cached' => b \in cached, b \in retry' => b \in retry \cup {a}
        PROVE  b \in Open
    <3>1. CASE b \in cached' \cup retry'
      BY <2>4, <2>5, <3>1, <1>p DEF Open
    <3>2. CASE b \in todo'.old \/ \E i \in DOMAIN todo'.new : todo'.new[i] = b
      <4>1. b \in todo.old \/ \E i \in DOMAIN todo.new : todo.new[i] = b
        BY <2>2, <3>2 DEF Drained
      <4> QED
        BY <2>5, <4>1, <1>p DEF Open
    <3> QED
      BY <2>1, <2>3, <2>5, <3>1, <3>2, <1>s DEF Open
  <2>6. /\ cached' \subseteq cached
        /\ \/ retry' = retry /\ a \notin cached' /\ Credit(SpeciesOf[a])
           \/ retry' = retry \cup {a} /\ UNCHANGED credits
           \/ retry' = retry /\ UNCHANGED credits
    BY <2>2, <1>t, ConsumeEffect
  <2>7. Open' \subseteq Open
    BY <2>5, <2>6
  <2>8. CASE retry' = retry /\ a \notin cached' /\ Credit(SpeciesOf[a])
    <3>1. a \notin Open'
      BY <2>1, <2>2, <2>3, <2>8, <1>s DEF Drained, Open
    <3> QED
      BY <2>1, <2>4, <2>7, <2>8, <3>1, <1>r
  <2>9. CASE UNCHANGED credits
    BY <2>1, <2>7, <2>9, <1>q, <1>d
  <2> QED
    BY <2>6, <2>8, <2>9
<1>4. CASE ReadRoster
  <2>1. /\ cached' \subseteq cached \cup Stored /\ untold' = untold \ {"ids"}
        /\ UNCHANGED <<credits, retry, todo, cursor, baseline>>
    BY <1>4 DEF ReadRoster
  <2>2. Stored \cap Released = {}
    BY DEF Stored, Released
  <2>3. Open' \subseteq Open
    BY <2>1, <2>2, <1>s DEF Open
  <2>4. "census" \in untold' <=> "census" \in untold
    BY <2>1
  <2>5. \A s \in Species : Drop(s)' = Drop(s)
    BY <2>1, <2>4, <1>s DEF Drop
  <2> QED
    BY <2>1, <2>3, <2>5, <1>n, <1>q
<1>5. CASE Evict
  <2>1. PICK a \in removed : Attribute(a) /\ cached' = cached \ {a}
    BY <1>5 DEF Evict
  <2>2. UNCHANGED <<baseline, untold, retry, todo, cursor>>
    BY <1>5 DEF Evict
  <2>3. Open' \subseteq Open
    BY <2>1, <2>2, <1>s DEF Open
  <2>4. CASE UNCHANGED credits
    BY <2>2, <2>3, <2>4, <1>q, <1>d
  <2>5. CASE pending > 0 /\ a \in cached /\ Credit(SpeciesOf[a])
    <3>1. where[a] = "freed" /\ a \in Animals
      BY <2>5, <1>t DEF Rosters
    <3>2. a \in Open
      BY <2>5, <3>1 DEF Open, Released
    <3>3. todo.old = {} /\ DOMAIN todo.new = {} /\ cursor = Len(captured)
      BY <1>5, <1>t DEF Evict, Captures, NoCaptures
    <3>4. a \notin retry
      BY <2>5, <1>t DEF Parked
    <3>5. (cursor + 1)..Len(captured) = {}
      BY <3>3, <1>t
    <3>6. a \notin Open'
      BY <2>1, <2>2, <3>3, <3>4, <3>5, <1>s DEF Open
    <3> QED
      BY <2>2, <2>3, <2>5, <3>2, <3>6, <1>r
  <2> QED
    BY <2>1, <2>4, <2>5 DEF Attribute
<1>6. CASE ReadCensus
  <2>1. /\ UNCHANGED <<credits, cached, retry, todo, cursor, untold>>
        /\ baseline' = (IF baseline = None THEN Census ELSE baseline)
    BY <1>6 DEF ReadCensus
  <2>2. Open' \subseteq Open
    BY <2>1, <1>s DEF Open
  <2>3. CASE baseline = None
    <3>1. Under = {}
      BY <2>3, <1>t DEF Censuses
    <3>2. \A s \in Species : Census[s] = Of(Placed, s)
      BY <3>1, <1>u, OfNothing
    <3>3. \A s \in Species : Drop(s)' = 0
      BY <2>1, <2>3, <3>2, <1>s, <1>u DEF Drop
    <3> QED
      BY <2>1, <2>2, <3>3, <1>n, <1>q
  <2>4. CASE baseline # None
    BY <2>1, <2>2, <2>4, <1>q, <1>d
  <2> QED
    BY <2>3, <2>4
<1>7. CASE AttributeDrop
  <2>1. PICK s \in Species :
               /\ raw[s] < baseline[s]
               /\ baseline' = [baseline EXCEPT ![s] = @ - 1]
               /\ IF s \in Mapped THEN Credit(s) ELSE pending' = pending - 1 /\ UNCHANGED credits
    BY <1>7 DEF AttributeDrop
  <2>2. /\ pending > 0 /\ baseline \in [Species -> Nat] /\ baseline # None /\ raw = Census
        /\ UNCHANGED <<cached, retry, todo, cursor, untold>>
    BY <1>7, <1>t DEF AttributeDrop, Compared, Typed, Censuses
  <2>3. untold = {}
    BY <2>2, <1>t DEF Settled
  <2>4. Open' \subseteq Open
    BY <2>2, <1>s DEF Open
  <2>5. baseline' \in [Species -> Int] /\ baseline' # None
    <3>1. Typed'
      BY TypedTick DEF Sound
    <3>2. baseline' \in [Species -> Int]
      BY <2>1, <2>2
    <3>3. baseline'[s] = baseline[s] - 1 /\ Census[s] \in Nat /\ baseline[s] \in Nat
      BY <2>1, <2>2, CensusTyped
    <3>4. baseline' \in [Species -> Nat]
      BY <2>1, <2>2, <3>3
    <3> QED
      BY <3>2, <3>4
  <2>6. ASSUME NEW r \in Species
        PROVE  credits'[r] + Of(Open', r) + Drop(r)' <= Of(Released', r)
    <3>1. Of(Open', r) \in Nat /\ Of(Open', r) <= Of(Open, r)
      BY <2>4, <1>p, OfMono
    <3>2. Drop(r) = baseline[r] - Of(Placed, r) /\ Drop(r)' = baseline'[r] - Of(Placed, r)
      BY <2>2, <2>3, <2>5, <1>s DEF Drop
    <3>3. CASE r = s
      <4>1. baseline'[r] = baseline[r] - 1 /\ baseline[r] \in Nat
        BY <2>1, <2>2, <3>3
      <4>2. Drop(r)' = Drop(r) - 1
        BY <3>2, <4>1, <1>u
      <4>3. credits'[r] = credits[r] \/ credits'[r] = credits[r] + 1
        BY <2>1, <3>3, <1>t DEF Credit
      <4> QED
        BY <3>1, <4>2, <4>3, <1>n, <1>s
    <3>4. CASE r # s
      <4>1. baseline'[r] = baseline[r] /\ credits'[r] = credits[r]
        BY <2>1, <2>2, <3>4, <1>t DEF Credit
      <4> QED
        BY <3>1, <3>2, <4>1, <1>n, <1>s
    <3> QED
      BY <3>3, <3>4
  <2> QED
    BY <2>6 DEF Ledger
<1>8. CASE RetirePending
  <2>1. /\ retry' \subseteq retry /\ UNCHANGED <<credits, cached, todo, cursor>>
        /\ \/ /\ baseline' = raw /\ raw # None /\ untold' = untold \ {"census"}
           \/ UNCHANGED <<baseline, untold>>
    BY <1>8 DEF RetirePending
  <2>2. Open' \subseteq Open
    BY <2>1, <1>s DEF Open
  <2>3. CASE baseline' = raw /\ raw # None /\ untold' = untold \ {"census"}
    <3>1. raw = Census
      BY <2>3, <1>t DEF Censuses
    <3>2. ASSUME NEW s \in Species PROVE Drop(s)' \in Nat /\ Drop(s)' <= Drop(s)
      <4>1. Drop(s)' = Of(Under, s)
        BY <2>3, <3>1, <1>s, <1>u DEF Drop
      <4>2. CASE Under = {}
        BY <4>1, <4>2, <1>n, OfNothing
      <4>3. CASE Under # {}
        <5>1. baseline # None /\ "census" \notin untold
          BY <4>3, <1>t DEF Settled, Censuses
        <5>2. baseline[s] \in Nat /\ baseline[s] >= Census[s]
          BY <5>1, <1>t DEF Censuses
        <5>3. Drop(s) = baseline[s] - Of(Placed, s)
          BY <5>1 DEF Drop
        <5> QED
          BY <4>1, <5>2, <5>3, <1>u
      <4> QED
        BY <4>2, <4>3
    <3> QED
      BY <2>1, <2>2, <3>2, <1>q
  <2>4. CASE UNCHANGED <<baseline, untold>>
    BY <2>1, <2>2, <2>4, <1>q, <1>d
  <2> QED
    BY <2>1, <2>3, <2>4
<1> QED
  BY <1>1, <1>2, <1>3, <1>4, <1>5, <1>6, <1>7, <1>8 DEF Tick

LEMMA ExactStep == Orderly /\ Exact /\ [Next]_vars => Exact'
<1> SUFFICES ASSUME Orderly, Exact, [Next]_vars PROVE Exact'
  OBVIOUS
<1>1. CASE Tick
  BY <1>1, SoundTick, LedgerTick DEF Exact
<1>2. CASE Game
  BY <1>2, SoundGame, LedgerGame DEF Exact
<1>3. CASE UNCHANGED vars
  <2> USE <1>3 DEF vars, gameVars, snapshotVars, captureVars, pendingVars, tickVars
  <2>1. Sound'
    <3>1. Typed'
      BY TypedStep DEF Exact, Sound
    <3>2. Settled' /\ Captures' /\ Parked'
      BY DEF Exact, Sound, Settled, Captures, Parked, Under
    <3>3. Rosters'
      BY DEF Exact, Sound, Rosters
    <3>4. Census' = Census
      BY DEF Census
    <3>5. Censuses'
      BY <3>4 DEF Exact, Sound, Censuses, Under
    <3> QED
      BY <3>1, <3>2, <3>3, <3>5 DEF Sound
  <2>2. Ledger'
    BY DEF Exact, Ledger, Open, Drop, Released, Placed
  <2> QED
    BY <2>1, <2>2 DEF Exact
<1> QED
  BY <1>1, <1>2, <1>3 DEF Next

\* When the game and the tick take turns, the population stands still while a
\* release is under way, and the count and the ring can be read, no species is
\* credited more often than its animals were released: however late the census
\* follows, however short the ring, whichever other reads fail and whenever the
\* client gives up on a release (OncePerRelease).
THEOREM CreditedOnce ==
  ASSUME Orderly
  PROVE  Spec => []OncePerRelease
<1>1. Exact => OncePerRelease
  <2> SUFFICES ASSUME Exact PROVE OncePerRelease
    OBVIOUS
  <2>1. ASSUME NEW s \in Species PROVE credits[s] <= ReleasedOf(s)
    <3>1. ReleasedOf(s) = Of(Released, s)
      BY DEF ReleasedOf, Of
    <3>2. /\ credits[s] + Of(Open, s) + Drop(s) <= Of(Released, s)
          /\ Drop(s) \in Nat /\ Of(Open, s) \in Nat /\ Of(Released, s) \in Nat /\ credits[s] \in Nat
      BY DropNat DEF Exact, Ledger
    <3> QED
      BY <3>1, <3>2
  <2> QED
    BY <2>1 DEF OncePerRelease
<1> QED
  BY <1>1, ExactInit, ExactStep, PTL DEF Spec
=============================================================================
