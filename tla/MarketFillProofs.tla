-------------------------- MODULE MarketFillProofs --------------------------
(***************************************************************************)
(* Proofs about MarketFill: every variable keeps its type, and once a set  *)
(* has been applied the market offers no species outside it.  The second   *)
(* rests on two facts: from the moment the valid flag is cleared a valid   *)
(* pool lies within the set that was written before, and behind the cursor *)
(* of the expiry, as beyond the entries it counted, nothing is left to     *)
(* expire.  A wake always has a listing to make.  Then the sets that the   *)
(* market reads: whatever list they are built from, each of its keys is    *)
(* found, and nothing else.                                                *)
(***************************************************************************)
EXTENDS MCMarketFill, SequenceTheorems, FiniteSetTheorems, TLAPS

-----------------------------------------------------------------------------
(* Small sets and sequences                                                *)

LEMMA MarkTyped == \A s \in SUBSET Species : Mark(s) \in [keys : SUBSET Species, applied : BOOLEAN]
BY DEF Mark

LEMMA LargerTyped == \A m, n \in Nat : Larger(m, n) \in Nat
BY DEF Larger

LEMMA PoolCounted == \A p \in SUBSET Species : Cardinality(p) \in Nat
BY SizesAssumption, FS_Subset, FS_CardinalityType DEF SizesAssumption

LEMMA FloorTyped == \A n \in Nat : Floor(n) \in Nat
BY SizesAssumption DEF SizesAssumption, Floor, Larger, Smaller

\* A set of numbers that is not empty has a first.
LEMMA FirstNumber ==
  ASSUME NEW S \in SUBSET Nat, S # {}
  PROVE  Min(S) \in S /\ \A k \in S : Min(S) <= k
<1>1. PICK m \in S : \A k \in S : ~ (<<k, m>> \in OpToRel(<, Nat))
  BY NatLessThanWellFounded, WFMin
<1>2. ASSUME NEW k \in S PROVE m <= k
  <2>1. ~ (<<k, m>> \in OpToRel(<, Nat))
    BY <1>1
  <2>2. ~ (k < m)
    BY <2>1, Zenon DEF OpToRel
  <2> QED
    BY <2>2
<1> QED
  BY <1>2, Zenon DEF Min

\* A listing leaves: the others are those that were there.
LEMMA Removed ==
  ASSUME NEW i \in DOMAIN live, live \in Seq(Listings)
  PROVE  /\ RemoveAt(live, i) \in Seq(Listings)
         /\ \A j \in DOMAIN RemoveAt(live, i) : \E k \in DOMAIN live : RemoveAt(live, i)[j] = live[k]
<1> DEFINE a == SubSeq(live, 1, i - 1)
           b == SubSeq(live, i + 1, Len(live))
<1>1. Len(live) \in Nat /\ i \in 1..Len(live) /\ DOMAIN live = 1..Len(live)
  BY LenProperties
<1>2. \A j \in 1..Len(live) : live[j] \in Listings
  BY ElementOfSeq
<1>3. /\ a \in Seq(Listings) /\ Len(a) = i - 1
      /\ \A j \in 1..(i - 1) : a[j] = live[j]
  <2>1. 1 \in Int /\ i - 1 \in Int /\ \A j \in 1..(i - 1) : live[j] \in Listings
    BY <1>1, <1>2
  <2>2. /\ a \in Seq(Listings) /\ Len(a) = IF 1 <= i - 1 THEN (i - 1) - 1 + 1 ELSE 0
        /\ \A j \in 1..((i - 1) - 1 + 1) : a[j] = live[1 + j - 1]
    BY <2>1, SubSeqProperties
  <2> HIDE DEF a
  <2> QED BY <1>1, <2>2
<1>4. /\ b \in Seq(Listings) /\ Len(b) = Len(live) - i
      /\ \A j \in 1..(Len(live) - i) : b[j] = live[i + j]
  <2>1. i + 1 \in Int /\ Len(live) \in Int /\ \A j \in (i + 1)..Len(live) : live[j] \in Listings
    BY <1>1, <1>2
  <2>2. /\ b \in Seq(Listings)
        /\ Len(b) = IF i + 1 <= Len(live) THEN Len(live) - (i + 1) + 1 ELSE 0
        /\ \A j \in 1..(Len(live) - (i + 1) + 1) : b[j] = live[(i + 1) + j - 1]
    BY <2>1, SubSeqProperties
  <2> HIDE DEF b
  <2>3. Len(b) = Len(live) - i
    BY <1>1, <2>2
  <2>4. ASSUME NEW j \in 1..(Len(live) - i) PROVE b[j] = live[i + j]
    <3>1. j \in 1..(Len(live) - (i + 1) + 1) /\ (i + 1) + j - 1 = i + j
      BY <1>1
    <3>2. b[j] = live[(i + 1) + j - 1]
      BY <2>2, <3>1
    <3> QED BY <3>1, <3>2
  <2> QED BY <2>2, <2>3, <2>4
<1> HIDE DEF a, b
<1>5. /\ a \o b \in Seq(Listings) /\ Len(a \o b) = Len(a) + Len(b)
      /\ \A j \in 1..(Len(a) + Len(b)) : (a \o b)[j] = IF j <= Len(a) THEN a[j] ELSE b[j - Len(a)]
  BY <1>3, <1>4, ConcatProperties
<1>6. RemoveAt(live, i) = a \o b
  BY DEF RemoveAt, a, b
<1>7. DOMAIN (a \o b) = 1..(Len(a) + Len(b))
  BY <1>5, LenProperties
<1>8. ASSUME NEW j \in 1..(Len(a) + Len(b)) PROVE \E k \in 1..Len(live) : (a \o b)[j] = live[k]
  <2>1. CASE j <= Len(a)
    BY <1>1, <1>3, <1>4, <1>5, <2>1
  <2>2. CASE ~(j <= Len(a))
    <3>1. j - Len(a) \in 1..(Len(live) - i) /\ i + (j - Len(a)) \in 1..Len(live)
      BY <1>1, <1>3, <1>4, <2>2
    <3>2. (a \o b)[j] = b[j - Len(a)]
      BY <1>5, <2>2
    <3> QED BY <1>4, <3>1, <3>2
  <2> QED BY <2>1, <2>2
<1> QED BY <1>1, <1>5, <1>6, <1>7, <1>8

\* A listing comes: it is the last.
LEMMA Added ==
  ASSUME NEW e \in Listings, live \in Seq(Listings)
  PROVE  /\ Append(live, e) \in Seq(Listings)
         /\ \A j \in DOMAIN Append(live, e) :
              (j \in DOMAIN live /\ Append(live, e)[j] = live[j]) \/ Append(live, e)[j] = e
<1>1. /\ Append(live, e) \in Seq(Listings) /\ Len(Append(live, e)) = Len(live) + 1
      /\ \A j \in 1..Len(live) : Append(live, e)[j] = live[j]
      /\ Append(live, e)[Len(live) + 1] = e
  BY AppendProperties
<1>2. /\ DOMAIN Append(live, e) = 1..(Len(live) + 1) /\ DOMAIN live = 1..Len(live)
      /\ Len(live) \in Nat
  BY <1>1, LenProperties
<1> QED BY <1>1, <1>2
-----------------------------------------------------------------------------
(* Types                                                                   *)

LEMMA TypedInit == Init => TypeOK
<1> SUFFICES ASSUME Init PROVE TypeOK
  OBVIOUS
<1>1. live \in Seq(Listings)
  <2>1. CASE live = <<>>
    BY <2>1, EmptySeq
  <2>2. CASE \E s \in Species : live = <<[species |-> s, expired |-> FALSE]>>
    BY <2>2 DEF Listings
  <2> QED BY <2>1, <2>2 DEF Init
<1>2. PerSpecies * Cardinality(Species) \in Nat
  BY PoolCounted, SizesAssumption DEF SizesAssumption
<1>3. target \in Nat
  BY <1>2 DEF Init, Rolls
<1>4. marked \in [keys : SUBSET Species, applied : BOOLEAN]
  BY DEF Init, Unmarked
<1>5. ask \in [raise : BOOLEAN, target : Nat]
  BY DEF Init, NoAsk
<1>6. changes \in 0..MaxChanges
  BY SizesAssumption DEF Init, SizesAssumption
<1> QED BY <1>1, <1>3, <1>4, <1>5, <1>6 DEF Init, TypeOK

\* So is the target of a frame.
LEMMA FrameTyped ==
  ASSUME TypeOK, Frame
  PROVE  target' \in Nat
<1>1. PerSpecies * Cardinality(pool) \in Nat
  BY PoolCounted, SizesAssumption DEF SizesAssumption, TypeOK
<1> QED BY <1>1 DEF Frame, Rolls, TypeOK

\* The engine keeps the types.
LEMMA EngineTyped ==
  ASSUME TypeOK, Engine
  PROVE  TypeOK'
<1>1. UNCHANGED <<gated, set, unlocked, marked, pc, wanted, idx, seen, ask, cool, changes>>
  BY DEF Engine, Rebuild, Spawn, Satisfied, Expire, Sell, Leave, clientVars, worldVars
<1>2. CASE Rebuild
  <2>1. pool' \in SUBSET Species
    BY <1>2 DEF Rebuild, TypeOK
  <2>2. PerSpecies * Cardinality(pool') \in Nat
    BY <2>1, PoolCounted, SizesAssumption DEF SizesAssumption
  <2>3. target' \in Nat /\ batch' \in {0, 1} /\ valid' \in BOOLEAN /\ UNCHANGED <<live, force>>
    BY <1>2, <2>2 DEF Rebuild, Rolls
  <2> QED BY <1>1, <2>1, <2>3 DEF TypeOK
<1>3. CASE Spawn
  <2>1. PICK s \in pool : live' = Append(live, [species |-> s, expired |-> FALSE])
    BY <1>3 DEF Spawn
  <2>2. [species |-> s, expired |-> FALSE] \in Listings
    BY <2>1 DEF TypeOK, Listings
  <2>3. live' \in Seq(Listings)
    BY <2>1, <2>2, Added DEF TypeOK
  <2> QED BY <1>1, <1>3, <2>3, FrameTyped DEF Spawn, TypeOK
<1>4. CASE Satisfied
  BY <1>1, <1>4, FrameTyped DEF Satisfied, TypeOK
<1>5. CASE Expire \/ Sell
  <2>1. PICK i \in DOMAIN live : Leave(i)
    BY <1>5 DEF Expire, Sell
  <2>2. live' \in Seq(Listings)
    BY <2>1, Removed DEF Leave, TypeOK
  <2> QED BY <1>1, <2>1, <2>2 DEF Leave, TypeOK
<1> QED BY <1>2, <1>3, <1>4, <1>5 DEF Engine

\* An entry that is marked expired stays a listing.
LEMMA ExpiredTyped ==
  ASSUME TypeOK, ExpireNext
  PROVE  /\ live' \in Seq(Listings) /\ DOMAIN live' = DOMAIN live
         /\ \A i \in DOMAIN live : /\ live'[i].species = live[i].species
                                   /\ live[i].expired => live'[i].expired
         /\ idx \in DOMAIN live => live'[idx].species \in wanted \/ live'[idx].expired
<1>1. live \in Seq(Listings) /\ DOMAIN live = 1..Len(live) /\ Len(live) \in Nat
  BY LenProperties DEF TypeOK
<1>2. \A i \in DOMAIN live : live[i] \in Listings
  BY <1>1, ElementOfSeq
<1>3. CASE idx \in DOMAIN live /\ live[idx].species \notin wanted
  <2>1. live' = [live EXCEPT ![idx].expired = TRUE]
    BY <1>3 DEF ExpireNext
  <2>2. [live[idx] EXCEPT !.expired = TRUE] \in Listings
    BY <1>2, <1>3 DEF Listings
  <2>3. live' = [live EXCEPT ![idx] = [live[idx] EXCEPT !.expired = TRUE]]
    BY <2>1
  <2>4. live' \in Seq(Listings) /\ DOMAIN live' = DOMAIN live
    BY <1>1, <1>3, <2>2, <2>3, ExceptSeq
  <2>5. live'[idx] = [live[idx] EXCEPT !.expired = TRUE] /\ \A i \in DOMAIN live : i # idx => live'[i] = live[i]
    BY <1>1, <1>3, <2>2, <2>3, ExceptSeq
  <2>6. live'[idx].expired /\ live'[idx].species = live[idx].species
    BY <1>2, <1>3, <2>5 DEF Listings
  <2> QED BY <2>4, <2>5, <2>6
<1>4. CASE ~(idx \in DOMAIN live /\ live[idx].species \notin wanted)
  BY <1>1, <1>4 DEF ExpireNext
<1> QED BY <1>3, <1>4

LEMMA TickTyped ==
  ASSUME TypeOK, Tick
  PROVE  TypeOK'
<1>1. CASE Read
  BY <1>1 DEF Read, Goto, TypeOK, gameVars, worldVars
<1>2. CASE Apply
  BY <1>2 DEF Apply, Goto, TypeOK, worldVars
<1>3. CASE Dirty
  <2>1. marked' \in [keys : SUBSET Species, applied : BOOLEAN]
    BY <1>3, MarkTyped DEF Dirty, TypeOK
  <2>2. Len(live) \in Nat
    BY LenProperties DEF TypeOK
  <2> QED BY <1>3, <2>1, <2>2 DEF Dirty, RequestRebuild, Goto, TypeOK, worldVars
<1>4. CASE ExpireNext
  <2>1. live' \in Seq(Listings)
    BY <1>4, ExpiredTyped
  <2> QED BY <1>4, <2>1 DEF ExpireNext, TypeOK, worldVars
<1>5. CASE ExpireDone
  BY <1>5 DEF ExpireDone, Goto, TypeOK, gameVars, worldVars
<1>6. CASE Measure
  <2> DEFINE f == Floor(Cardinality(pool))
  <2>1. f \in Nat
    BY PoolCounted, FloorTyped DEF TypeOK
  <2>2. Larger(target, f) \in Nat
    BY <2>1, LargerTyped DEF TypeOK
  <2>3. (target < f) \in BOOLEAN
    OBVIOUS
  <2>4. ask' \in [raise : BOOLEAN, target : Nat]
    BY <1>6, <2>2, <2>3 DEF Measure
  <2> QED BY <1>6, <2>4 DEF Measure, Goto, TypeOK, gameVars, worldVars
<1>7. CASE Raise
  <2>1. target' \in Nat
    BY <1>7 DEF Raise, TypeOK
  <2>2. force' \in BOOLEAN /\ batch' \in {0, 1} /\ valid' \in BOOLEAN /\ cool' \in BOOLEAN
    BY <1>7 DEF Raise, Wake, Larger, TypeOK
  <2> QED BY <1>7, <2>1, <2>2 DEF Raise, Goto, TypeOK, worldVars
<1> QED BY <1>1, <1>2, <1>3, <1>4, <1>5, <1>6, <1>7 DEF Tick

LEMMA TypedNext == TypeOK /\ [Next]_vars => TypeOK'
<1> SUFFICES ASSUME TypeOK, [Next]_vars PROVE TypeOK'
  OBVIOUS
<1>1. CASE Engine
  BY <1>1, EngineTyped
<1>2. CASE Tick
  BY <1>2, TickTyped
<1>3. CASE Change
  <2>1. changes' \in 0..MaxChanges
    BY <1>3, SizesAssumption DEF Change, TypeOK, SizesAssumption
  <2>2. unlocked' \in SUBSET Species
    BY <1>3 DEF Change, TypeOK
  <2> QED BY <1>3, <2>1, <2>2 DEF Change, TypeOK, gameVars, clientVars
<1>4. CASE Cool
  BY <1>4 DEF Cool, TypeOK, gameVars, worldVars
<1>5. CASE UNCHANGED vars
  BY <1>5 DEF vars, gameVars, clientVars, worldVars, TypeOK
<1> QED BY <1>1, <1>2, <1>3, <1>4, <1>5 DEF Next

\* Every variable of MarketFill keeps its type: the expiry and the fill step
\* work on listings, sets and sizes, whatever the engine and the player do.
THEOREM TypeCorrect == Spec => []TypeOK
BY TypedInit, TypedNext, PTL DEF Spec

-----------------------------------------------------------------------------
(* What the market offers                                                  *)

\* A listing that may stay, or is about to go.
Fine(l, keys) == l.species \in keys \/ l.expired

\* The set is written before it counts; the pool that lists animals is the
\* one filtered by it.
Filtered ==
  /\ marked.applied \/ pc \in {"dirty", "expire"} => gated
  /\ pc = "expire" => marked.applied
  /\ pc \in {"dirty", "expire"} => set = wanted
  /\ gated /\ pc # "dirty" /\ valid => pool \subseteq set

\* What the expiry has passed, and what came after it began.
Passed == pc = "expire" => \A i \in DOMAIN live : i < idx \/ i > seen => Fine(live[i], set)

IInv == TypeOK /\ Filtered /\ Passed /\ NoBlockedListing

\* While nothing is sold or removed during the walk.
Careful == "sale" \notin Races

LEMMA IInvInit == Init => IInv
<1> SUFFICES ASSUME Init PROVE IInv
  OBVIOUS
<1>1. TypeOK
  BY TypedInit
<1>2. pc = "idle" /\ marked.applied = FALSE /\ gated = FALSE
  BY DEF Init, Unmarked
<1>3. Filtered
  BY <1>2 DEF Filtered
<1>4. Passed
  BY <1>2 DEF Passed
<1>5. NoBlockedListing
  BY <1>2 DEF NoBlockedListing
<1> QED BY <1>1, <1>3, <1>4, <1>5 DEF IInv

LEMMA EngineKeeps ==
  ASSUME Careful, IInv, Engine
  PROVE  Filtered' /\ Passed' /\ NoBlockedListing'
<1> USE DEF IInv
<1>1. UNCHANGED <<gated, set, marked, pc, wanted, idx, seen>>
  BY DEF Engine, Rebuild, Spawn, Satisfied, Expire, Sell, Leave, clientVars, worldVars
<1>2. CASE Rebuild
  <2>1. live' = live /\ pool' = (IF gated THEN set ELSE Species)
    BY <1>2 DEF Rebuild
  <2>2. Filtered'
    BY <1>1, <2>1 DEF Filtered
  <2>3. Passed' /\ NoBlockedListing'
    BY <1>1, <2>1 DEF Passed, NoBlockedListing, Fine
  <2> QED BY <2>2, <2>3
<1>3. CASE Spawn
  <2>1. PICK s \in pool : live' = Append(live, [species |-> s, expired |-> FALSE])
    BY <1>3 DEF Spawn
  <2> DEFINE e == [species |-> s, expired |-> FALSE]
  <2>2. valid /\ UNCHANGED <<valid, pool>>
    BY <1>3 DEF Spawn
  <2>3. e \in Listings /\ live \in Seq(Listings) /\ e.species = s
    BY <2>1 DEF TypeOK, Listings
  <2>4. \A j \in DOMAIN live' : (j \in DOMAIN live /\ live'[j] = live[j]) \/ live'[j] = e
    BY <2>1, <2>3, Added
  <2>5. Filtered'
    BY <1>1, <2>2 DEF Filtered
  <2>6. gated /\ pc # "dirty" => Fine(e, set)
    BY <2>1, <2>2, <2>3 DEF Filtered, Fine
  <2> HIDE DEF e
  <2>7. Passed'
    BY <1>1, <2>4, <2>6 DEF Passed, Filtered, Fine
  <2>8. NoBlockedListing'
    BY <1>1, <2>4, <2>6 DEF NoBlockedListing, Filtered, Fine
  <2> QED BY <2>5, <2>7, <2>8
<1>4. CASE Satisfied
  <2>1. UNCHANGED <<live, valid, pool>>
    BY <1>4 DEF Satisfied
  <2> QED BY <1>1, <2>1 DEF Filtered, Passed, NoBlockedListing, Fine
<1>5. CASE Expire \/ Sell
  <2>1. PICK i \in DOMAIN live : Leave(i)
    BY <1>5 DEF Expire, Sell
  <2>2. pc # "expire" /\ UNCHANGED <<valid, pool>>
    BY <2>1 DEF Leave, Careful, Expiring
  <2>3. \A j \in DOMAIN live' : \E k \in DOMAIN live : live'[j] = live[k]
    BY <2>1, Removed DEF Leave, TypeOK
  <2>4. Filtered' /\ Passed'
    BY <1>1, <2>2 DEF Filtered, Passed
  <2>5. NoBlockedListing'
    BY <1>1, <2>3 DEF NoBlockedListing
  <2> QED BY <2>4, <2>5
<1> QED BY <1>2, <1>3, <1>4, <1>5 DEF Engine

LEMMA TickKeeps ==
  ASSUME IInv, Tick
  PROVE  Filtered' /\ Passed' /\ NoBlockedListing'
<1> USE DEF IInv
<1>1. CASE Read
  <2>1. UNCHANGED <<gated, set, valid, pool, live, marked>> /\ pc = "idle" /\ pc' \in {"measure", "apply"}
    BY <1>1 DEF Read, Goto, gameVars
  <2> QED BY <2>1 DEF Filtered, Passed, NoBlockedListing
<1>2. CASE Apply
  <2>1. gated' = TRUE /\ set' = wanted /\ wanted' = wanted /\ pc' = "dirty" /\ marked' = marked
    BY <1>2 DEF Apply, Goto
  <2> QED BY <2>1 DEF Filtered, Passed, NoBlockedListing
<1>3. CASE Dirty
  <2>1. /\ pc = "dirty" /\ pc' = "expire" /\ valid' = FALSE /\ marked'.applied = TRUE
        /\ idx' = 1 /\ seen' = Len(live) /\ UNCHANGED <<gated, set, live, wanted>>
    BY <1>3 DEF Dirty, RequestRebuild, Goto, Mark
  <2>2. Filtered'
    BY <2>1 DEF Filtered
  <2>3. Passed'
    <3>1. DOMAIN live = 1..Len(live) /\ Len(live) \in Nat
      BY LenProperties DEF TypeOK
    <3> QED BY <2>1, <3>1 DEF Passed
  <2>4. NoBlockedListing'
    BY <2>1 DEF NoBlockedListing
  <2> QED BY <2>2, <2>3, <2>4
<1>4. CASE ExpireNext
  <2>1. /\ pc = "expire" /\ idx' = idx + 1 /\ idx \in Nat /\ seen \in Nat
        /\ UNCHANGED <<gated, set, valid, pool, marked, pc, wanted, seen>>
    BY <1>4 DEF ExpireNext, TypeOK
  <2>2. /\ DOMAIN live' = DOMAIN live
        /\ \A i \in DOMAIN live : Fine(live[i], set) => Fine(live'[i], set)
        /\ idx \in DOMAIN live => Fine(live'[idx], set)
    <3>1. set = wanted
      BY <2>1 DEF Filtered
    <3>2. /\ DOMAIN live' = DOMAIN live
          /\ \A i \in DOMAIN live : /\ live'[i].species = live[i].species
                                    /\ live[i].expired => live'[i].expired
          /\ idx \in DOMAIN live => live'[idx].species \in wanted \/ live'[idx].expired
      BY <1>4, ExpiredTyped
    <3>3. \A i \in DOMAIN live : Fine(live[i], set) => Fine(live'[i], set)
      BY <3>2 DEF Fine
    <3>4. idx \in DOMAIN live => Fine(live'[idx], set)
      BY <3>1, <3>2 DEF Fine
    <3> QED BY <3>2, <3>3, <3>4
  <2>3. Filtered'
    BY <2>1 DEF Filtered
  <2>4. Passed'
    <3> SUFFICES ASSUME NEW i \in DOMAIN live, i < idx + 1 \/ i > seen
                 PROVE  Fine(live'[i], set)
      BY <2>1, <2>2 DEF Passed
    <3>1. i \in Nat
      BY LenProperties DEF TypeOK
    <3>2. CASE i = idx
      BY <2>2, <3>2
    <3>3. CASE i # idx
      <4>1. i < idx \/ i > seen
        BY <2>1, <3>1, <3>3
      <4> QED BY <2>1, <2>2, <4>1 DEF Passed
    <3> QED BY <3>2, <3>3
  <2>5. NoBlockedListing'
    BY <2>1 DEF NoBlockedListing
  <2> QED BY <2>3, <2>4, <2>5
<1>5. CASE ExpireDone
  <2>1. /\ pc = "expire" /\ idx > seen /\ pc' = "measure"
        /\ UNCHANGED <<gated, set, valid, pool, live, marked, wanted>>
    BY <1>5 DEF ExpireDone, Goto, gameVars
  <2>2. \A i \in DOMAIN live : Fine(live[i], set)
    <3>1. \A i \in DOMAIN live : i \in Nat
      BY LenProperties DEF TypeOK
    <3>2. \A i \in DOMAIN live : i < idx \/ i > seen
      BY <2>1, <3>1 DEF TypeOK
    <3> QED BY <2>1, <3>2 DEF Passed
  <2> QED BY <2>1, <2>2 DEF Filtered, Passed, NoBlockedListing, Fine
<1>6. CASE Measure
  <2>1. UNCHANGED <<gated, set, valid, pool, live, marked>> /\ pc = "measure" /\ pc' = "raise"
    BY <1>6 DEF Measure, Goto, gameVars
  <2> QED BY <2>1 DEF Filtered, Passed, NoBlockedListing
<1>7. CASE Raise
  <2>1. UNCHANGED <<gated, set, pool, live, marked>> /\ pc = "raise" /\ pc' = "idle" /\ valid' = valid
    BY <1>7 DEF Raise, Wake, Goto
  <2> QED BY <2>1 DEF Filtered, Passed, NoBlockedListing
<1> QED BY <1>1, <1>2, <1>3, <1>4, <1>5, <1>6, <1>7 DEF Tick

LEMMA IInvNext == Careful /\ IInv /\ [Next]_vars => IInv'
<1> SUFFICES ASSUME Careful, IInv, [Next]_vars PROVE IInv'
  OBVIOUS
<1>1. TypeOK'
  BY TypedNext DEF IInv
<1>2. CASE Engine
  BY <1>1, <1>2, EngineKeeps DEF IInv
<1>3. CASE Tick
  BY <1>1, <1>3, TickKeeps DEF IInv
<1>4. CASE Change \/ Cool \/ UNCHANGED vars
  <2>1. UNCHANGED <<gated, set, valid, pool, live, marked, pc, wanted, idx, seen>>
    BY <1>4 DEF Change, Cool, vars, gameVars, clientVars, worldVars
  <2> QED BY <1>1, <2>1 DEF IInv, Filtered, Passed, NoBlockedListing, Fine
<1> QED BY <1>2, <1>3, <1>4 DEF Next

\* For any species and sizes: while no listing leaves during the walk of the
\* expiry, the market offers nothing outside the applied set, although the
\* engine goes on listing from the old pool until it is told to rebuild
\* (apply_unlocked, _install_one, expire_blocked_listings).
THEOREM NothingBlockedStays ==
  ASSUME Careful
  PROVE  Spec => []NoBlockedListing
<1>1. IInv => NoBlockedListing
  BY DEF IInv
<1>2. IInv /\ [Next]_vars => IInv'
  BY IInvNext
<1> QED BY <1>1, <1>2, IInvInit, PTL DEF Spec

-----------------------------------------------------------------------------
(* What the client asks for                                                *)

\* A wake has something to wake: with a valid pool the engine, once forced,
\* has a listing to make, the batch and the room for it.
NoVainWake == [][~force /\ force' /\ valid => CanSpawn']_vars

\* The measurement is raised within one rebuild, which alone rolls the target,
\* and the engine offers no less than the two listings of a species that the
\* fill step counts on.
Measured == Races \cap {"rebuild", "frames"} = {} /\ PerSpecies >= 2

\* What is wanted, and what the fill step is about to want, the pool can give;
\* where it does not ask for more, it has measured what is wanted.
WithinReach ==
  /\ target <= PerSpecies * Cardinality(pool)
  /\ pc = "raise" => /\ ask.target <= PerSpecies * Cardinality(pool)
                     /\ ~ask.raise => ask.target = target

\* Species of which as much is offered as can be account for that many
\* listings.
LEMMA SharesCounted ==
  ASSUME live \in Seq(Listings), NEW q \in SUBSET Species, \A s \in q : Offered(s) >= PerSpecies
  PROVE  Len(live) >= PerSpecies * Cardinality(q)
<1> DEFINE of(p) == {i \in DOMAIN live : live[i].species \in p}
           at(s) == {i \in DOMAIN live : live[i].species = s}
           bad   == {n \in Nat : \E p \in SUBSET q :
                       Cardinality(p) = n /\ ~(Cardinality(of(p)) >= PerSpecies * n)}
<1>1. /\ DOMAIN live = 1..Len(live) /\ Len(live) \in Nat
      /\ IsFiniteSet(DOMAIN live) /\ Cardinality(DOMAIN live) = Len(live)
  <2>1. DOMAIN live = 1..Len(live) /\ Len(live) \in Nat
    BY LenProperties
  <2>2. 1 \in Int /\ Len(live) \in Int
    BY <2>1
  <2>3. IsFiniteSet(1..Len(live)) /\ Cardinality(1..Len(live)) = IF 1 > Len(live) THEN 0 ELSE Len(live) - 1 + 1
    BY <2>2, FS_Interval
  <2> QED BY <2>1, <2>3
<1>2. \A t \in SUBSET DOMAIN live : /\ IsFiniteSet(t) /\ Cardinality(t) \in Nat
                                    /\ Cardinality(t) <= Len(live)
  BY <1>1, FS_Subset, FS_CardinalityType
<1>3. \A p \in SUBSET q : of(p) \in SUBSET DOMAIN live
  OBVIOUS
<1>4. \A p \in SUBSET q : IsFiniteSet(p) /\ Cardinality(p) \in Nat
  BY SizesAssumption, FS_Subset, FS_CardinalityType DEF SizesAssumption
<1>5. bad = {}
  <2> SUFFICES ASSUME bad # {} PROVE FALSE
    OBVIOUS
  <2> DEFINE n == Min(bad)
  <2>1. n \in bad /\ \A k \in bad : n <= k
    BY FirstNumber
  <2> HIDE DEF n
  <2>2. PICK p \in SUBSET q : n \in Nat /\ Cardinality(p) = n /\ ~(Cardinality(of(p)) >= PerSpecies * n)
    BY <2>1
  <2>3. Cardinality(of(p)) \in Nat /\ PerSpecies \in Nat
    BY <1>2, <1>3, SizesAssumption DEF SizesAssumption
  <2>4. n # 0
    <3> DEFINE size == Cardinality(of(p))
    <3>1. size \in Nat /\ ~(size >= PerSpecies * n)
      BY <2>2, <2>3
    <3> HIDE DEF size
    <3> QED BY <2>3, <3>1
  <2>5. PICK s \in p : TRUE
    BY <2>2, <2>4, FS_EmptySet
  <2> DEFINE r == p \ {s}
  <2>6. r \in SUBSET q /\ Cardinality(r) = n - 1 /\ n - 1 \in Nat
    BY <1>4, <2>2, <2>4, <2>5, FS_RemoveElement
  <2>7. Cardinality(of(r)) >= PerSpecies * (n - 1)
    <3>1. ~(n - 1 \in bad)
      <4> HIDE DEF bad, r
      <4> QED BY <2>1, <2>2, <2>6
    <3> HIDE DEF r
    <3> QED BY <2>6, <3>1
  <2>8. /\ of(r) \in SUBSET DOMAIN live /\ at(s) \in SUBSET DOMAIN live
        /\ of(p) = of(r) \cup at(s) /\ of(r) \cap at(s) = {}
    OBVIOUS
  <2> HIDE DEF of, at
  <2>9. Cardinality(of(p)) = Cardinality(of(r)) + Cardinality(at(s))
    <3>1. /\ IsFiniteSet(of(r)) /\ IsFiniteSet(at(s))
          /\ Cardinality(of(r)) \in Nat /\ Cardinality(at(s)) \in Nat
      BY <1>2, <2>8
    <3>2. Cardinality(of(p)) = Cardinality(of(r)) + Cardinality(at(s)) - Cardinality({})
      BY <2>8, <3>1, FS_Union
    <3> QED BY <3>1, <3>2, FS_EmptySet
  <2>10. Cardinality(at(s)) >= PerSpecies /\ Cardinality(at(s)) \in Nat /\ Cardinality(of(r)) \in Nat
    <3>1. at(s) = {i \in DOMAIN live : live[i].species = s}
      BY DEF at
    <3> QED BY <1>2, <2>2, <2>5, <2>8, <3>1 DEF Offered
  <2> DEFINE a == Cardinality(of(r))
             b == Cardinality(at(s))
  <2>11. a \in Nat /\ b \in Nat /\ a >= PerSpecies * (n - 1) /\ b >= PerSpecies /\ ~(a + b >= PerSpecies * n)
    BY <2>2, <2>7, <2>9, <2>10
  <2> HIDE DEF a, b
  <2>12. PerSpecies * (n - 1) + PerSpecies = PerSpecies * n
    BY <2>2, <2>3
  <2>13. PerSpecies * (n - 1) \in Nat /\ PerSpecies * n \in Nat
    BY <2>2, <2>3, <2>6
  <2> QED BY <2>3, <2>11, <2>12, <2>13
<1> HIDE DEF bad
<1>6. Cardinality(of(q)) >= PerSpecies * Cardinality(q)
  <2>1. Cardinality(q) \in Nat /\ ~(Cardinality(q) \in bad)
    BY <1>4, <1>5
  <2> QED BY <2>1 DEF bad
<1>7. Cardinality(of(q)) \in Nat /\ Cardinality(of(q)) <= Len(live)
  BY <1>2, <1>3
<1>8. PerSpecies * Cardinality(q) \in Nat
  BY <1>4, SizesAssumption DEF SizesAssumption
<1> DEFINE most == PerSpecies * Cardinality(q)
           have == Cardinality(of(q))
<1>9. most \in Nat /\ have \in Nat /\ have >= most /\ have <= Len(live)
  BY <1>6, <1>7, <1>8
<1> HIDE DEF most, have
<1>10. Len(live) >= most
  BY <1>1, <1>9
<1> QED BY <1>10 DEF most

\* As long as less is offered than the pool can give, one of its species is
\* not exhausted.
LEMMA RoomInPool ==
  ASSUME TypeOK, NEW t \in Nat, t <= PerSpecies * Cardinality(pool), Len(live) < t
  PROVE  \E s \in pool : Offered(s) < PerSpecies
<1> SUFFICES ASSUME \A s \in pool : ~(Offered(s) < PerSpecies) PROVE FALSE
  OBVIOUS
<1>1. pool \in SUBSET Species /\ live \in Seq(Listings) /\ Len(live) \in Nat
  BY LenProperties DEF TypeOK
<1>2. \A s \in pool : Offered(s) \in Nat /\ PerSpecies \in Nat
  <2> TAKE s \in pool
  <2> DEFINE at == {i \in DOMAIN live : live[i].species = s}
  <2>1. DOMAIN live = 1..Len(live) /\ 1 \in Int /\ Len(live) \in Int
    BY <1>1, LenProperties
  <2>2. IsFiniteSet(1..Len(live))
    BY <2>1, FS_Interval
  <2>3. at \in SUBSET (1..Len(live))
    BY <2>1
  <2> HIDE DEF at
  <2>4. Cardinality(at) \in Nat
    BY <2>2, <2>3, FS_Subset, FS_CardinalityType
  <2> QED BY <2>4, SizesAssumption DEF at, Offered, SizesAssumption
<1>3. \A s \in pool : Offered(s) >= PerSpecies
  BY <1>2
<1>4. Len(live) >= PerSpecies * Cardinality(pool)
  BY <1>1, <1>3, SharesCounted
<1>5. PerSpecies * Cardinality(pool) \in Nat
  BY <1>1, PoolCounted, SizesAssumption DEF SizesAssumption
<1> DEFINE most == PerSpecies * Cardinality(pool)
<1>6. most \in Nat /\ t <= most /\ Len(live) >= most
  BY <1>4, <1>5
<1> HIDE DEF most
<1> QED BY <1>1, <1>6

\* The floor of the fill step: no more than two listings per species.
LEMMA FloorWithinReach ==
  ASSUME PerSpecies >= 2, NEW n \in Nat
  PROVE  Floor(n) \in Nat /\ Floor(n) <= PerSpecies * n
<1>1. MinListings \in Nat /\ PerSpecies \in Nat
  BY SizesAssumption DEF SizesAssumption
<1>2. Floor(n) \in Nat /\ Floor(n) <= 2 * n
  BY <1>1 DEF Floor, Larger, Smaller
<1>3. 2 * n <= PerSpecies * n /\ PerSpecies * n \in Nat
  BY <1>1
<1> QED BY <1>2, <1>3

LEMMA ReachInit == Init => WithinReach
<1> SUFFICES ASSUME Init PROVE WithinReach
  OBVIOUS
<1>1. PerSpecies * Cardinality(Species) \in Nat
  BY PoolCounted, SizesAssumption DEF SizesAssumption
<1>2. target \in 0..(PerSpecies * Cardinality(Species)) /\ pool = Species /\ pc = "idle"
  BY DEF Init, Rolls
<1> DEFINE most == PerSpecies * Cardinality(Species)
<1> HIDE DEF most
<1>3. most \in Nat /\ target \in 0..most
  BY <1>1, <1>2 DEF most
<1>4. target <= most
  BY <1>3
<1> QED BY <1>2, <1>4 DEF WithinReach, most

LEMMA ReachNext == Measured /\ TypeOK /\ WithinReach /\ [Next]_vars => WithinReach'
<1> SUFFICES ASSUME Measured, TypeOK, WithinReach, [Next]_vars PROVE WithinReach'
  OBVIOUS
<1>1. CASE Rebuild
  <2>1. /\ pc # "raise" /\ pc' = pc /\ pool' \in SUBSET Species
        /\ target' \in 0..(PerSpecies * Cardinality(pool'))
    BY <1>1 DEF Rebuild, Rolls, Measured, clientVars, TypeOK
  <2> DEFINE most == PerSpecies * Cardinality(pool')
  <2>2. most \in Nat
    BY <2>1, PoolCounted, SizesAssumption DEF SizesAssumption
  <2>3. target' \in 0..most
    BY <2>1
  <2> HIDE DEF most
  <2>4. target' <= most
    BY <2>2, <2>3
  <2> QED BY <2>1, <2>4 DEF WithinReach, most
<1>2. CASE Measure
  <2> DEFINE f    == Floor(Cardinality(pool))
             most == PerSpecies * Cardinality(pool)
  <2>1. ask' = [raise |-> target < f, target |-> Larger(target, f)] /\ UNCHANGED <<target, pool>>
    BY <1>2 DEF Measure, gameVars
  <2>2. Cardinality(pool) \in Nat /\ target \in Nat /\ PerSpecies \in Nat
    BY PoolCounted, SizesAssumption DEF TypeOK, SizesAssumption
  <2>3. f \in Nat /\ f <= most /\ target <= most /\ most \in Nat
    BY <2>2, FloorWithinReach DEF Measured, WithinReach
  <2>4. UNCHANGED most
    BY <2>1
  <2> HIDE DEF f, most
  <2>5. Larger(target, f) <= most /\ (~(target < f) => Larger(target, f) = target)
    BY <2>2, <2>3 DEF Larger
  <2>6. ask'.target = Larger(target, f) /\ ask'.raise = (target < f)
    BY <2>1
  <2> QED BY <2>1, <2>3, <2>4, <2>5, <2>6 DEF WithinReach, most
<1>3. CASE Raise
  <2>1. pc = "raise" /\ pc' = "idle" /\ pool' = pool
        /\ target' = IF ask.raise THEN ask.target ELSE target
    BY <1>3 DEF Raise, Goto
  <2> QED BY <2>1 DEF WithinReach
<1>4. CASE Read \/ Apply \/ Dirty \/ ExpireNext \/ ExpireDone
  <2>1. UNCHANGED <<target, pool>> /\ pc' # "raise"
    BY <1>4 DEF Read, Apply, Dirty, ExpireNext, ExpireDone, Goto, gameVars
  <2> QED BY <2>1 DEF WithinReach
<1>5. CASE Spawn \/ Satisfied \/ Expire \/ Sell \/ Change \/ Cool \/ UNCHANGED vars
  <2>1. UNCHANGED <<target, pool, pc, ask>>
    BY <1>5 DEF Spawn, Satisfied, Frame, Measured, Expire, Sell, Leave, Change, Cool, vars,
                gameVars, clientVars
  <2> QED BY <2>1 DEF WithinReach
<1> QED BY <1>1, <1>2, <1>3, <1>4, <1>5 DEF Next, Engine, Tick

\* Why the wakes of the client stop, for any species and sizes: as long as the
\* engine rolls the target with a rebuild only, the pool is not rebuilt between
\* measuring and raising and the engine offers two
\* listings of a species, the client wakes a market with a valid pool only for
\* a listing that the engine then has the room, the batch and a species for
\* (ensure_min_fill).
THEOREM NoWakeInVain ==
  ASSUME Measured
  PROVE  Spec => NoVainWake
<1>1. TypeOK /\ WithinReach /\ [Next]_vars => (~force /\ force' /\ valid => CanSpawn')
  <2> SUFFICES ASSUME TypeOK, WithinReach, [Next]_vars, ~force, force', valid PROVE CanSpawn'
    OBVIOUS
  <2>1. Raise /\ Wake
    BY DEF Next, Engine, Tick, Rebuild, Spawn, Satisfied, Expire, Sell, Leave, Read, Apply, Dirty, ExpireNext,
           ExpireDone, Measure, Raise, Change, Cool, vars, gameVars
  <2>2. /\ pc = "raise" /\ target' = (IF ask.raise THEN ask.target ELSE target)
        /\ Len(live) < ask.target /\ UNCHANGED <<live, pool, valid>> /\ batch' = Larger(batch, 1)
    BY <2>1 DEF Raise, Wake
  <2>3. target' = ask.target /\ ask.target <= PerSpecies * Cardinality(pool)
    BY <2>2 DEF WithinReach
  <2>4. batch' > 0
    BY <2>2 DEF Larger, TypeOK
  <2>5. ask.target \in Nat
    BY DEF TypeOK
  <2>6. \E s \in pool : Offered(s) < PerSpecies
    BY <2>2, <2>3, <2>5, RoomInPool
  <2>7. \A s : Offered(s)' = Offered(s)
    BY <2>2 DEF Offered
  <2> QED BY <2>2, <2>3, <2>4, <2>6, <2>7 DEF CanSpawn
<1>2. TypeOK /\ WithinReach /\ [Next]_vars => WithinReach'
  BY ReachNext
<1>3. Init => TypeOK /\ WithinReach
  BY TypedInit, ReachInit
<1>4. TypeOK /\ [Next]_vars => TypeOK'
  BY TypedNext
<1> QED BY <1>1, <1>2, <1>3, <1>4, PTL DEF Spec, NoVainWake

-----------------------------------------------------------------------------
(* The tables: how full they are, and where a probe goes                   *)

\* The capacity leaves room and the readers take it, up to the last size that
\* fits the largest header.
LEMMA CapacityFits ==
  ASSUME NEW n \in Nat, n <= LargestSet
  PROVE  /\ CapacityFor(n) \in Nat \ {0} /\ n < CapacityFor(n) /\ 10 * n <= 7 * CapacityFor(n)
         /\ HeaderSound(CapacityFor(n), TRUE)
<1> DEFINE caps == {2 ^ i : i \in 3..20}
           fit  == {c \in caps : c >= Needed(n)}
<1>1. caps = {8, 16, 32, 64, 128, 256, 512, 1024, 2048, 4096, 8192, 16384, 32768, 65536,
              131072, 262144, 524288, 1048576}
  OBVIOUS
<1>2. Needed(n) \in Nat /\ Needed(n) <= 65536 /\ n < Needed(n) /\ 10 * n <= 7 * Needed(n)
  BY DEF Needed, LargestSet
<1>3. fit \subseteq Nat /\ 65536 \in fit
  BY <1>1, <1>2
<1>4. CapacityFor(n) \in fit /\ CapacityFor(n) <= 65536
  BY <1>3, FirstNumber DEF CapacityFor
<1>5. CapacityFor(n) \in caps /\ CapacityFor(n) >= Needed(n) /\ CapacityFor(n) \in Nat
  BY <1>3, <1>4
<1> HIDE DEF caps, fit
<1>6. CapacityFor(n) \in {8, 16, 32, 64, 128, 256, 512, 1024, 2048, 4096, 8192, 16384, 32768, 65536}
  BY <1>1, <1>4, <1>5
<1>7. {2 ^ i : i \in 0..16} = {1, 2, 4, 8, 16, 32, 64, 128, 256, 512, 1024, 2048, 4096, 8192,
                               16384, 32768, 65536}
  OBVIOUS
<1> DEFINE powers == {2 ^ i : i \in 0..16}
<1>8. CapacityFor(n) \in powers
  BY <1>6, <1>7
<1>9. HeaderSound(CapacityFor(n), TRUE)
  BY <1>8, Zenon DEF HeaderSound
<1>10. CapacityFor(n) \in Nat \ {0}
  BY <1>5, <1>6
<1>11. n < CapacityFor(n) /\ 10 * n <= 7 * CapacityFor(n)
  BY <1>2, <1>5
<1> QED
  BY <1>9, <1>10, <1>11, Zenon

\* What the proofs need of the constants.
LEMMA KeyFacts ==
  /\ TableKeys \subseteq Nat /\ Stranger \notin TableKeys
  /\ Homes \subseteq Nat /\ KeyLists \subseteq Seq(TableKeys)
  /\ MaxKeys \in Nat /\ MaxKeys <= LargestSet
  /\ \A list \in KeyLists : Len(list) <= MaxKeys
BY KeysAssumption DEF KeysAssumption

LEMMA RoomIsLeft == RoomLeft
<1> SUFFICES ASSUME NEW n \in 0..MaxKeys
             PROVE  /\ n < CapacityFor(n) /\ 10 * n <= 7 * CapacityFor(n)
                    /\ HeaderSound(CapacityFor(n), TRUE)
  BY Zenon DEF RoomLeft
<1>1. n \in Nat /\ n <= LargestSet
  BY KeyFacts DEF LargestSet
<1> QED
  BY <1>1, CapacityFits

LEMMA Divided ==
  ASSUME NEW a \in Nat, NEW c \in Nat \ {0}
  PROVE  /\ a \div c \in Nat /\ a % c \in 0..(c - 1)
         /\ a = (c * (a \div c)) + (a % c)
OBVIOUS

LEMMA Remainder ==
  ASSUME NEW q \in Nat, NEW c \in Nat \ {0}, NEW s \in 0..(c - 1)
  PROVE  ((c * q) + s) % c = s
OBVIOUS

\* A probe comes past every slot.
LEMMA ProbeMeets ==
  ASSUME NEW h \in Nat, NEW c \in Nat \ {0}, NEW s \in 0..(c - 1)
  PROVE  \E d \in 0..(c - 1) : (h + d) % c = s
<1> DEFINE q == h \div c
           r == h % c
<1>1. q \in Nat /\ r \in 0..(c - 1) /\ h = (c * q) + r
  BY Divided
<1> HIDE DEF q, r
<1>2. CASE r <= s
  <2>1. s - r \in 0..(c - 1) /\ h + (s - r) = (c * q) + s
    BY <1>1, <1>2
  <2> QED
    BY <1>1, <2>1, Remainder
<1>3. CASE s < r
  <2>1. (s - r) + c \in 0..(c - 1) /\ h + ((s - r) + c) = (c * (q + 1)) + s
    BY <1>1, <1>3
  <2>2. q + 1 \in Nat
    BY <1>1
  <2>3. ((c * (q + 1)) + s) % c = s
    BY <2>2, Remainder
  <2> QED
    BY <2>1, <2>3
<1> QED
  BY <1>1, <1>2, <1>3

-----------------------------------------------------------------------------
(* A table under construction: each key is in one slot, where the probe    *)
(* from its hash meets it                                                  *)

Tables(c) == [capacity : {c}, taken : SUBSET (0..c - 1), keys : [0..c - 1 -> Nat]]

Distinct(table) == \A s, t \in table.taken : table.keys[s] = table.keys[t] => s = t

Reached(table, hash) == \A s \in table.taken : s \in Run(table, hash[table.keys[s]])

Sound(table, hash, c) ==
  table \in Tables(c) /\ Distinct(table) /\ Reached(table, hash) /\ DecodeIds(table) \subseteq TableKeys

TableOf(c, t, k) == [capacity |-> c, taken |-> t, keys |-> k]

LEMMA TableParts ==
  ASSUME NEW c \in Nat \ {0}, NEW table \in Tables(c)
  PROVE  /\ table.capacity = c /\ Slots(table) = 0..c - 1
         /\ table.taken \in SUBSET (0..c - 1) /\ table.keys \in [0..c - 1 -> Nat]
         /\ table = TableOf(c, table.taken, table.keys)
         /\ \A h, d : Ahead(table, h, d) = (h + d) % c
BY DEF Tables, Slots, TableOf, Ahead

LEMMA HashTyped ==
  ASSUME NEW hash \in HashFunctions, NEW k \in TableKeys \cup {Stranger}
  PROVE  hash[k] \in Nat
BY KeyFacts DEF HashFunctions

\* What a probe meets, slot by slot.
LEMMA RunSlots ==
  ASSUME NEW c \in Nat \ {0}, NEW table \in Tables(c), NEW h \in Nat, NEW s
  PROVE  s \in Run(table, h) <=>
           \E d \in 0..c - 1 : s = (h + d) % c /\ \A e \in 0..d : (h + e) % c \in table.taken
<1>1. Slots(table) = 0..c - 1 /\ \A d : Ahead(table, h, d) = (h + d) % c
  BY TableParts
<1> QED
  BY <1>1 DEF Run

\* A probe meets taken slots only.
LEMMA RunTaken ==
  ASSUME NEW c \in Nat \ {0}, NEW table \in Tables(c), NEW h \in Nat
  PROVE  Run(table, h) \subseteq table.taken
<1> SUFFICES ASSUME NEW s \in Run(table, h) PROVE s \in table.taken
  OBVIOUS
<1>1. PICK d \in 0..c - 1 : s = (h + d) % c /\ \A e \in 0..d : (h + e) % c \in table.taken
  BY RunSlots
<1> QED
  BY <1>1

\* The first free slot from the hash on: all before it are taken.
LEMMA FreeSlotFirst ==
  ASSUME NEW c \in Nat \ {0}, NEW table \in Tables(c), NEW h \in Nat, table.taken # 0..c - 1
  PROVE  \E d \in 0..c - 1 :
           /\ FreeSlot(table, h) = (h + d) % c /\ (h + d) % c \in 0..c - 1
           /\ (h + d) % c \notin table.taken
           /\ \A e \in 0..d - 1 : (h + e) % c \in table.taken
<1> DEFINE gaps == {d \in 0..c - 1 : (h + d) % c \notin table.taken}
<1>1. PICK s \in 0..c - 1 : s \notin table.taken
  BY TableParts
<1>2. PICK d \in 0..c - 1 : (h + d) % c = s
  BY ProbeMeets
<1>3. gaps \in SUBSET Nat /\ d \in gaps
  BY <1>1, <1>2
<1>4. Min(gaps) \in gaps /\ \A k \in gaps : Min(gaps) <= k
  BY <1>3, FirstNumber
<1>5. FreeSlot(table, h) = (h + Min(gaps)) % c
  <2>1. {x \in Slots(table) : Ahead(table, h, x) \notin table.taken} = gaps
    BY TableParts
  <2>2. FreeSlot(table, h) = Ahead(table, h, Min(gaps))
    BY <2>1, Zenon DEF FreeSlot
  <2>3. \A x : Ahead(table, h, x) = (h + x) % c
    BY TableParts
  <2> QED
    BY <2>2, <2>3, Zenon
<1> DEFINE m == Min(gaps)
<1>6. m \in 0..c - 1 /\ (h + m) % c \notin table.taken /\ m \in Nat
  <2>1. m \in gaps /\ m \in Nat
    BY <1>3, <1>4
  <2> HIDE DEF m
  <2> QED
    BY <2>1
<1>7. \A e \in 0..m - 1 : e \in 0..c - 1 /\ ~ (m <= e)
  <2> HIDE DEF m
  <2> QED BY <1>6
<1>8. \A e \in 0..m - 1 : (h + e) % c \in table.taken
  BY <1>4, <1>7
<1>9. (h + m) % c \in 0..c - 1
  <2> HIDE DEF m
  <2>1. h + m \in Nat
    BY <1>6
  <2> QED BY <2>1, Divided
<1> HIDE DEF m
<1> QED
  BY <1>5, <1>6, <1>8, <1>9 DEF m

LEMMA EmptySound ==
  ASSUME NEW c \in Nat \ {0}, NEW hash \in HashFunctions
  PROVE  Sound(EmptyTable(c), hash, c) /\ DecodeIds(EmptyTable(c)) = {}
<1>1. EmptyTable(c) \in Tables(c) /\ EmptyTable(c).taken = {}
  BY DEF EmptyTable, Tables
<1>2. Distinct(EmptyTable(c)) /\ Reached(EmptyTable(c), hash) /\ DecodeIds(EmptyTable(c)) = {}
  BY <1>1 DEF Distinct, Reached, DecodeIds
<1> QED
  BY <1>1, <1>2 DEF Sound

\* Taking another slot keeps the way to those that a probe met.
LEMMA RunGrows ==
  ASSUME NEW c \in Nat \ {0}, NEW table \in Tables(c), NEW more \in Tables(c),
         table.taken \subseteq more.taken, NEW h \in Nat
  PROVE  Run(table, h) \subseteq Run(more, h)
<1> SUFFICES ASSUME NEW s \in Run(table, h) PROVE s \in Run(more, h)
  OBVIOUS
<1>1. PICK d \in 0..c - 1 : s = (h + d) % c /\ \A e \in 0..d : (h + e) % c \in table.taken
  BY RunSlots
<1>2. \A e \in 0..d : (h + e) % c \in more.taken
  BY <1>1
<1> QED
  BY <1>1, <1>2, RunSlots

\* A new key goes to a free slot that a probe from its hash reaches.
LEMMA InsertSound ==
  ASSUME NEW c \in Nat \ {0}, NEW hash \in HashFunctions, NEW table, Sound(table, hash, c),
         NEW key \in TableKeys, key \notin DecodeIds(table), table.taken # 0..c - 1
  PROVE  /\ Sound(InsertKey(table, key, hash), hash, c)
         /\ DecodeIds(InsertKey(table, key, hash)) = DecodeIds(table) \cup {key}
<1> DEFINE more == InsertKey(table, key, hash)
           h    == hash[key]
           s    == FreeSlot(table, h)
<1>1. /\ table \in Tables(c) /\ h \in Nat /\ key \in Nat
      /\ Distinct(table) /\ Reached(table, hash) /\ DecodeIds(table) \subseteq TableKeys
  BY HashTyped, KeyFacts DEF Sound
<1>2. PICK d \in 0..c - 1 :
        /\ s = (h + d) % c /\ (h + d) % c \in 0..c - 1 /\ (h + d) % c \notin table.taken
        /\ \A e \in 0..d - 1 : (h + e) % c \in table.taken
  BY <1>1, FreeSlotFirst
<1>3. s \in 0..c - 1 /\ s \notin table.taken
  BY <1>2
<1>4. /\ table.taken \in SUBSET (0..c - 1) /\ table.keys \in [0..c - 1 -> Nat]
      /\ table = TableOf(c, table.taken, table.keys)
  BY <1>1, TableParts
<1> HIDE DEF s
<1>5. more = TableOf(c, table.taken \cup {s}, [table.keys EXCEPT ![s] = key])
  <2>1. more = [table EXCEPT !.taken = @ \cup {s}, !.keys[s] = key]
    BY DEF InsertKey, s
  <2>2. PICK t, k : table = TableOf(c, t, k) /\ t = table.taken /\ k = table.keys
    BY <1>4, Zenon
  <2>3. more = TableOf(c, t \cup {s}, [k EXCEPT ![s] = key])
    BY <2>1, <2>2 DEF TableOf
  <2> QED
    BY <2>2, <2>3, Zenon
<1>6. /\ more.taken = table.taken \cup {s} /\ more.keys[s] = key
      /\ \A t \in table.taken : more.keys[t] = table.keys[t]
      /\ more \in Tables(c)
  BY <1>1, <1>3, <1>4, <1>5 DEF TableOf, Tables
<1> HIDE DEF more
<1>7. \A t \in table.taken : table.keys[t] \in DecodeIds(table) /\ table.keys[t] # key
  BY DEF DecodeIds
<1>8. Distinct(more)
  BY <1>1, <1>6, <1>7 DEF Distinct
<1>9. DecodeIds(more) = DecodeIds(table) \cup {key}
  BY <1>6 DEF DecodeIds
<1>10. Reached(more, hash)
  <2> SUFFICES ASSUME NEW t \in more.taken PROVE t \in Run(more, hash[more.keys[t]])
    BY DEF Reached
  <2>1. CASE t \in table.taken
    <3>1. table.keys[t] \in TableKeys
      BY <1>1, <1>7, <2>1
    <3>2. hash[table.keys[t]] \in Nat
      BY <3>1, HashTyped
    <3>3. t \in Run(table, hash[table.keys[t]])
      BY <1>1, <2>1 DEF Reached
    <3>4. Run(table, hash[table.keys[t]]) \subseteq Run(more, hash[table.keys[t]])
      BY <1>1, <1>6, <3>2, RunGrows
    <3> QED
      BY <1>6, <2>1, <3>3, <3>4
  <2>2. CASE t = s
    <3>1. \A e \in 0..d : (h + e) % c \in more.taken
      <4> TAKE e \in 0..d
      <4>1. e \in 0..d - 1 \/ e = d
        OBVIOUS
      <4> QED
        BY <1>2, <1>6, <4>1
    <3>2. s \in Run(more, h)
      BY <1>1, <1>2, <1>6, <3>1, RunSlots
    <3> QED
      BY <1>6, <2>2, <3>2
  <2> QED
    BY <1>6, <2>1, <2>2
<1>11. DecodeIds(more) \subseteq TableKeys
  BY <1>1, <1>9
<1> QED
  BY <1>6, <1>8, <1>9, <1>10, <1>11 DEF Sound, more

\* As many slots are taken as there are keys.
LEMMA SlotsCounted ==
  ASSUME NEW c \in Nat \ {0}, NEW hash, NEW table, Sound(table, hash, c)
  PROVE  /\ IsFiniteSet(table.taken) /\ IsFiniteSet(DecodeIds(table))
         /\ Cardinality(table.taken) = Cardinality(DecodeIds(table))
<1>1. table \in Tables(c) /\ Distinct(table)
  BY DEF Sound
<1>2. IsFiniteSet(0..c - 1) /\ table.taken \in SUBSET (0..c - 1)
  <2>1. 0 \in Int /\ c - 1 \in Int
    OBVIOUS
  <2>2. IsFiniteSet(0..c - 1)
    BY <2>1, FS_Interval
  <2> QED
    BY <1>1, <2>2, TableParts
<1>3. IsFiniteSet(table.taken)
  BY <1>2, FS_Subset
<1> DEFINE key == [s \in table.taken |-> table.keys[s]]
<1>4. key \in Bijection(table.taken, DecodeIds(table))
  <2>1. key \in [table.taken -> DecodeIds(table)]
    BY DEF DecodeIds
  <2>2. key \in Injection(table.taken, DecodeIds(table))
    BY <1>1, <2>1 DEF Distinct, Injection, IsInjective
  <2>3. \A k \in DecodeIds(table) : \E s \in table.taken : key[s] = k
    BY DEF DecodeIds
  <2>4. key \in Surjection(table.taken, DecodeIds(table))
    BY <2>1, <2>3 DEF Surjection
  <2> QED
    BY <2>2, <2>4 DEF Bijection
<1>5. ExistsBijection(table.taken, DecodeIds(table))
  BY <1>4 DEF ExistsBijection
<1> QED
  BY <1>3, <1>5, FS_Bijection

\* A key that the table has changes nothing, another is added to those it has.
LEMMA AddSound ==
  ASSUME NEW c \in Nat \ {0}, NEW hash \in HashFunctions, NEW table, Sound(table, hash, c),
         NEW key \in TableKeys, NEW all, DecodeIds(table) \subseteq all,
         IsFiniteSet(all), Cardinality(all) < c
  PROVE  /\ Sound(AddKey(table, key, hash), hash, c)
         /\ DecodeIds(AddKey(table, key, hash)) = DecodeIds(table) \cup {key}
<1>1. table.taken # 0..c - 1
  <2>1. Cardinality(DecodeIds(table)) <= Cardinality(all)
    BY FS_Subset
  <2>2. Cardinality(0..c - 1) = c
    BY FS_Interval
  <2>3. Cardinality(table.taken) \in Nat /\ Cardinality(all) \in Nat
    BY SlotsCounted, FS_CardinalityType
  <2> QED
    BY <2>1, <2>2, <2>3, SlotsCounted
<1>2. CASE \E s \in table.taken : table.keys[s] = key
  <2>1. AddKey(table, key, hash) = table /\ key \in DecodeIds(table)
    BY <1>2, Zenon DEF AddKey, DecodeIds
  <2> QED
    BY <2>1
<1>3. CASE ~ \E s \in table.taken : table.keys[s] = key
  <2>1. AddKey(table, key, hash) = InsertKey(table, key, hash)
    BY <1>3, Zenon DEF AddKey
  <2>2. key \notin DecodeIds(table)
    BY <1>3 DEF DecodeIds
  <2> QED
    BY <1>1, <2>1, <2>2, InsertSound
<1> QED
  BY <1>2, <1>3

-----------------------------------------------------------------------------
(* Building a set: the recursion over the list is well defined, and after  *)
(* each key the table is sound and has the keys so far                     *)

Built(f, list, hash, n) ==
  IF n = 0 THEN EmptyTable(CapacityFor(Cardinality(ToSet(list))))
  ELSE AddKey(f[n - 1], list[n], hash)

IsBuilt(f, list, hash, m) == f = [n \in 0..m |-> Built(f, list, hash, n)]

Prefix(list, m) == {list[n] : n \in 1..m}

\* One key more.
LEMMA BuiltFurther ==
  ASSUME NEW list, NEW hash, NEW m \in Nat, NEW f, IsBuilt(f, list, hash, m)
  PROVE  \E g : IsBuilt(g, list, hash, m + 1)
<1> DEFINE g == [n \in 0..m + 1 |-> IF n <= m THEN f[n] ELSE AddKey(f[m], list[m + 1], hash)]
<1>1. \A n \in 0..m : f[n] = Built(f, list, hash, n)
  BY DEF IsBuilt
<1>2. ASSUME NEW n \in 0..m + 1 PROVE g[n] = Built(g, list, hash, n)
  <2>1. CASE n = 0
    BY <1>1, <2>1 DEF Built
  <2>2. CASE n \in 1..m
    <3>1. n - 1 \in 0..m /\ g[n - 1] = f[n - 1] /\ g[n] = f[n] /\ n # 0
      BY <2>2
    <3>2. f[n] = AddKey(f[n - 1], list[n], hash)
      BY <1>1, <2>2, <3>1 DEF Built
    <3> QED
      BY <3>1, <3>2 DEF Built
  <2>3. CASE n = m + 1
    <3>1. n - 1 = m /\ g[n - 1] = f[m] /\ n # 0 /\ g[n] = AddKey(f[m], list[m + 1], hash)
      BY <2>3
    <3> QED
      BY <2>3, <3>1 DEF Built
  <2> QED
    BY <2>1, <2>2, <2>3
<1>3. g = [n \in 0..m + 1 |-> g[n]]
  OBVIOUS
<1> HIDE DEF g
<1>4. [n \in 0..m + 1 |-> g[n]] = [n \in 0..m + 1 |-> Built(g, list, hash, n)]
  BY <1>2
<1> QED
  BY <1>3, <1>4 DEF IsBuilt

\* There is a table for each of the first keys of the list.
LEMMA BuiltExists ==
  ASSUME NEW list, NEW hash, NEW m \in Nat
  PROVE  \E f : IsBuilt(f, list, hash, m)
<1> DEFINE none == {n \in Nat : ~ \E f : IsBuilt(f, list, hash, n)}
<1> SUFFICES ASSUME none # {} PROVE FALSE
  OBVIOUS
<1> DEFINE first == Min(none)
<1>1. first \in none /\ \A n \in none : first <= n
  BY FirstNumber
<1>2. first \in Nat /\ ~ \E f : IsBuilt(f, list, hash, first)
  BY <1>1
<1>3. first # 0
  <2> DEFINE f == [n \in 0..0 |-> EmptyTable(CapacityFor(Cardinality(ToSet(list))))]
  <2>1. IsBuilt(f, list, hash, 0)
    BY DEF IsBuilt, Built
  <2> QED
    BY <1>2, <2>1
<1> HIDE DEF first
<1>4. first - 1 \in Nat /\ (first - 1) + 1 = first /\ first - 1 \notin none
  BY <1>1, <1>2, <1>3
<1>5. \E f : IsBuilt(f, list, hash, first - 1)
  BY <1>4
<1>6. \E g : IsBuilt(g, list, hash, (first - 1) + 1)
  BY <1>4, <1>5, BuiltFurther
<1> QED
  BY <1>2, <1>4, <1>6

LEMMA BuildSetUnfolds ==
  ASSUME NEW list, NEW hash, Len(list) \in Nat
  PROVE  \E f : IsBuilt(f, list, hash, Len(list)) /\ BuildSet(list, hash) = f[Len(list)]
<1> DEFINE f == CHOOSE g : IsBuilt(g, list, hash, Len(list))
<1>1. IsBuilt(f, list, hash, Len(list))
  BY BuiltExists
<1>2. BuildSet(list, hash) = f[Len(list)]
  BY DEF BuildSet, IsBuilt, Built
<1> QED
  BY <1>1, <1>2

\* The keys of a list, and of its beginning.
LEMMA ListKeys ==
  ASSUME NEW list \in KeyLists
  PROVE  /\ Len(list) \in Nat /\ \A n \in 1..Len(list) : list[n] \in TableKeys
         /\ ToSet(list) = Prefix(list, Len(list)) /\ IsFiniteSet(ToSet(list))
         /\ \A m \in 0..Len(list) : Prefix(list, m) \subseteq ToSet(list)
         /\ Cardinality(ToSet(list)) \in Nat /\ Cardinality(ToSet(list)) <= LargestSet
<1>1. list \in Seq(TableKeys) /\ Len(list) <= MaxKeys /\ MaxKeys \in Nat /\ MaxKeys <= LargestSet
  BY KeyFacts
<1>2. Len(list) \in Nat /\ DOMAIN list = 1..Len(list)
  BY <1>1, LenProperties
<1>3. \A n \in 1..Len(list) : list[n] \in TableKeys
  BY <1>1, ElementOfSeq
<1>4. ToSet(list) = Prefix(list, Len(list))
  BY <1>2 DEF ToSet, Prefix
<1>5. IsFiniteSet(1..Len(list)) /\ Cardinality(1..Len(list)) = Len(list)
  <2>1. 1 \in Int /\ Len(list) \in Int
    BY <1>2
  <2>2. /\ IsFiniteSet(1..Len(list))
        /\ Cardinality(1..Len(list)) = IF 1 > Len(list) THEN 0 ELSE Len(list) - 1 + 1
    BY <2>1, FS_Interval
  <2> QED
    BY <1>2, <2>2
<1>6. IsFiniteSet(ToSet(list)) /\ Cardinality(ToSet(list)) <= Len(list)
  <2> DEFINE at == [n \in 1..Len(list) |-> list[n]]
  <2>1. at \in [1..Len(list) -> ToSet(list)]
    BY <1>4 DEF Prefix
  <2>2. at \in Surjection(1..Len(list), ToSet(list))
    BY <1>4, <2>1 DEF Prefix, Surjection
  <2> QED
    BY <1>5, <2>2, FS_Surjection
<1>7. Cardinality(ToSet(list)) \in Nat /\ Cardinality(ToSet(list)) <= LargestSet
  <2>1. Cardinality(ToSet(list)) \in Nat
    BY <1>6, FS_CardinalityType
  <2>2. LargestSet \in Nat
    BY DEF LargestSet
  <2> QED
    BY <1>1, <1>2, <1>6, <2>1, <2>2
<1>8. \A m \in 0..Len(list) : Prefix(list, m) \subseteq ToSet(list)
  BY <1>2, <1>4 DEF Prefix
<1> QED
  BY <1>2, <1>3, <1>4, <1>6, <1>7, <1>8

SetCapacity(list) == CapacityFor(Cardinality(ToSet(list)))

LEMMA CapacityOfList ==
  ASSUME NEW list \in KeyLists
  PROVE  SetCapacity(list) \in Nat \ {0} /\ Cardinality(ToSet(list)) < SetCapacity(list)
BY ListKeys, CapacityFits DEF SetCapacity

BuiltSound(f, list, hash, m) ==
  Sound(f[m], hash, SetCapacity(list)) /\ DecodeIds(f[m]) = Prefix(list, m)

LEMMA BuiltSoundFirst ==
  ASSUME NEW list \in KeyLists, NEW hash \in HashFunctions, NEW f,
         IsBuilt(f, list, hash, Len(list))
  PROVE  BuiltSound(f, list, hash, 0)
<1>1. f[0] = EmptyTable(SetCapacity(list))
  BY ListKeys DEF IsBuilt, Built, SetCapacity
<1>2. Prefix(list, 0) = {}
  BY DEF Prefix
<1> QED
  BY <1>1, <1>2, CapacityOfList, EmptySound DEF BuiltSound

LEMMA BuiltSoundNext ==
  ASSUME NEW list \in KeyLists, NEW hash \in HashFunctions, NEW f,
         IsBuilt(f, list, hash, Len(list)), NEW m \in 0..Len(list) - 1,
         BuiltSound(f, list, hash, m)
  PROVE  BuiltSound(f, list, hash, m + 1)
<1>1. Len(list) \in Nat /\ m + 1 \in 1..Len(list) /\ m \in 0..Len(list) /\ list[m + 1] \in TableKeys
  BY ListKeys
<1>2. f[m + 1] = AddKey(f[m], list[m + 1], hash)
  <2>1. f[m + 1] = Built(f, list, hash, m + 1)
    BY <1>1 DEF IsBuilt
  <2>2. m + 1 # 0 /\ (m + 1) - 1 = m
    BY <1>1
  <2> QED
    BY <2>1, <2>2 DEF Built
<1>3. Prefix(list, m) \subseteq ToSet(list) /\ IsFiniteSet(ToSet(list))
  BY <1>1, ListKeys
<1>4. /\ Sound(AddKey(f[m], list[m + 1], hash), hash, SetCapacity(list))
      /\ DecodeIds(AddKey(f[m], list[m + 1], hash)) = Prefix(list, m) \cup {list[m + 1]}
  BY <1>1, <1>3, CapacityOfList, AddSound DEF BuiltSound
<1>5. Prefix(list, m) \cup {list[m + 1]} = Prefix(list, m + 1)
  <2>1. \A n : n \in 1..m + 1 <=> n \in 1..m \/ n = m + 1
    BY <1>1
  <2> QED
    BY <2>1 DEF Prefix
<1> QED
  BY <1>2, <1>4, <1>5 DEF BuiltSound

\* The set built from a list is sound and has the keys of the list.
LEMMA SetSound ==
  ASSUME NEW list \in KeyLists, NEW hash \in HashFunctions
  PROVE  /\ Sound(BuildSet(list, hash), hash, SetCapacity(list))
         /\ DecodeIds(BuildSet(list, hash)) = ToSet(list)
<1>1. Len(list) \in Nat /\ ToSet(list) = Prefix(list, Len(list))
  BY ListKeys
<1>2. PICK f : IsBuilt(f, list, hash, Len(list)) /\ BuildSet(list, hash) = f[Len(list)]
  BY <1>1, BuildSetUnfolds
<1> DEFINE bad == {n \in 0..Len(list) : ~ BuiltSound(f, list, hash, n)}
<1>3. bad = {}
  <2> SUFFICES ASSUME bad # {} PROVE FALSE
    OBVIOUS
  <2> DEFINE first == Min(bad)
  <2>1. bad \in SUBSET Nat
    BY <1>1
  <2>2. first \in bad /\ \A n \in bad : first <= n
    BY <2>1, FirstNumber
  <2>3. first \in 0..Len(list) /\ ~ BuiltSound(f, list, hash, first)
    BY <2>2
  <2>4. first # 0
    BY <1>2, <2>3, BuiltSoundFirst
  <2> HIDE DEF first
  <2>5. first - 1 \in 0..Len(list) - 1 /\ (first - 1) + 1 = first /\ first - 1 \notin bad
    BY <1>1, <2>2, <2>3, <2>4
  <2>6. BuiltSound(f, list, hash, first - 1)
    BY <1>1, <2>5
  <2>7. BuiltSound(f, list, hash, (first - 1) + 1)
    BY <1>2, <2>5, <2>6, BuiltSoundNext
  <2> QED
    BY <2>3, <2>5, <2>7
<1>4. BuiltSound(f, list, hash, Len(list))
  BY <1>1, <1>3
<1> QED
  BY <1>1, <1>2, <1>4 DEF BuiltSound

-----------------------------------------------------------------------------
(* Reading a table                                                         *)

\* A key is met by the probe from its hash just when a slot has it, and then
\* one slot does.
LEMMA SoundFound ==
  ASSUME NEW c \in Nat \ {0}, NEW hash \in HashFunctions, NEW table, Sound(table, hash, c),
         NEW k \in TableKeys \cup {Stranger}
  PROVE  /\ Probed(table, k, hash) = IntmapFind(table, k)
         /\ k \in DecodeIds(table) => \E s : IntmapFind(table, k) = {s}
         /\ k \notin DecodeIds(table) => IntmapFind(table, k) = {}
<1>1. Run(table, hash[k]) \subseteq table.taken
  BY HashTyped, RunTaken DEF Sound
<1>2. \A s \in table.taken : table.keys[s] = k => s \in Run(table, hash[k])
  BY DEF Sound, Reached
<1>3. Probed(table, k, hash) = IntmapFind(table, k)
  BY <1>1, <1>2 DEF Probed, IntmapFind
<1>4. ASSUME k \in DecodeIds(table) PROVE \E s : IntmapFind(table, k) = {s}
  <2>1. PICK s \in table.taken : table.keys[s] = k
    BY <1>4 DEF DecodeIds
  <2>2. IntmapFind(table, k) = {s}
    BY <2>1 DEF IntmapFind, Sound, Distinct
  <2> QED
    BY <2>2
<1>5. k \notin DecodeIds(table) => IntmapFind(table, k) = {}
  BY DEF DecodeIds, IntmapFind
<1> QED
  BY <1>3, <1>4, <1>5

LEMMA KeysAreFound == KeysFound
<1> SUFFICES ASSUME NEW list \in KeyLists, NEW hash \in HashFunctions
             PROVE  LET table == BuildSet(list, hash)
                    IN  /\ \A k \in TableKeys \cup {Stranger} :
                             /\ Probed(table, k, hash) = IntmapFind(table, k)
                             /\ Cardinality(IntmapFind(table, k)) =
                                  IF k \in ToSet(list) THEN 1 ELSE 0
                        /\ DecodeIds(table) = ToSet(list)
                        /\ Cardinality(table.taken) = Cardinality(ToSet(list))
  BY DEF KeysFound
<1> DEFINE table == BuildSet(list, hash)
<1>1. Sound(table, hash, SetCapacity(list)) /\ DecodeIds(table) = ToSet(list)
  BY SetSound
<1>2. SetCapacity(list) \in Nat \ {0}
  BY CapacityOfList
<1> HIDE DEF table
<1>3. ASSUME NEW k \in TableKeys \cup {Stranger}
      PROVE  /\ Probed(table, k, hash) = IntmapFind(table, k)
             /\ Cardinality(IntmapFind(table, k)) = IF k \in ToSet(list) THEN 1 ELSE 0
  <2>1. /\ Probed(table, k, hash) = IntmapFind(table, k)
        /\ k \in DecodeIds(table) => \E s : IntmapFind(table, k) = {s}
        /\ k \notin DecodeIds(table) => IntmapFind(table, k) = {}
    BY <1>1, <1>2, SoundFound
  <2> QED
    BY <1>1, <2>1, FS_EmptySet, FS_Singleton
<1>4. Cardinality(table.taken) = Cardinality(ToSet(list))
  BY <1>1, <1>2, SlotsCounted
<1> QED
  BY <1>1, <1>3, <1>4 DEF table

LEMMA SweepsDoAgree == SweepsAgree
<1> SUFFICES ASSUME NEW list \in KeyLists, NEW hash \in HashFunctions, NEW gone \in SUBSET Departed
             PROVE  LET table == BuildSet(list, hash)
                        index == [k \in TableKeys |-> IF k \in gone THEN NoIndex ELSE k]
                    IN  Roster(table, index) =
                          {k \in TableKeys : LookupIndex(table, index, k, hash) # NoIndex}
  BY DEF SweepsAgree
<1> DEFINE table == BuildSet(list, hash)
           index == [k \in TableKeys |-> IF k \in gone THEN NoIndex ELSE k]
<1>1. Sound(table, hash, SetCapacity(list)) /\ DecodeIds(table) = ToSet(list)
  BY SetSound
<1>2. SetCapacity(list) \in Nat \ {0}
  BY CapacityOfList
<1> HIDE DEF table, index
<1>3. ASSUME NEW k \in TableKeys
      PROVE  LookupIndex(table, index, k, hash) =
               IF k \in DecodeIds(table) THEN index[k] ELSE NoIndex
  <2>1. Probed(table, k, hash) = {} <=> k \notin DecodeIds(table)
    BY <1>1, <1>2, SoundFound
  <2> QED
    BY <2>1 DEF LookupIndex
<1>4. DecodeIds(table) \subseteq TableKeys
  BY <1>1 DEF Sound
<1>5. Roster(table, index) = {k \in TableKeys : LookupIndex(table, index, k, hash) # NoIndex}
  BY <1>3, <1>4 DEF Roster
<1> QED
  BY <1>5 DEF table, index

\* The game finds exactly the species of the set that a tick is about to
\* apply, the client's readers of the game's tables agree, and sets keep a
\* free slot: for any keys, any hash and any lists of up to 45875 keys.
THEOREM SetsAreFound == Spec => []SetsFound
<1>1. SetsFound
  BY RoomIsLeft, KeysAreFound, SweepsDoAgree DEF SetsFound
<1> QED
  BY <1>1, PTL
=============================================================================
