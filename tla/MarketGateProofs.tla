-------------------------- MODULE MarketGateProofs --------------------------
(***************************************************************************)
(* Proofs about MarketGate: types, that the engine neither follows a       *)
(* dangling include-set nor frees what is not its own, and that the set    *)
(* that counts as applied is in force.                                     *)
(***************************************************************************)
EXTENDS MarketGate, TLAPS

\* The condition of the two safety theorems: shutdown waits for a worker inside
\* apply_unlocked of the gate it restores, the orphan check and the capture
\* succeed, a restore fails as a whole, and not after an apply_unlocked that
\* failed half-way.
Careful == /\ Races = {} /\ Faults \cap {"check", "capture", "partial"} = {}
           /\ ~({"write", "restore"} \subseteq Faults)

-----------------------------------------------------------------------------
(* The inductive invariant.                                                *)

\* What a step reads is there.
Present ==
  /\ pc \in {"prepare", "blob", "point", "on", "fill"} => wanted # None
  /\ pc \in {"blob", "point", "on"} => job.addr # None /\ job.buf # None

TypeInv == TypeOK /\ Present

Up == mode # "down"

\* What the include-set holds is the engine's.
Native(g) == inc[g].ptr \in {Null, Own}

\* The worker is between the capture of the original and the redirection.
Redirecting(g) == pc \in {"blob", "point"} /\ job.gate = g

\* Without a park there is no include-set, and nobody is inside a tick.
Engine ==
  /\ ~Loaded => \A g \in Gates : inc[g].ptr = Null
  /\ freed # {} => ~Loaded
  /\ Up /\ (pc # "idle" \/ was) => Loaded

\* The phase of the worker and what _session_was_active says of it.
Phases ==
  /\ mode \in {"exit", "down"} => pc = "idle"
  /\ Up => /\ pc \in {"read", "prepare", "blob", "point", "on", "fill"} => was
           /\ pc = "unload" => ~was

\* A gate's block is allocated, its own, and pointed at by its market only.
Buffers ==
  Up => /\ \A g \in Gates : buffer[g] # None => buffer[g] \in mapped
        /\ \A g, h \in Gates : buffer[g] # None /\ buffer[g] = buffer[h] => g = h
        /\ \A g, h \in Gates : buffer[h] # None /\ inc[g].ptr = buffer[h] => g = h
        /\ pc \in {"blob", "point"} => job.buf = buffer[job.gate]

\* The original kept for the loaded park's manager is the engine's, and it is
\* kept exactly while the market is redirected, if no write fails.
Originals ==
  Up => \A g \in Gates :
        /\ SameManager(g) => orig[g].ptr \in {Null, Own}
        /\ "write" \notin Faults /\ SameManager(g) /\ ~Redirecting(g) => inc[g].ptr \in Blocks
        /\ checked[g] /\ Loaded => Native(g) \/ SameManager(g)

\* A cached manager is the gated one; one of an earlier park says that this
\* park was loaded under this client.
Managers ==
  Up => /\ \A g \in Gates :
             /\ orig[g] # None /\ Loaded =>
                  mgr[g] = orig[g].mgr \/ (mgr[g] = None /\ Hits(orig[g].mgr))
             /\ ~checked[g] /\ Loaded /\ mgr[g] # None /\ ~Hits(mgr[g]) => Native(g)
        /\ pc \in {"blob", "point", "on"} =>
             /\ checked[job.gate] /\ orig[job.gate] # None
             /\ job.addr = orig[job.gate].mgr

\* Once the client has noticed that the park is being left, an original is
\* kept only where the restore failed.
Released(g) == ~was /\ (pc = "idle" \/ (pc = "unload" /\ job.gate = "exhibit" /\ g = "habitat"))
Departure ==
  /\ "restore" \notin Faults => spoilt = {}
  /\ Up /\ freed = {} =>
       \A g \in Gates : Released(g) /\ orig[g] # None => SameManager(g) /\ g \in spoilt

\* A client that has ended leaves no block behind, except where it could not
\* write, or one it never looked at.
ShutDown(g) == mode = "down" \/ (mode = "exit" /\ (turn = None \/ (turn = "exhibit" /\ g = "habitat")))
Farewell ==
  \A g \in Gates : ShutDown(g) /\ checked[g] /\ Loaded => Native(g) \/ g \in spoilt

IInv == /\ TypeInv /\ NoDangling /\ NoForeignFree
        /\ Engine /\ Phases /\ Buffers /\ Originals /\ Managers /\ Departure /\ Farewell

-----------------------------------------------------------------------------
(* Types.                                                                  *)

LEMMA NoJobType == NoJob \in [gate : Gates, addr : Addrs \cup {None}, buf : Blocks \cup {None}]
  BY DEF NoJob, Gates

LEMMA InitTypes == Init => TypeInv
  <1>1. Null \in Pointers
    BY BoundsAssumption DEF Pointers, Null
  <1>2. [ptr |-> Null, on |-> FALSE] \in [ptr : Pointers, on : BOOLEAN]
    BY <1>1
  <1>3. SUFFICES ASSUME Init PROVE TypeInv
    OBVIOUS
  <1>4. inc \in [Gates -> [ptr : Pointers, on : BOOLEAN]]
    BY <1>2, <1>3 DEF Init
  <1>5. /\ park \in Parks \cup {None} /\ known \in Sets /\ spoilt \in SUBSET Gates
        /\ freed \in SUBSET [ptr : Pointers, excused : BOOLEAN] /\ parks \in 0..MaxParks
        /\ mapped \in SUBSET Blocks /\ content \in [Blocks -> Sets] /\ unlocked \in Sets
        /\ runs \in 0..MaxRuns
    BY <1>3, BoundsAssumption DEF Init, Sets
  <1>6. /\ mode \in {"up", "close", "exit", "down"} /\ turn \in Gates \cup {None}
        /\ pc \in Labels /\ was \in BOOLEAN
        /\ job \in [gate : Gates, addr : Addrs \cup {None}, buf : Blocks \cup {None}]
        /\ wanted \in Wanted \cup {None} /\ marked \in Wanted \cup {None}
    BY <1>3, NoJobType DEF Init, Labels
  <1>7. /\ buffer \in [Gates -> Blocks \cup {None}] /\ orig \in [Gates -> Origs \cup {None}]
        /\ mgr \in [Gates -> Addrs \cup {None}] /\ checked \in [Gates -> BOOLEAN]
    BY <1>3 DEF Init
  <1>. QED
    BY <1>3, <1>4, <1>5, <1>6, <1>7 DEF TypeInv, TypeOK, Present, Init

\* What the helpers of the actions return.
LEMMA Values ==
  ASSUME TypeInv
  PROVE  /\ \A g \in Gates : Manager(g) \in Addrs \cup {None}
         /\ Loaded => Own \in Pointers
         /\ Images \subseteq [ptr : Pointers, on : BOOLEAN]
         /\ \A g \in Gates : \A i \in [ptr : Pointers, on : BOOLEAN] :
              Neutralize(g, i) \in [ptr : Pointers, on : BOOLEAN]
         /\ \A g \in Gates : \A i \in [ptr : Pointers, on : BOOLEAN] :
              Looked(g, i) \subseteq [ptr : Pointers, on : BOOLEAN]
         /\ \A g \in Gates : \A out : RestoreInc(g, out) \in [Gates -> [ptr : Pointers, on : BOOLEAN]]
         /\ \A g \in Gates : \A out : RestoreOrig(g, out) \in [Gates -> Origs \cup {None}]
         /\ \A g \in Gates : \A out : Spoil(g, out) \in SUBSET Gates
  <1>. USE DEF TypeInv, TypeOK
  <1>1. \A g \in Gates : Manager(g) \in Addrs \cup {None}
    BY DEF Manager, Resolved, Loaded, Parks
  <1>2. Loaded => Own \in Pointers
    BY BoundsAssumption DEF Loaded, Own, Parks, Pointers
  <1>3. Null \in Pointers
    BY BoundsAssumption DEF Null, Pointers
  <1>4. /\ Images \subseteq [ptr : Pointers, on : BOOLEAN]
        /\ \A g \in Gates : \A i \in [ptr : Pointers, on : BOOLEAN] :
             Neutralize(g, i) \in [ptr : Pointers, on : BOOLEAN]
    BY <1>3 DEF Images, Neutralize
  <1>6. ASSUME NEW g \in Gates, NEW i \in [ptr : Pointers, on : BOOLEAN]
        PROVE  Looked(g, i) \subseteq [ptr : Pointers, on : BOOLEAN]
    <2>1. Neutralize(g, i) \in [ptr : Pointers, on : BOOLEAN]
      BY <1>4
    <2>2. [Neutralize(g, i) EXCEPT !.on = i.on] \in [ptr : Pointers, on : BOOLEAN]
      BY <2>1
    <2>. QED
      BY <2>1, <2>2 DEF Looked
  <1>5. ASSUME NEW g \in Gates, NEW out
        PROVE  /\ RestoreInc(g, out) \in [Gates -> [ptr : Pointers, on : BOOLEAN]]
               /\ RestoreOrig(g, out) \in [Gates -> Origs \cup {None}]
               /\ Spoil(g, out) \in SUBSET Gates
    <2>1. SameManager(g) => orig[g].ptr \in Pointers /\ orig[g].on \in BOOLEAN
      BY <1>5 DEF SameManager, Origs
    <2>. QED
      BY <1>5, <2>1 DEF RestoreInc, RestoreOrig, Spoil
  <1>. QED
    BY <1>1, <1>2, <1>4, <1>5, <1>6

\* A step of the game or of the server.
LEMMA OutsideTypes ==
  ASSUME TypeInv, Game \/ Server
  PROVE  TypeInv'
  <1>. USE DEF TypeInv, TypeOK, Present, tickVars, gateVars, lifeVars, blockVars
  <1>1. CASE LoadPark
    <2>1. parks' \in 1..MaxParks /\ parks' \in Pointers /\ Null \in Pointers
      BY <1>1, BoundsAssumption DEF LoadPark, Pointers, Null
    <2>. QED
      BY <1>1, <2>1 DEF LoadPark, Parks, Sets
  <1>2. CASE Learn
    BY <1>2 DEF Learn, Sets
  <1>3. CASE Leave
    BY <1>3, NoneAssumption DEF Leave, Playing, Loaded, Parks
  <1>4. CASE Teardown
    <2>1. Null \in Pointers
      BY BoundsAssumption DEF Pointers, Null
    <2>2. freed' \in SUBSET [ptr : Pointers, excused : BOOLEAN]
      <3>1. \A g \in Gates : [ptr |-> inc[g].ptr, excused |-> ByClient(inc[g].ptr) /\ (~checked[g] \/ g \in spoilt)]
                               \in [ptr : Pointers, excused : BOOLEAN]
        BY DEF ByClient
      <3>2. SUFFICES ASSUME NEW f \in freed' PROVE f \in [ptr : Pointers, excused : BOOLEAN]
        OBVIOUS
      <3>3. freed' = {[ptr |-> inc[g].ptr, excused |-> ByClient(inc[g].ptr) /\ (~checked[g] \/ g \in spoilt)]
                       : g \in {h \in Gates : inc[h].ptr \notin {Null, Own}}}
        BY <1>4 DEF Teardown
      <3>4. PICK g \in Gates :
              f = [ptr |-> inc[g].ptr, excused |-> ByClient(inc[g].ptr) /\ (~checked[g] \/ g \in spoilt)]
        BY <3>2, <3>3, Zenon
      <3>. QED
        BY <3>1, <3>4, Zenon
    <2>. QED
      BY <1>4, <2>1, <2>2 DEF Teardown, Sets
  <1>5. CASE Unlock
    BY <1>5 DEF Unlock, Sets, engineVars
  <1>6. CASE Reconnect
    BY <1>6 DEF Reconnect, Sets, engineVars
  <1>. QED
    BY <1>1, <1>2, <1>3, <1>4, <1>5, <1>6 DEF Game, Server

\* A step of the tick.
LEMMA TickTypes ==
  ASSUME TypeInv, Tick
  PROVE  TypeInv'
  <1>. USE DEF TypeInv, TypeOK, Present, engineVars, blockVars, lifeVars, gateVars, Goto, Gates, Labels
  <1>1. CASE BeginTick
    BY <1>1, NoJobType, Values DEF BeginTick
  <1>2. CASE Read
    BY <1>2, Values, NoneAssumption DEF Read, Wanted, Sets
  <1>3. CASE Refuse
    BY <1>3, Values DEF Refuse, Fail
  <1>4. CASE Prepare
    <2>a. PICK b \in Room(job.gate) :
            /\ job' = [job EXCEPT !.addr = Manager(job.gate), !.buf = b]
            /\ buffer' = [buffer EXCEPT ![job.gate] = b]
            /\ mapped' = mapped \cup {b}
            /\ content' = [content EXCEPT ![b] = IF b \in mapped THEN @ ELSE {}]
      BY <1>4 DEF Prepare
    <2>b. PICK seen \in (IF Hits(Manager(job.gate)) THEN {inc[job.gate]} ELSE Images) :
          \E i \in Looked(job.gate, seen) :
            /\ inc' = IF Hits(Manager(job.gate)) THEN [inc EXCEPT ![job.gate] = i] ELSE inc
            /\ orig' \in Captured(job.gate, Manager(job.gate), i)
      BY <1>4 DEF Prepare
    <2>c. PICK i \in Looked(job.gate, seen) :
            /\ inc' = IF Hits(Manager(job.gate)) THEN [inc EXCEPT ![job.gate] = i] ELSE inc
            /\ orig' \in Captured(job.gate, Manager(job.gate), i)
      BY <2>b
    <2>1. job.gate \in Gates /\ Manager(job.gate) \in Addrs /\ Manager(job.gate) # None
      BY <1>4, Values DEF Prepare
    <2>2. b \in Blocks /\ b # None
      BY <2>1, PlacesAssumption DEF Room
    <2>3. i \in [ptr : Pointers, on : BOOLEAN]
      <3>1. seen \in [ptr : Pointers, on : BOOLEAN]
        BY <2>1, Values
      <3>. QED
        BY <2>1, <3>1, Values DEF Looked
    <2>5. orig' \in [Gates -> Origs \cup {None}] /\ inc' \in [Gates -> [ptr : Pointers, on : BOOLEAN]]
      <3>1. [mgr |-> Manager(job.gate), ptr |-> i.ptr, on |-> i.on] \in Origs
        BY <2>1, <2>3 DEF Origs
      <3>. QED
        BY <2>c, <2>1, <2>3, <3>1 DEF Captured
    <2>6. job' \in [gate : Gates, addr : Addrs \cup {None}, buf : Blocks \cup {None}]
          /\ job'.addr # None /\ job'.buf # None
      BY <2>a, <2>1, <2>2
    <2>7. content' \in [Blocks -> Sets] /\ mapped' \in SUBSET Blocks /\ buffer' \in [Gates -> Blocks \cup {None}]
      BY <2>a, <2>1, <2>2 DEF Sets
    <2>. QED
      BY <1>4, <2>1, <2>5, <2>6, <2>7 DEF Prepare
  <1>5. CASE WriteBlob
    <2>1. wanted.ids \in Sets
      BY <1>5 DEF WriteBlob, Wanted
    <2>. QED
      BY <1>5, <2>1 DEF WriteBlob, Fail
  <1>6. CASE Point
    BY <1>6 DEF Point, Fail, Pointers
  <1>7. CASE SwitchOn
    <2>1. inc' \in [Gates -> [ptr : Pointers, on : BOOLEAN]]
      <3>1. [inc[job.gate] EXCEPT !.on = TRUE] \in [ptr : Pointers, on : BOOLEAN]
        BY ZenonT(60)
      <3>2. PICK i \in [ptr : Pointers, on : BOOLEAN] : inc' = [inc EXCEPT ![job.gate] = i] \/ inc' = inc
        BY <1>7, <3>1 DEF SwitchOn
      <3>3. \A j \in [ptr : Pointers, on : BOOLEAN] :
              [inc EXCEPT ![job.gate] = j] \in [Gates -> [ptr : Pointers, on : BOOLEAN]]
        OBVIOUS
      <3>. QED
        BY <3>2, <3>3
    <2>2. marked' \in Wanted \cup {None} /\ pc' \in {"prepare", "fill"}
      BY <1>7 DEF SwitchOn, Fail, Succeed
    <2>3. job' \in [gate : Gates, addr : Addrs \cup {None}, buf : Blocks \cup {None}]
      BY <1>7 DEF SwitchOn, Fail, Succeed, Take
    <2>. QED
      BY <1>7, <2>1, <2>2, <2>3 DEF SwitchOn
  <1>8. CASE Fill
    BY <1>8, Values DEF Fill
  <1>9. CASE Unload
    BY <1>9, Values DEF Unload, Take, DropManager
  <1>. QED
    BY <1>1, <1>2, <1>3, <1>4, <1>5, <1>6, <1>7, <1>8, <1>9 DEF Tick, Apply

\* A step in the life of the client process.
LEMMA LifeTypes ==
  ASSUME TypeInv, Life
  PROVE  TypeInv'
  <1>. USE DEF TypeInv, TypeOK, Present, engineVars, blockVars, tickVars, gateVars, Goto, Gates, Labels
  <1>1. CASE Start
    <2>1. /\ buffer' \in [Gates -> Blocks \cup {None}] /\ orig' \in [Gates -> Origs \cup {None}]
          /\ mgr' \in [Gates -> Addrs \cup {None}] /\ checked' \in [Gates -> BOOLEAN]
      BY <1>1 DEF Start
    <2>2. /\ mode' = "up" /\ turn' = None /\ pc' = "idle" /\ was' = FALSE /\ unlocked' = {}
          /\ job' = NoJob /\ wanted' = None /\ marked' = None
      BY <1>1 DEF Start
    <2>3. runs' \in 0..MaxRuns
      BY <1>1, BoundsAssumption DEF Start
    <2>4. unlocked' \in Sets
      BY <2>2 DEF Sets
    <2>. QED
      BY <1>1, <2>1, <2>2, <2>3, <2>4, NoJobType DEF Start
  <1>2. CASE Kill
    BY <1>2 DEF Kill
  <1>3. CASE Close
    BY <1>3 DEF Close
  <1>4. CASE ShutdownGate
    <2>1. turn \in Gates
      BY <1>4 DEF ShutdownGate
    <2>. QED
      BY <1>4, <2>1, Values DEF ShutdownGate, DropManager
  <1>5. CASE ExitRound
    BY <1>5 DEF ExitRound
  <1>6. CASE Exit
    BY <1>6 DEF Exit
  <1>. QED
    BY <1>1, <1>2, <1>3, <1>4, <1>5, <1>6 DEF Life

LEMMA NextTypes == TypeInv /\ [Next]_vars => TypeInv'
  <1>1. TypeInv /\ UNCHANGED vars => TypeInv'
    BY DEF TypeInv, TypeOK, Present, vars, engineVars, blockVars, tickVars, gateVars, lifeVars
  <1>. QED
    BY <1>1, OutsideTypes, TickTypes, LifeTypes DEF Next

\* The worker never uses a manager, a block or a set that may not be there,
\* whatever fails and however shutdown meets the tick.
THEOREM TypeCorrect == Spec => []TypeOK
  <1>1. Init => TypeInv
    BY InitTypes
  <1>2. TypeInv /\ [Next]_vars => TypeInv'
    BY NextTypes
  <1>3. TypeInv => TypeOK
    BY DEF TypeInv
  <1>. QED
    BY <1>1, <1>2, <1>3, PTL DEF Spec

-----------------------------------------------------------------------------
(* The initial state, and the steps that change nothing of the ownership.  *)

LEMMA Places ==
  ASSUME TypeInv
  PROVE  /\ Null \notin Blocks /\ None \notin Blocks /\ None \notin Addrs
         /\ Loaded => Own \notin Blocks /\ Own # Null /\ park.addr \in Addrs
         /\ mapped \subseteq Blocks
  <1>1. Loaded => Own \in Nat /\ Own # 0 /\ park.addr \in Addrs
    BY BoundsAssumption DEF TypeInv, TypeOK, Loaded, Own, Parks
  <1>. QED
    BY <1>1, PlacesAssumption DEF TypeInv, TypeOK, Null

LEMMA InitInv == Init => IInv
  <1>. SUFFICES ASSUME Init PROVE IInv
    OBVIOUS
  <1>1. TypeInv
    BY InitTypes
  <1>2. NoDangling /\ NoForeignFree /\ Engine
    BY DEF Init, NoDangling, NoForeignFree, Engine, Loaded, Up
  <1>3. Phases /\ Buffers /\ Originals /\ Managers /\ Departure
    BY DEF Init, Phases, Buffers, Originals, Managers, Departure, Up
  <1>4. Farewell
    BY DEF Init, Farewell, Loaded
  <1>. QED
    BY <1>1, <1>2, <1>3, <1>4 DEF IInv

\* The player leaves, the research map loads, items come and go.
LEMMA QuietKeeps ==
  ASSUME IInv, TypeInv', Learn \/ Leave \/ Server
  PROVE  IInv'
  <1>1. /\ Loaded' = Loaded /\ (Loaded => Own' = Own)
        /\ \A m : Hits(m)' = Hits(m)
        /\ UNCHANGED <<inc, freed, spoilt, blockVars, tickVars, gateVars, lifeVars>>
    <2>1. CASE Learn
      BY <2>1 DEF Learn, Loaded, Own, Hits
    <2>2. CASE Leave
      <3>1. park \in Parks /\ park' \in Parks /\ park'.n = park.n /\ park'.addr = park.addr
        BY <2>2 DEF Leave, Playing, Loaded, IInv, TypeInv, TypeOK, Parks
      <3>. QED
        BY <2>2, <3>1, NoneAssumption DEF Leave, Playing, Loaded, Own, Hits
    <2>3. CASE Server
      BY <2>3 DEF Server, Unlock, Reconnect, engineVars, Loaded, Own, Hits
    <2>. QED
      BY <2>1, <2>2, <2>3
  <1>. USE <1>1 DEF IInv, blockVars, tickVars, gateVars, lifeVars
  <1>2. NoDangling' /\ NoForeignFree' /\ Engine'
    BY DEF NoDangling, NoForeignFree, Engine, Up
  <1>3. Phases' /\ Buffers'
    BY DEF Phases, Buffers, Up
  <1>4. Originals' /\ Managers'
    <2>1. \A g \in Gates : /\ SameManager(g)' = SameManager(g) /\ Native(g)' \in BOOLEAN
                           /\ Redirecting(g)' = Redirecting(g) /\ (Loaded => Native(g)' = Native(g))
      BY DEF SameManager, Redirecting, Native
    <2>2. Originals'
      BY <2>1 DEF Originals, Up, SameManager, Hits
    <2>3. Managers'
      BY <2>1 DEF Managers, Up
    <2>. QED
      BY <2>2, <2>3
  <1>5. Departure' /\ Farewell'
    BY DEF Departure, Released, SameManager, Farewell, ShutDown, Native, Up
  <1>. QED
    BY <1>2, <1>3, <1>4, <1>5

-----------------------------------------------------------------------------
(* The engine.                                                             *)

\* Under a client that is up nothing is kept of an earlier park.
LEMMA NoOrphans ==
  ASSUME IInv, ~Loaded, freed = {}, Up
  PROVE  \A g \in Gates : orig[g] = None
  BY DEF IInv, Engine, Departure, Released, SameManager, Hits

LEMMA LoadKeeps ==
  ASSUME IInv, TypeInv', LoadPark
  PROVE  IInv'
  <1>. USE DEF IInv, blockVars, tickVars, gateVars, lifeVars
  <1>1. PICK p \in {Null, parks'} :
          /\ p \in Nat /\ Loaded' /\ Own' = parks'
          /\ inc' = [g \in Gates |-> [ptr |-> p, on |-> FALSE]]
    <2>1. parks' \in 1..MaxParks
      BY BoundsAssumption DEF LoadPark, TypeInv, TypeOK
    <2>2. PICK a \in Addrs, phase \in {"ap", "other"}, p \in {Null, parks'} :
            /\ park' = [n |-> parks', addr |-> a, phase |-> phase]
            /\ inc' = [g \in Gates |-> [ptr |-> p, on |-> FALSE]]
      BY DEF LoadPark
    <2>3. park' \in Parks
      BY <2>1, <2>2 DEF Parks
    <2>4. Loaded'
      BY <2>3, NoneAssumption DEF Loaded
    <2>5. Own' = parks'
      BY <2>2 DEF Own
    <2>6. p \in Nat
      BY <2>1, BoundsAssumption DEF Null
    <2>. QED
      BY <2>2, <2>4, <2>5, <2>6
  <1>2. \A g \in Gates : inc'[g].ptr \in {Null, Own'}
    BY <1>1
  <1>3. /\ UNCHANGED <<freed, blockVars, tickVars, gateVars, lifeVars>>
        /\ ~Loaded /\ freed = {}
    BY DEF LoadPark
  <1>4. Up => pc = "idle" /\ ~was /\ \A g \in Gates : orig[g] = None
    BY <1>3, NoOrphans DEF Engine
  <1>5. \A g \in Gates : inc'[g].ptr \notin Blocks
    BY <1>1, PlacesAssumption
  <1>6. NoDangling' /\ NoForeignFree' /\ Engine'
    BY <1>1, <1>2, <1>3 DEF NoDangling, NoForeignFree, Engine, Null
  <1>7. Phases' /\ Buffers'
    BY <1>3, <1>4, <1>5 DEF Phases, Buffers, Up, TypeInv, TypeOK
  <1>8. Originals' /\ Managers'
    BY <1>2, <1>3, <1>4 DEF Originals, Managers, SameManager, Native, Up, Null
  <1>9. Departure' /\ Farewell'
    BY <1>2, <1>3, <1>4 DEF Departure, Farewell, Native, Up, Null, LoadPark
  <1>. QED
    BY <1>6, <1>7, <1>8, <1>9

\* The one step that frees: what it frees is excused.
LEMMA TeardownKeeps ==
  ASSUME Careful, IInv, TypeInv', Teardown
  PROVE  IInv'
  <1>. USE DEF IInv
  <1>1. /\ ~Loaded' /\ Loaded /\ Noticed /\ freed = {}
        /\ \A g \in Gates : inc'[g].ptr = Null
        /\ UNCHANGED <<spoilt, blockVars, tickVars, gateVars, lifeVars>>
    BY DEF Teardown, Loaded, Engine
  <1>2. ASSUME NEW g \in Gates, inc[g].ptr \notin {Null, Own}
        PROVE  ByClient(inc[g].ptr) /\ (~checked[g] \/ g \in spoilt)
    <2>1. ByClient(inc[g].ptr)
      BY <1>1, <1>2, Places DEF NoDangling, ByClient
    <2>2. CASE mode = "down"
      BY <1>1, <1>2, <2>1, <2>2 DEF Farewell, ShutDown, Native
    <2>3. CASE Up /\ pc = "idle" /\ ~was
      BY <1>1, <1>2, <2>1, <2>3 DEF Originals, Departure, Released, Native, SameManager
    <2>. QED
      BY <1>1, <2>1, <2>2, <2>3 DEF Noticed, Up
  <1>3. NoForeignFree'
    <2>1. SUFFICES ASSUME NEW f \in freed' PROVE f.excused
      BY DEF NoForeignFree
    <2>2. freed' = {[ptr |-> inc[g].ptr, excused |-> ByClient(inc[g].ptr) /\ (~checked[g] \/ g \in spoilt)]
                       : g \in {h \in Gates : inc[h].ptr \notin {Null, Own}}}
      BY DEF Teardown
    <2>3. PICK g \in {h \in Gates : inc[h].ptr \notin {Null, Own}} :
            f = [ptr |-> inc[g].ptr, excused |-> ByClient(inc[g].ptr) /\ (~checked[g] \/ g \in spoilt)]
      BY <2>1, <2>2, Zenon
    <2>. QED
      BY <1>2, <2>3, Zenon
  <1>4. ASSUME NEW g \in Gates, Up, orig[g] # None
        PROVE  freed' # {}
    <2>1. inc[g].ptr \in Blocks
      BY <1>1, <1>4 DEF Careful, Noticed, Up, Departure, Released, Originals, Redirecting
    <2>2. inc[g].ptr \notin {Null, Own}
      BY <1>1, <2>1, Places
    <2>. QED
      BY <2>2 DEF Teardown
  <1>5. NoDangling' /\ Engine'
    BY <1>1 DEF NoDangling, Engine, Noticed, Up, tickVars, lifeVars
  <1>6. Phases' /\ Buffers'
    BY <1>1, Places DEF Phases, Buffers, Up, tickVars, lifeVars, gateVars, blockVars, TypeInv, TypeOK, Noticed
  <1>7. Originals' /\ Managers'
    BY <1>1 DEF Originals, Managers, SameManager, Hits, Noticed, Up, tickVars, lifeVars, gateVars
  <1>8. Departure' /\ Farewell'
    BY <1>1, <1>4 DEF Departure, Farewell, Up, gateVars, lifeVars
  <1>. QED
    BY <1>3, <1>5, <1>6, <1>7, <1>8

-----------------------------------------------------------------------------
(* The tick: looking.                                                      *)

\* What resolving a manager may leave in the cache.
LEMMA Cached ==
  ASSUME IInv, Up, Loaded, NEW g \in Gates, NEW m \in {mgr[g], Manager(g)}
  PROVE  /\ orig[g] # None => m = orig[g].mgr \/ (m = None /\ Hits(orig[g].mgr))
         /\ ~checked[g] /\ m # None /\ ~Hits(m) => Native(g)
  <1>1. m = mgr[g] \/ (mgr[g] = None /\ m = park.addr)
    BY DEF Manager, Resolved
  <1>2. /\ orig[g] # None => mgr[g] = orig[g].mgr \/ (mgr[g] = None /\ Hits(orig[g].mgr))
        /\ ~checked[g] /\ mgr[g] # None /\ ~Hits(mgr[g]) => Native(g)
    BY DEF IInv, Managers
  <1>3. orig[g] # None => orig[g].mgr # None
    BY PlacesAssumption DEF IInv, TypeInv, TypeOK, Origs
  <1>. QED
    BY <1>1, <1>2, <1>3 DEF Hits

\* The steps that only look, resolve and decide.
LEMMA LookKeeps ==
  ASSUME IInv, TypeInv', Up, BeginTick \/ Read \/ Refuse \/ Fill
  PROVE  IInv'
  <1>. USE DEF IInv, engineVars, blockVars, lifeVars
  <1>1. /\ UNCHANGED <<park, inc, freed, spoilt, blockVars, buffer, orig, checked, lifeVars>>
        /\ pc \in {"idle", "read", "prepare", "fill"}
        /\ pc' \in {"idle", "read", "unload", "prepare", "fill"}
        /\ \A g \in Gates : mgr'[g] \in {mgr[g], Manager(g)}
    <2>. USE DEF TypeInv, TypeOK, Goto, gateVars
    <2>1. CASE BeginTick
      BY <2>1 DEF BeginTick
    <2>2. CASE Read
      BY <2>2 DEF Read
    <2>3. CASE Refuse
      BY <2>3 DEF Refuse, Fail
    <2>4. CASE Fill
      BY <2>4 DEF Fill
    <2>. QED
      BY <2>1, <2>2, <2>3, <2>4
  <1>2. /\ mode' = "exit" => pc' = "idle"
        /\ pc' # "idle" \/ was' => Loaded'
        /\ pc' \in {"read", "prepare", "fill"} => was'
        /\ pc' = "unload" => ~was' /\ job'.gate = "habitat"
        /\ pc' = "idle" /\ ~was' => pc = "idle" /\ ~was
    <2>1. CASE BeginTick
      BY <2>1 DEF BeginTick, Engine, Playing, Loaded, Goto, NoJob, Up
    <2>2. CASE Read
      BY <2>2, <1>1 DEF Read, Engine, Phases, Goto, Loaded
    <2>3. CASE Refuse
      BY <2>3, <1>1 DEF Refuse, Fail, Engine, Phases, Goto, Loaded
    <2>4. CASE Fill
      BY <2>4, <1>1 DEF Fill, Engine, Phases, Goto, Loaded
    <2>. QED
      BY <2>1, <2>2, <2>3, <2>4
  <1>3. NoDangling' /\ NoForeignFree' /\ Engine' /\ Phases' /\ Buffers'
    BY <1>1, <1>2 DEF NoDangling, NoForeignFree, Engine, Phases, Buffers, Loaded, Own, Up
  <1>4. Originals'
    BY <1>1 DEF Originals, SameManager, Hits, Native, Loaded, Own, Redirecting, Up
  <1>5. Managers'
    BY <1>1, Cached DEF Managers, Hits, Native, Loaded, Own, Up
  <1>6. Departure' /\ Farewell'
    BY <1>1, <1>2 DEF Departure, Released, SameManager, Hits, Farewell, ShutDown, Native, Loaded, Own, Up
  <1>. QED
    BY <1>3, <1>4, <1>5, <1>6

-----------------------------------------------------------------------------
(* The tick: gating.                                                       *)

\* The original that is captured is the engine's.
LEMMA PrepareKeeps ==
  ASSUME Careful, IInv, TypeInv', Up, Prepare
  PROVE  IInv'
  <1>. USE DEF IInv
  <1>. DEFINE g == job.gate
              m == Manager(g)
  <1>1. PICK b \in Room(g), seen \in (IF Hits(m) THEN {inc[g]} ELSE Images) :
          /\ job' = [job EXCEPT !.addr = m, !.buf = b]
          /\ buffer' = [buffer EXCEPT ![g] = b]
          /\ mapped' = mapped \cup {b}
          /\ inc' = IF Hits(m) THEN [inc EXCEPT ![g] = Neutralize(g, seen)] ELSE inc
          /\ orig' = IF orig[g] # None THEN orig
                     ELSE [orig EXCEPT ![g] = [mgr |-> m, ptr |-> Neutralize(g, seen).ptr,
                                               on |-> Neutralize(g, seen).on]]
    <2>1. \A seen : Looked(g, seen) = {Neutralize(g, seen)}
      BY DEF Looked, Careful
    <2>2. \A i : orig' \in Captured(g, m, i) =>
             orig' = IF orig[g] # None THEN orig
                     ELSE [orig EXCEPT ![g] = [mgr |-> m, ptr |-> i.ptr, on |-> i.on]]
      BY DEF Captured, Careful
    <2>3. PICK seen \in (IF Hits(m) THEN {inc[g]} ELSE Images) :
            /\ inc' = IF Hits(m) THEN [inc EXCEPT ![g] = Neutralize(g, seen)] ELSE inc
            /\ orig' \in Captured(g, m, Neutralize(g, seen))
      BY <2>1 DEF Prepare
    <2>4. PICK b \in Room(g) :
            /\ job' = [job EXCEPT !.addr = m, !.buf = b]
            /\ buffer' = [buffer EXCEPT ![g] = b]
            /\ mapped' = mapped \cup {b}
      BY DEF Prepare
    <2>. QED
      BY <2>2, <2>3, <2>4
  <1>2. /\ pc = "prepare" /\ pc' = "blob" /\ m # None /\ g \in Gates
        /\ mgr' = [mgr EXCEPT ![g] = m] /\ checked' = [checked EXCEPT ![g] = TRUE]
        /\ UNCHANGED <<park, freed, spoilt, was, lifeVars>>
        /\ Loaded /\ was /\ mode # "exit" /\ freed = {}
    BY DEF Prepare, Goto, TypeInv, TypeOK, Engine, Phases, lifeVars
  <1>3. /\ Loaded' /\ Own' = Own /\ Up' /\ job'.gate = g /\ job'.buf = b /\ job'.addr = m
        /\ \A a : Hits(a)' = Hits(a)
    BY <1>1, <1>2 DEF Loaded, Own, Up, Hits, TypeInv, TypeOK, lifeVars
  <1>4. /\ b \in Blocks /\ b # None
        /\ b = buffer[g] \/ (buffer[g] = None /\ b \notin mapped)
    BY <1>2, Places DEF Room, TypeInv, TypeOK
  <1>5. Hits(m) => inc'[g].ptr \in {Null, Own} \/ (inc'[g].ptr = inc[g].ptr /\ SameManager(g))
    <2>1. CASE checked[g]
      BY <1>1, <1>2, <2>1 DEF Neutralize, Originals, Native, TypeInv, TypeOK
    <2>2. CASE ~checked[g]
      BY <1>1, <1>2, <2>2 DEF Neutralize, NoDangling, TypeInv, TypeOK
    <2>. QED
      BY <2>1, <2>2
  <1>6. ~Hits(m) => inc' = inc /\ (Native(g) \/ SameManager(g))
    BY <1>1, <1>2, Cached DEF Originals
  <1>7. \A h \in Gates \ {g} : inc'[h] = inc[h] /\ orig'[h] = orig[h] /\ buffer'[h] = buffer[h]
                              /\ mgr'[h] = mgr[h] /\ checked'[h] = checked[h]
    BY <1>1, <1>2 DEF TypeInv, TypeOK
  <1>8. /\ buffer'[g] = b /\ mgr'[g] = m /\ checked'[g] /\ orig'[g] # None
        /\ \/ orig[g] # None /\ orig'[g] = orig[g]
           \/ orig[g] = None /\ orig'[g].mgr = m /\ (Hits(m) => orig'[g].ptr = inc'[g].ptr)
    <2>1. orig[g] = None => orig'[g] = [mgr |-> m, ptr |-> Neutralize(g, seen).ptr, on |-> Neutralize(g, seen).on]
      BY <1>1, <1>2 DEF TypeInv, TypeOK
    <2>2. m \in Addrs
      BY <1>2, Values
    <2>3. orig[g] = None => orig'[g] # None
      <3>1. [mgr |-> m, ptr |-> Neutralize(g, seen).ptr, on |-> Neutralize(g, seen).on] \in Origs
        <4>1. seen \in [ptr : Pointers, on : BOOLEAN]
          BY <1>2, Values DEF TypeInv, TypeOK
        <4>2. Neutralize(g, seen) \in [ptr : Pointers, on : BOOLEAN]
          BY <1>2, <4>1, Values
        <4>. QED
          BY <2>2, <4>2 DEF Origs
      <3>. QED
        BY <2>1, <3>1, NoneAssumption
    <2>. QED
      BY <1>1, <1>2, <2>1, <2>3 DEF TypeInv, TypeOK
  <1>9. orig[g] # None => m = orig[g].mgr
    BY <1>2, Cached
  <1>10. NoDangling' /\ NoForeignFree' /\ Engine' /\ Phases'
    <2>1. \A h \in Gates : inc'[h].ptr \in mapped' \cup {Null, Own}
      BY <1>1, <1>2, <1>5, <1>6, <1>7 DEF NoDangling
    <2>. QED
      BY <1>2, <1>3, <2>1 DEF NoDangling, NoForeignFree, Engine, Phases, Up, lifeVars
  <1>11. Buffers'
    <2>1. \A h \in Gates : inc[h].ptr = b => b = buffer[g]
      BY <1>4, <1>2, Places DEF NoDangling
    <2>2. \A h \in Gates : inc'[h].ptr = inc[h].ptr \/ inc'[h].ptr \notin Blocks
      BY <1>2, <1>5, <1>6, <1>7, Places
    <2>3. \A h \in Gates : buffer[h] # None => buffer[h] \in mapped /\ buffer[h] \in Blocks
      BY <1>3, Places DEF Buffers
    <2>4. \A h, k \in Gates : buffer'[h] # None /\ buffer'[h] = buffer'[k] => h = k
      BY <1>4, <1>7, <1>8, <2>3 DEF Buffers
    <2>5. \A h, k \in Gates : buffer'[k] # None /\ inc'[h].ptr = buffer'[k] => h = k
      BY <1>4, <1>7, <1>8, <2>1, <2>2, <2>3 DEF Buffers
    <2>. QED
      BY <1>1, <1>3, <1>4, <1>7, <1>8, <2>3, <2>4, <2>5 DEF Buffers
  <1>12. Originals'
    <2>1. SameManager(g)' => orig'[g].ptr \in {Null, Own}
      BY <1>2, <1>3, <1>5, <1>8, <1>9 DEF Originals, SameManager
    <2>2. Native(g)' \/ SameManager(g)'
      BY <1>2, <1>3, <1>5, <1>6, <1>8, <1>9 DEF Native, SameManager
    <2>3. ASSUME NEW h \in Gates \ {g}
          PROVE  /\ SameManager(h)' = SameManager(h) /\ Native(h)' = Native(h)
                 /\ ~Redirecting(h) /\ ~Redirecting(h)'
      BY <1>2, <1>3, <1>7 DEF SameManager, Native, Redirecting
    <2>4. Redirecting(g)'
      BY <1>2, <1>3 DEF Redirecting
    <2>. QED
      BY <1>2, <1>3, <1>7, <2>1, <2>2, <2>3, <2>4 DEF Originals
  <1>13. Managers'
    <2>1. ASSUME NEW h \in Gates \ {g}
          PROVE  Native(h)' = Native(h)
      BY <1>3, <1>7 DEF Native
    <2>2. /\ mgr'[g] = orig'[g].mgr /\ orig'[g] # None /\ checked'[g]
          /\ job'.gate = g /\ job'.addr = orig'[g].mgr
      BY <1>3, <1>8, <1>9
    <2>3. ASSUME NEW h \in Gates \ {g}
          PROVE  /\ orig'[h] # None => mgr'[h] = orig'[h].mgr \/ (mgr'[h] = None /\ Hits(orig[h].mgr)')
                 /\ ~checked'[h] /\ mgr'[h] # None /\ ~Hits(mgr[h])' => Native(h)'
      BY <1>2, <1>7, <2>1 DEF Managers, Hits, Loaded
    <2>. QED
      BY <1>2, <2>2, <2>3 DEF Managers
  <1>14. Departure' /\ Farewell'
    BY <1>2, <1>3 DEF Departure, Released, Farewell, ShutDown, Up, lifeVars
  <1>. QED
    BY <1>10, <1>11, <1>12, <1>13, <1>14

\* A failing write leaves the include-set the engine's or the block's.
LEMMA WriteBlobKeeps ==
  ASSUME IInv, TypeInv', Up, WriteBlob
  PROVE  IInv'
  <1>. USE DEF IInv, engineVars, gateVars, lifeVars
  <1>1. /\ pc = "blob" /\ pc' \in {"point", "fill"} /\ ("write" \notin Faults => pc' = "point")
        /\ job' = job /\ was' = was
        /\ UNCHANGED <<engineVars, mapped, gateVars, lifeVars>>
    <2>1. job.buf \in mapped
      <3>1. WriteBlob => pc = "blob"
        BY DEF WriteBlob
      <3>. QED
        BY <3>1 DEF Buffers, Present, TypeInv, TypeOK
    <2>. QED
      BY <2>1 DEF WriteBlob, Fail, Goto
  <1>2. NoDangling' /\ NoForeignFree' /\ Engine' /\ Phases' /\ Buffers'
    BY <1>1 DEF NoDangling, NoForeignFree, Engine, Phases, Buffers, Loaded, Own, Up
  <1>3. Originals'
    BY <1>1 DEF Originals, SameManager, Hits, Native, Loaded, Own, Redirecting, Up
  <1>4. Managers'
    BY <1>1 DEF Managers, Hits, Native, Loaded, Own, Up
  <1>5. Departure' /\ Farewell'
    BY <1>1 DEF Departure, Released, Farewell, ShutDown, Native, Loaded, Own, Up
  <1>. QED
    BY <1>2, <1>3, <1>4, <1>5

LEMMA PointKeeps ==
  ASSUME IInv, TypeInv', Up, Point
  PROVE  IInv'
  <1>. USE DEF IInv, blockVars, gateVars, lifeVars
  <1>. DEFINE g == job.gate
  <1>1. /\ pc = "point" /\ job' = job /\ was' = was /\ g \in Gates
        /\ \/ inc' = (IF Hits(job.addr) THEN [inc EXCEPT ![g].ptr = job.buf] ELSE inc) /\ pc' = "on"
           \/ inc' = inc /\ pc' = "fill" /\ "write" \in Faults
        /\ UNCHANGED <<park, freed, spoilt, blockVars, gateVars, lifeVars>>
    BY DEF Point, Fail, Goto, TypeInv, TypeOK
  <1>2. /\ Loaded /\ mode # "exit"
        /\ job.buf = buffer[g] /\ job.buf \in mapped /\ job.buf \in Blocks /\ job.buf # None
        /\ checked[g] /\ orig[g] # None /\ job.addr = orig[g].mgr
    BY <1>1, Places DEF Engine, Phases, Buffers, Managers, Present, TypeInv
  <1>3. /\ \A h \in Gates \ {g} : inc'[h] = inc[h]
        /\ inc' # inc => SameManager(g) /\ inc'[g].ptr = job.buf
        /\ "write" \notin Faults /\ SameManager(g) => inc'[g].ptr = job.buf
    BY <1>1, <1>2 DEF SameManager, TypeInv, TypeOK
  <1>4. /\ Loaded' /\ Own' = Own /\ Up'
        /\ \A h \in Gates : SameManager(h)' = SameManager(h)
    BY <1>1, <1>2 DEF Loaded, Own, Up, SameManager, Hits
  <1>5. NoDangling' /\ NoForeignFree' /\ Engine' /\ Phases'
    <2>1. \A h \in Gates : inc'[h].ptr \in mapped \cup {Null, Own}
      BY <1>2, <1>3 DEF NoDangling
    <2>. QED
      BY <1>1, <1>4, <2>1 DEF NoDangling, NoForeignFree, Engine, Phases, Up
  <1>6. Buffers'
    BY <1>1, <1>2, <1>3 DEF Buffers
  <1>7. Originals'
    BY <1>1, <1>2, <1>3, <1>4 DEF Originals, Native, Redirecting
  <1>8. Managers'
    <2>1. \A h \in Gates : ~checked[h] => Native(h)' = Native(h)
      BY <1>2, <1>3, <1>4 DEF Native
    <2>. QED
      BY <1>1, <1>4, <2>1 DEF Managers, Hits, Loaded
  <1>9. Departure' /\ Farewell'
    BY <1>1, <1>2, <1>4 DEF Departure, Released, Farewell, ShutDown, Up
  <1>. QED
    BY <1>5, <1>6, <1>7, <1>8, <1>9

LEMMA SwitchOnKeeps ==
  ASSUME IInv, TypeInv', Up, SwitchOn
  PROVE  IInv'
  <1>. USE DEF IInv, blockVars, gateVars, lifeVars
  <1>1. /\ pc = "on" /\ pc' \in {"prepare", "fill"} /\ was' = was
        /\ \A h \in Gates : inc'[h].ptr = inc[h].ptr
        /\ UNCHANGED <<park, freed, spoilt, blockVars, gateVars, lifeVars>>
    <2>1. /\ pc = "on" /\ pc' \in {"prepare", "fill"} /\ was' = was
          /\ inc' = [inc EXCEPT ![job.gate].on = TRUE] \/ inc' = inc
          /\ UNCHANGED <<park, freed, spoilt, blockVars, gateVars, lifeVars>>
      BY DEF SwitchOn, Fail, Succeed, Goto
    <2>2. \A h \in Gates : [inc EXCEPT ![job.gate].on = TRUE][h].ptr = inc[h].ptr
      BY DEF TypeInv, TypeOK
    <2>. QED
      BY <2>1, <2>2
  <1>2. NoDangling' /\ NoForeignFree' /\ Engine' /\ Phases' /\ Buffers'
    BY <1>1 DEF NoDangling, NoForeignFree, Engine, Phases, Buffers, Loaded, Own, Up
  <1>3. Originals'
    BY <1>1 DEF Originals, SameManager, Hits, Native, Loaded, Own, Redirecting, Up
  <1>4. Managers'
    BY <1>1 DEF Managers, Hits, Native, Loaded, Own, Up
  <1>5. Departure' /\ Farewell'
    BY <1>1 DEF Departure, Released, Phases, Farewell, ShutDown, Native, Loaded, Own, Up
  <1>. QED
    BY <1>2, <1>3, <1>4, <1>5

-----------------------------------------------------------------------------
(* Giving the markets back.                                                *)

\* restore() puts the engine's pointer back and forgets it, or, where it fails,
\* changes nothing and is remembered as failed; on a manager that is not there
\* any more it only forgets.
LEMMA RestoreEffect ==
  ASSUME Careful, IInv, Up, NEW g \in Gates, NEW out \in Outcomes,
         inc' = RestoreInc(g, out), orig' = RestoreOrig(g, out), spoilt' = Spoil(g, out)
  PROVE  /\ \A h \in Gates \ {g} : /\ inc'[h] = inc[h] /\ orig'[h] = orig[h]
                                   /\ (h \in spoilt' <=> h \in spoilt)
         /\ \/ orig'[g] = None /\ SameManager(g) /\ out = "all" /\ inc'[g].ptr \in {Null, Own}
            \/ orig'[g] = None /\ ~SameManager(g) /\ inc' = inc
            \/ SameManager(g) /\ out # "all" /\ inc' = inc /\ orig'[g] = orig[g] /\ g \in spoilt'
  <1>1. out \in {"all", "nothing"}
    BY DEF Careful, Outcomes
  <1>2. SameManager(g) => orig[g].ptr \in {Null, Own}
    BY DEF IInv, Originals
  <1>. USE DEF RestoreInc, RestoreOrig, Spoil, Failing, IInv, TypeInv, TypeOK
  <1>3. CASE SameManager(g) /\ out = "all"
    BY <1>2, <1>3
  <1>4. CASE SameManager(g) /\ out = "nothing"
    BY <1>4
  <1>5. CASE ~SameManager(g)
    BY <1>5
  <1>. QED
    BY <1>1, <1>3, <1>4, <1>5

\* The parts of the invariant that a restored gate can disturb.
LEMMA RestoreKeeps ==
  ASSUME Careful, IInv, TypeInv', Up, NEW g \in Gates, NEW out \in Outcomes,
         inc' = RestoreInc(g, out), orig' = RestoreOrig(g, out), spoilt' = Spoil(g, out),
         mgr' = DropManager(g), UNCHANGED <<park, freed, was, checked>>, Up',
         ~Redirecting(g), ~Redirecting(g)', ~(pc' = "on" /\ job'.gate = g),
         pc' \in {"blob", "point", "on"} => pc' = pc /\ job' = job,
         pc \in {"blob", "point", "on"} => pc' = pc /\ job' = job
  PROVE  /\ \A h \in Gates : inc'[h].ptr = inc[h].ptr \/ (h = g /\ Loaded /\ inc'[g].ptr \in {Null, Own})
         /\ Restored(g, out) => inc'[g].ptr \in {Null, Own}
         /\ "restore" \notin Faults => spoilt' = {}
         /\ Originals' /\ Managers'
         /\ orig'[g] # None => SameManager(g)' /\ g \in spoilt'
         /\ checked[g] /\ Loaded => Native(g)' \/ g \in spoilt'
         /\ \A h \in Gates \ {g} : /\ Native(h)' = Native(h) /\ SameManager(h)' = SameManager(h)
                                   /\ (h \in spoilt' <=> h \in spoilt)
  <1>. USE DEF IInv
  <1>1. /\ \A h \in Gates \ {g} : /\ inc'[h] = inc[h] /\ orig'[h] = orig[h]
                                  /\ (h \in spoilt' <=> h \in spoilt)
        /\ \/ orig'[g] = None /\ SameManager(g) /\ out = "all" /\ inc'[g].ptr \in {Null, Own}
           \/ orig'[g] = None /\ ~SameManager(g) /\ inc' = inc
           \/ SameManager(g) /\ out # "all" /\ inc' = inc /\ orig'[g] = orig[g] /\ g \in spoilt'
    BY RestoreEffect
  <1>2. /\ Loaded' = Loaded /\ Own' = Own
        /\ mgr'[g] = None /\ \A h \in Gates \ {g} : mgr'[h] = mgr[h]
    BY DEF Loaded, Own, DropManager, TypeInv, TypeOK
  <1>3. ASSUME NEW h \in Gates \ {g}
        PROVE  /\ Native(h)' = Native(h) /\ SameManager(h)' = SameManager(h)
               /\ Redirecting(h)' = Redirecting(h)
    BY <1>1, <1>2 DEF Native, SameManager, Hits, Loaded, Redirecting
  <1>4. \/ orig'[g] = None /\ ~SameManager(g)' /\ (SameManager(g) => Native(g)')
           /\ (~SameManager(g) => Native(g)' = Native(g))
        \/ /\ SameManager(g) /\ SameManager(g)' /\ inc' = inc /\ orig'[g] = orig[g]
           /\ g \in spoilt' /\ Native(g)' = Native(g)
    BY <1>1, <1>2 DEF SameManager, Hits, Loaded, Native
  <1>5. Originals'
    <2>1. /\ SameManager(g)' => orig'[g].ptr \in {Null, Own'}
          /\ "write" \notin Faults /\ SameManager(g)' => inc'[g].ptr \in Blocks
          /\ checked'[g] /\ Loaded' => Native(g)' \/ SameManager(g)'
      BY <1>2, <1>4 DEF Originals
    <2>2. ASSUME NEW h \in Gates \ {g}
          PROVE  /\ SameManager(h)' => orig'[h].ptr \in {Null, Own'}
                 /\ "write" \notin Faults /\ SameManager(h)' /\ ~Redirecting(h)' => inc'[h].ptr \in Blocks
                 /\ checked'[h] /\ Loaded' => Native(h)' \/ SameManager(h)'
      BY <1>1, <1>2, <1>3 DEF Originals
    <2>. QED
      BY <2>1, <2>2 DEF Originals
  <1>6. Managers'
    <2>1. /\ orig'[g] # None /\ Loaded' => mgr'[g] = None /\ Hits(orig[g].mgr)' /\ orig'[g] = orig[g]
      BY <1>2, <1>4 DEF SameManager
    <2>2. ASSUME NEW h \in Gates \ {g}
          PROVE  /\ orig'[h] # None /\ Loaded' =>
                      mgr'[h] = orig'[h].mgr \/ (mgr'[h] = None /\ Hits(orig[h].mgr)')
                 /\ ~checked'[h] /\ Loaded' /\ mgr'[h] # None /\ ~Hits(mgr[h])' => Native(h)'
      BY <1>1, <1>2, <1>3 DEF Managers, Hits, Loaded
    <2>3. pc' \in {"blob", "point", "on"} =>
            /\ checked'[job'.gate] /\ orig'[job'.gate] # None
            /\ job'.addr = orig'[job'.gate].mgr
      <3>1. pc' \in {"blob", "point", "on"} => job'.gate \in Gates \ {g}
        BY DEF Redirecting, TypeInv, TypeOK
      <3>. QED
        BY <1>1, <3>1 DEF Managers
    <2>. QED
      BY <1>2, <2>1, <2>2, <2>3, <1>1 DEF Managers
  <1>7. checked[g] /\ Loaded => Native(g)' \/ g \in spoilt'
    BY <1>4 DEF Originals
  <1>8. /\ \A h \in Gates : inc'[h].ptr = inc[h].ptr \/ (h = g /\ Loaded /\ inc'[g].ptr \in {Null, Own})
        /\ Restored(g, out) => inc'[g].ptr \in {Null, Own}
    BY <1>1 DEF Restored, SameManager, Hits
  <1>9. "restore" \notin Faults => spoilt' = {}
    <2>1. "restore" \notin Faults => out = "all"
      BY DEF Outcomes, Careful
    <2>. QED
      BY <2>1 DEF Spoil, Failing, Departure
  <1>. QED
    BY <1>1, <1>3, <1>4, <1>5, <1>6, <1>7, <1>8, <1>9

LEMMA UnloadKeeps ==
  ASSUME Careful, IInv, TypeInv', Up, Unload
  PROVE  IInv'
  <1>. USE DEF IInv, blockVars, lifeVars
  <1>. PICK g \in Gates : g = job.gate
    BY DEF TypeInv, TypeOK
  <1>1. PICK out \in Outcomes :
          inc' = RestoreInc(g, out) /\ orig' = RestoreOrig(g, out) /\ spoilt' = Spoil(g, out)
    BY DEF Unload
  <1>2. /\ pc = "unload" /\ mgr' = DropManager(g)
        /\ UNCHANGED <<park, freed, was, blockVars, buffer, checked, lifeVars>>
        /\ IF g = "habitat" THEN pc' = "unload" /\ job'.gate = "exhibit" ELSE pc' = "idle"
    BY DEF Unload, Goto, Take, TypeInv, TypeOK
  <1>3. Loaded /\ ~was /\ mode # "exit" /\ Loaded' /\ Own' = Own /\ Up'
    BY <1>2 DEF Engine, Phases, Loaded, Own, Up
  <1>4. /\ \A h \in Gates : inc'[h].ptr = inc[h].ptr \/ (h = g /\ Loaded /\ inc'[g].ptr \in {Null, Own})
        /\ "restore" \notin Faults => spoilt' = {}
        /\ Originals' /\ Managers'
        /\ orig'[g] # None => SameManager(g)' /\ g \in spoilt'
        /\ checked[g] /\ Loaded => Native(g)' \/ g \in spoilt'
        /\ \A h \in Gates \ {g} : /\ Native(h)' = Native(h) /\ SameManager(h)' = SameManager(h)
                                  /\ (h \in spoilt' <=> h \in spoilt)
    <2>1. ~Redirecting(g) /\ ~Redirecting(g)' /\ pc' \notin {"blob", "point", "on"}
      BY <1>2 DEF Redirecting
    <2>. QED
      BY <1>1, <1>2, <1>3, <2>1, RestoreKeeps
  <1>5. NoDangling' /\ NoForeignFree' /\ Engine' /\ Phases'
    BY <1>2, <1>3, <1>4 DEF NoDangling, NoForeignFree, Engine, Phases, Up
  <1>6. Buffers'
    <2>1. ASSUME NEW h \in Gates, NEW k \in Gates, buffer[k] # None, inc'[h].ptr = buffer[k]
          PROVE  h = k
      <3>1. buffer[k] \in Blocks
        BY <2>1 DEF TypeInv, TypeOK
      <3>2. inc[h].ptr = buffer[k]
        BY <1>4, <2>1, <3>1, Places
      <3>. QED
        BY <2>1, <3>2 DEF Buffers
    <2>. QED
      BY <1>2, <1>3, <2>1 DEF Buffers
  <1>7. Departure'
    <2>1. ASSUME NEW h \in Gates \ {g}, Released(h)', orig'[h] # None, freed = {}
          PROVE  SameManager(h)' /\ h \in spoilt'
      <3>1. g = "exhibit" /\ h = "habitat"
        BY <1>2, <2>1 DEF Released, Gates
      <3>2. orig'[h] = orig[h]
        BY <1>1, <1>2, <3>1 DEF RestoreOrig, TypeInv, TypeOK
      <3>3. Released(h)
        BY <1>2, <1>3, <3>1 DEF Released
      <3>. QED
        BY <1>4, <2>1, <3>2, <3>3 DEF Departure
    <2>. QED
      BY <1>2, <1>4, <2>1 DEF Departure
  <1>8. Farewell'
    BY <1>2, <1>3 DEF Farewell, ShutDown, Up
  <1>. QED
    BY <1>4, <1>5, <1>6, <1>7, <1>8

-----------------------------------------------------------------------------
(* The life of the client process.                                         *)

LEMMA StartKeeps ==
  ASSUME IInv, TypeInv', Start
  PROVE  IInv'
  <1>. USE DEF IInv, engineVars, blockVars
  <1>1. /\ UNCHANGED <<park, inc, freed, spoilt, mapped>>
        /\ mode' = "up" /\ pc' = "idle" /\ ~was'
        /\ \A g \in Gates : /\ buffer'[g] = None /\ orig'[g] = None
                            /\ mgr'[g] = None /\ ~checked'[g]
    BY DEF Start
  <1>. QED
    BY <1>1 DEF NoDangling, NoForeignFree, Engine, Phases, Buffers, Originals, Managers, Departure,
                Farewell, SameManager, Loaded, Own, Up

\* A killed client answers for nothing; what it left is no longer looked at.
LEMMA KillKeeps ==
  ASSUME IInv, TypeInv', Kill
  PROVE  IInv'
  <1>. USE DEF IInv, engineVars, blockVars
  <1>1. /\ UNCHANGED <<park, inc, freed, spoilt, mapped>> /\ ~Up' /\ pc' = "idle"
        /\ \A g \in Gates : ~checked'[g]
    BY DEF Kill, Up, Goto
  <1>. QED
    BY <1>1 DEF NoDangling, NoForeignFree, Engine, Phases, Buffers, Originals, Managers, Departure,
                Farewell, Loaded, Own

\* From one round of shutdown to the next, and out.
LEMMA RoundKeeps ==
  ASSUME IInv, TypeInv', Close \/ ExitRound \/ Exit
  PROVE  IInv'
  <1>. USE DEF IInv, engineVars, blockVars, tickVars, gateVars
  <1>1. /\ UNCHANGED <<engineVars, mapped, tickVars, gateVars>> /\ Up
        /\ mode' \in {"exit", "down"} => pc = "idle"
        /\ \A g \in Gates : ShutDown(g)' => ShutDown(g)
    BY NoneAssumption DEF Close, ExitRound, Exit, Up, ShutDown, Phases, Gates
  <1>2. NoDangling' /\ NoForeignFree' /\ Engine' /\ Phases' /\ Buffers'
    BY <1>1 DEF NoDangling, NoForeignFree, Engine, Phases, Buffers, Loaded, Own, Up
  <1>3. Originals' /\ Managers'
    BY <1>1 DEF Originals, Managers, SameManager, Hits, Native, Loaded, Own, Redirecting, Up
  <1>4. Departure'
    BY <1>1 DEF Departure, Released, SameManager, Hits, Loaded, Up
  <1>5. Farewell'
    BY <1>1 DEF Farewell, Native, Loaded, Own
  <1>. QED
    BY <1>2, <1>3, <1>4, <1>5

\* A block is freed only where nothing points at it.
LEMMA ShutdownKeeps ==
  ASSUME Careful, IInv, TypeInv', ShutdownGate
  PROVE  IInv'
  <1>. USE DEF IInv, tickVars
  <1>. PICK g \in Gates : g = turn
    BY DEF ShutdownGate, TypeInv, TypeOK
  <1>1. PICK out \in Outcomes :
          /\ inc' = RestoreInc(g, out) /\ orig' = RestoreOrig(g, out) /\ spoilt' = Spoil(g, out)
          /\ mapped' = IF MayFree(g, out) THEN mapped \ {buffer[g]} ELSE mapped
    BY DEF ShutdownGate
  <1>2. /\ mode \in {"close", "exit"} /\ turn = g /\ ~Applying(g)
        /\ buffer' = [buffer EXCEPT ![g] = None] /\ mgr' = DropManager(g)
        /\ turn' = IF g = "habitat" THEN "exhibit" ELSE None
        /\ UNCHANGED <<park, freed, tickVars, checked, mode>>
    BY DEF ShutdownGate, Careful, TypeInv, TypeOK
  <1>3. Up /\ Up' /\ Loaded' = Loaded /\ Own' = Own
    BY <1>2 DEF Up, Loaded, Own
  <1>4. ~(pc \in {"blob", "point", "on"} /\ job.gate = g)
    BY <1>2 DEF Applying
  <1>5. /\ \A h \in Gates : inc'[h].ptr = inc[h].ptr \/ (h = g /\ Loaded /\ inc'[g].ptr \in {Null, Own})
        /\ "restore" \notin Faults => spoilt' = {}
        /\ Restored(g, out) => inc'[g].ptr \in {Null, Own}
        /\ Originals' /\ Managers'
        /\ orig'[g] # None => SameManager(g)' /\ g \in spoilt'
        /\ checked[g] /\ Loaded => Native(g)' \/ g \in spoilt'
        /\ \A h \in Gates \ {g} : /\ Native(h)' = Native(h) /\ SameManager(h)' = SameManager(h)
                                  /\ (h \in spoilt' <=> h \in spoilt)
    <2>1. ~Redirecting(g) /\ ~Redirecting(g)' /\ ~(pc' = "on" /\ job'.gate = g)
      BY <1>2, <1>4 DEF Redirecting
    <2>. QED
      BY <1>1, <1>2, <1>3, <2>1, RestoreKeeps
  <1>6. /\ buffer'[g] = None
        /\ \A h \in Gates \ {g} : buffer'[h] = buffer[h]
    BY <1>2 DEF TypeInv, TypeOK
  <1>7. MayFree(g, out) => \A h \in Gates : inc'[h].ptr # buffer[g]
    <2>1. ASSUME MayFree(g, out), NEW h \in Gates, inc'[h].ptr = buffer[g]
          PROVE  FALSE
      <3>1. buffer[g] # None /\ buffer[g] \in Blocks
        BY <1>2, <2>1 DEF MayFree, TypeInv, TypeOK
      <3>2. CASE ~Loaded
        <4>1. inc[h].ptr = Null /\ inc'[h].ptr = inc[h].ptr
          BY <1>5, <3>2 DEF Engine
        <4>. QED
          BY <2>1, <3>1, <4>1, Places
      <3>3. CASE Loaded /\ Restored(g, out)
        <4>1. h # g /\ inc[h].ptr = buffer[g]
          BY <1>5, <2>1, <3>1, <3>3, Places
        <4>. QED
          BY <1>3, <3>1, <4>1 DEF Buffers
      <3>. QED
        BY <2>1, <3>2, <3>3 DEF MayFree
    <2>. QED
      BY <2>1
  <1>8. NoDangling' /\ NoForeignFree' /\ Engine' /\ Phases'
    <2>1. \A h \in Gates : Loaded => inc'[h].ptr \in mapped \cup {Null, Own}
      BY <1>5 DEF NoDangling
    <2>2. ~Loaded => \A h \in Gates : inc'[h].ptr = Null
      BY <1>1, <1>2 DEF RestoreInc, SameManager, Hits, Engine
    <2>3. NoDangling'
      BY <1>1, <1>3, <1>7, <2>1, <2>2 DEF NoDangling
    <2>. QED
      BY <1>2, <1>3, <2>2, <2>3 DEF NoForeignFree, Engine, Phases, Up
  <1>9. Buffers'
    <2>1. \A h \in Gates \ {g} : buffer[h] # None => buffer[h] \in mapped'
      BY <1>1, <1>2, <1>3 DEF Buffers
    <2>2. \A h, k \in Gates : buffer'[k] # None /\ inc'[h].ptr = buffer'[k] => h = k
      <3>1. \A k \in Gates : buffer'[k] # None => k # g /\ buffer[k] \in Blocks
        BY <1>2, <1>6 DEF TypeInv, TypeOK
      <3>2. ASSUME NEW h \in Gates, NEW k \in Gates, buffer'[k] # None, inc'[h].ptr = buffer'[k]
            PROVE  h = k
        <4>1. inc[h].ptr = buffer[k] /\ buffer[k] # None
          BY <1>5, <1>6, <3>1, <3>2, Places
        <4>. QED
          BY <1>3, <4>1 DEF Buffers
      <3>. QED
        BY <3>2
    <2>3. pc' \in {"blob", "point"} => job'.buf = buffer'[job'.gate]
      BY <1>2, <1>3, <1>4, <1>6 DEF Buffers, TypeInv, TypeOK
    <2>. QED
      BY <1>3, <1>6, <2>1, <2>2, <2>3 DEF Buffers
  <1>10. Departure'
    <2>1. ASSUME NEW h \in Gates \ {g}, Released(h)', orig'[h] # None, freed = {}
          PROVE  SameManager(h)' /\ h \in spoilt'
      <3>1. Released(h)
        BY <1>2, <2>1 DEF Released
      <3>2. orig'[h] = orig[h]
        BY <1>1, <1>2 DEF RestoreOrig, TypeInv, TypeOK
      <3>. QED
        BY <1>3, <1>5, <2>1, <3>1, <3>2 DEF Departure
    <2>. QED
      BY <1>2, <1>5, <2>1 DEF Departure
  <1>11. Farewell'
    <2>1. ASSUME NEW h \in Gates \ {g}, ShutDown(h)'
          PROVE  ShutDown(h)
      BY <1>2, <2>1, NoneAssumption DEF ShutDown, Gates
    <2>. QED
      BY <1>2, <1>3, <1>5, <2>1 DEF Farewell
  <1>. QED
    BY <1>5, <1>8, <1>9, <1>10, <1>11

-----------------------------------------------------------------------------
(* The theorems.                                                           *)

LEMMA NextInv == Careful /\ IInv /\ [Next]_vars => IInv'
  <1>. SUFFICES ASSUME Careful, IInv, [Next]_vars PROVE IInv'
    OBVIOUS
  <1>1. TypeInv'
    BY NextTypes DEF IInv
  <1>2. CASE Game \/ Server
    BY <1>1, <1>2, QuietKeeps, LoadKeeps, TeardownKeeps DEF Game
  <1>3. CASE Tick
    <2>1. Up
      <3>1. mode = "up" \/ pc # "idle"
        BY <1>3 DEF Tick, BeginTick, Read, Apply, Refuse, Prepare, WriteBlob, Point, SwitchOn, Fill, Unload
      <3>. QED
        BY <3>1 DEF IInv, Phases, Up
    <2>. QED
      BY <1>1, <1>3, <2>1, LookKeeps, PrepareKeeps, WriteBlobKeeps, PointKeeps, SwitchOnKeeps, UnloadKeeps
      DEF Tick, Apply
  <1>4. CASE Life
    BY <1>1, <1>4, StartKeeps, KillKeeps, RoundKeeps, ShutdownKeeps DEF Life
  <1>5. CASE UNCHANGED vars
    BY <1>1, <1>5
    DEF IInv, NoDangling, NoForeignFree, Engine, Phases, Buffers, Originals, Managers, Departure, Farewell,
        vars, engineVars, blockVars, tickVars, gateVars, lifeVars, Loaded, Own, Hits, SameManager, Native,
        Redirecting, Released, ShutDown, Up
  <1>. QED
    BY <1>2, <1>3, <1>4, <1>5 DEF Next

\* For any species, blocks, addresses, parks and client processes: as long as
\* shutdown does not meet apply_unlocked on the same gate and a restore fails as
\* a whole, if no other write does, the engine never follows an include-set into memory
\* that restore() or shutdown() has freed.
THEOREM NothingDangles ==
  ASSUME Careful PROVE Spec => []NoDangling
  <1>1. Init => IInv
    BY InitInv
  <1>2. IInv /\ [Next]_vars => IInv'
    BY NextInv
  <1>3. IInv => NoDangling
    BY DEF IInv
  <1>. QED
    BY <1>1, <1>2, <1>3, PTL DEF Spec

\* Under the same conditions a park's teardown frees nothing of the client and
\* nothing of another park, save what a killed client left unseen and what
\* could not be written back.
THEOREM TeardownFreesItsOwn ==
  ASSUME Careful PROVE Spec => []NoForeignFree
  <1>1. Init => IInv
    BY InitInv
  <1>2. IInv /\ [Next]_vars => IInv'
    BY NextInv
  <1>3. IInv => NoForeignFree
    BY DEF IInv
  <1>. QED
    BY <1>1, <1>2, <1>3, PTL DEF Spec
-----------------------------------------------------------------------------
(* The set that counts as applied.  As long as no write of apply_unlocked  *)
(* fails, a manager that is cached is the loaded park's, and what the      *)
(* client believes of the habitat market is so.                            *)

Writes == Careful /\ "write" \notin Faults

\* A cached manager is never stale: the client lets go of both when it notices
\* that the park is being left.
Current ==
  Up => \A g \in Gates : /\ mgr[g] # None => Hits(mgr[g])
                         /\ Released(g) => mgr[g] = None

\* The habitat market follows its block, which holds the given set.
Home == buffer["habitat"]
Held(w)  == Home # None /\ content[Home] = w.ids
Gated(w) == Held(w) /\ inc["habitat"].on /\ inc["habitat"].ptr = Home

\* The worker has begun to write the habitat market's set.
Inside == pc \in {"blob", "point", "on"} /\ job.gate = "habitat"

Marking ==
  mode = "up" =>
    /\ marked # None /\ pc # "unload" => was
    /\ marked # None /\ was /\ ~Inside => Gated(marked)
    /\ Inside /\ pc \in {"point", "on"} => Held(wanted)
    /\ Inside /\ pc = "on" => inc["habitat"].ptr = Home

MInv == IInv /\ Current /\ Marking

LEMMA HitsKept ==
  ASSUME Loaded' = Loaded, Loaded => park'.addr = park.addr
  PROVE  \A m : Hits(m)' = Hits(m)
  BY DEF Hits

LEMMA CurrentKept ==
  ASSUME IInv, Current, [Next]_vars
  PROVE  Current'
  <1>. USE DEF engineVars, blockVars, tickVars, gateVars, lifeVars
  <1>a. ASSUME UNCHANGED <<mgr, pc, job, was>>, Up' => Up, \A m : Hits(m)' = Hits(m)
        PROVE  Current'
    BY <1>a DEF Current, Released
  <1>b. ASSUME UNCHANGED park, Up,
               \A g \in Gates : \/ mgr'[g] = None
                                \/ mgr'[g] \in {mgr[g], Manager(g)} /\ ~Released(g)'
        PROVE  Current'
    <2>1. \A m : Hits(m)' = Hits(m)
      BY <1>b DEF Hits, Loaded
    <2>2. \A g \in Gates : Manager(g) # None => Hits(Manager(g))
      BY <1>b DEF Current, Manager, Resolved, Hits
    <2>. QED
      BY <1>b, <2>1, <2>2 DEF Current
  <1>c. /\ ~Loaded /\ Up => pc = "idle" /\ ~was
        /\ pc # "idle" => Up
        /\ \A g \in Gates : Up /\ pc = "idle" /\ ~was => mgr[g] = None
    BY DEF IInv, Engine, Phases, Current, Released, Up
  <1>1. CASE LoadPark
    <2>1. \A g \in Gates : Up => mgr[g] = None
      BY <1>1, <1>c DEF LoadPark
    <2>. QED
      BY <1>1, <2>1 DEF LoadPark, Current, Up
  <1>2. CASE Learn
    BY <1>2, <1>a DEF Learn, Up, Hits, Loaded
  <1>3. CASE Leave
    <2>1. Loaded' /\ park'.addr = park.addr
      <3>1. park \in Parks /\ park' = [park EXCEPT !.phase = "leaving"]
        BY <1>3 DEF Leave, Playing, Loaded, IInv, TypeInv, TypeOK
      <3>2. park' \in Parks /\ park'.addr = park.addr
        BY <3>1 DEF Parks
      <3>. QED
        BY <3>2, NoneAssumption DEF Loaded
    <2>. QED
      BY <1>3, <1>a, <2>1 DEF Leave, Playing, Hits, Up
  <1>4. CASE Teardown
    <2>1. \A g \in Gates : Up => mgr[g] = None
      BY <1>4, <1>c DEF Teardown, Noticed, Up
    <2>. QED
      BY <1>4, <2>1 DEF Teardown, Current, Up
  <1>5. CASE Server \/ UNCHANGED vars
    BY <1>5, <1>a DEF Server, Unlock, Reconnect, vars, Hits, Loaded, Up
  <1>6. CASE BeginTick
    <2>1. \A g \in Gates : ~Released(g)' \/ (mgr'[g] = mgr[g] /\ pc = "idle" /\ ~was)
      <3>1. Playing => Hits(Manager("habitat"))
        BY <1>6 DEF BeginTick, Playing, Current, Manager, Resolved, Hits, Up, Gates
      <3>2. PICK named, scenario \in BOOLEAN :
              /\ named => Playing
              /\ named /\ Hits(Manager("habitat")) => scenario
              /\ mgr' = IF named THEN [mgr EXCEPT !["habitat"] = Manager("habitat")] ELSE mgr
              /\ was' = (named /\ scenario)
              /\ pc' = IF named /\ scenario THEN "read" ELSE IF was THEN "unload" ELSE "idle"
        BY <1>6 DEF BeginTick, Goto
      <3>3. CASE named
        BY <3>1, <3>2, <3>3 DEF Released
      <3>4. CASE ~named
        BY <1>6, <3>2, <3>4 DEF BeginTick, NoJob, Released
      <3>. QED
        BY <3>3, <3>4
    <2>2. \A g \in Gates : mgr'[g] \in {mgr[g], Manager(g)}
      BY <1>6 DEF BeginTick, IInv, TypeInv, TypeOK
    <2>3. Up /\ UNCHANGED park
      BY <1>6 DEF BeginTick, Up
    <2>. QED
      BY <1>b, <1>c, <2>1, <2>2, <2>3
  <1>7. CASE Read \/ Refuse \/ Prepare \/ Fill
    <2>1. Up /\ UNCHANGED park /\ was
      BY <1>7, <1>c DEF Read, Refuse, Prepare, Fill, IInv, Phases
    <2>2. was'
      BY <1>7, <2>1 DEF Read, Refuse, Prepare, Fill
    <2>3. \A g \in Gates : mgr'[g] \in {mgr[g], Manager(g)}
      <3>1. CASE Read
        BY <3>1 DEF Read, IInv, TypeInv, TypeOK
      <3>2. CASE Refuse \/ Prepare
        <4>1. mgr' = [mgr EXCEPT ![job.gate] = Manager(job.gate)]
          BY <3>2 DEF Refuse, Prepare
        <4>. QED
          BY <4>1 DEF IInv, TypeInv, TypeOK
      <3>3. CASE Fill
        BY <3>3 DEF Fill
      <3>. QED
        BY <1>7, <3>1, <3>2, <3>3
    <2>. QED
      BY <1>b, <2>1, <2>2, <2>3 DEF Released
  <1>8. CASE WriteBlob \/ Point \/ SwitchOn
    <2>1. Up /\ UNCHANGED <<park, mgr, was>> /\ was
      BY <1>8, <1>c DEF WriteBlob, Point, SwitchOn, IInv, Phases
    <2>. QED
      BY <1>b, <2>1 DEF Released
  <1>9. CASE Unload
    <2>1. Up /\ UNCHANGED <<park, was>> /\ ~was /\ pc = "unload"
      BY <1>9, <1>c DEF Unload, IInv, Phases
    <2>2. mgr' = [mgr EXCEPT ![job.gate] = None] /\ job.gate \in Gates
      BY <1>9 DEF Unload, DropManager, IInv, TypeInv, TypeOK
    <2>3. \A g \in Gates : mgr'[g] = None \/ mgr'[g] = mgr[g]
      BY <2>2 DEF IInv, TypeInv, TypeOK
    <2>4. CASE job.gate = "habitat"
      <3>1. pc' = "unload" /\ job'.gate = "exhibit"
        BY <1>9, <2>1, <2>4 DEF Unload, Take
      <3>2. mgr'["habitat"] = None
        BY <2>2, <2>4 DEF IInv, TypeInv, TypeOK
      <3>. QED
        BY <1>b, <2>1, <2>3, <3>1, <3>2 DEF Released, Gates
    <2>5. CASE job.gate = "exhibit"
      <3>1. mgr["habitat"] = None
        BY <2>1, <2>5 DEF Current, Released, Gates
      <3>2. \A g \in Gates : mgr'[g] = None
        BY <2>2, <2>3, <2>5, <3>1 DEF IInv, TypeInv, TypeOK, Gates
      <3>. QED
        BY <1>b, <2>1, <3>2
    <2>. QED
      BY <2>2, <2>4, <2>5 DEF Gates
  <1>10. CASE Start
    BY <1>10 DEF Start, Current
  <1>11. CASE Kill \/ Exit
    BY <1>11 DEF Kill, Exit, Current, Up
  <1>12. CASE Close \/ ExitRound
    BY <1>12, <1>a DEF Close, ExitRound, Up, Hits, Loaded
  <1>13. CASE ShutdownGate
    <2>1. Up /\ UNCHANGED <<park, pc, job, was>>
      BY <1>13 DEF ShutdownGate, Up
    <2>2. turn \in Gates /\ mgr' = [mgr EXCEPT ![turn] = None]
      BY <1>13 DEF ShutdownGate, DropManager, IInv, TypeInv, TypeOK
    <2>3. \A g \in Gates : mgr'[g] = None \/ mgr'[g] = mgr[g]
      BY <2>2 DEF IInv, TypeInv, TypeOK
    <2>4. \A g \in Gates : Released(g)' => mgr[g] = None
      BY <2>1 DEF Current, Released
    <2>. QED
      BY <1>b, <2>1, <2>3, <2>4
  <1>. QED
    BY <1>1, <1>2, <1>3, <1>4, <1>5, <1>6, <1>7, <1>8, <1>9, <1>10, <1>11, <1>12, <1>13
    DEF Next, Game, Tick, Apply, Life

\* The worker inside apply_unlocked of a market has its own block in hand, and
\* writes through the manager of the loaded park.
LEMMA InHand ==
  ASSUME IInv, Current, Up, pc \in {"blob", "point", "on"}
  PROVE  /\ Hits(job.addr) /\ job.gate \in Gates
         /\ pc \in {"blob", "point"} =>
              /\ job.buf = buffer[job.gate] /\ job.buf # None /\ job.buf \in mapped
  <1>1. job.gate \in Gates /\ Loaded
    BY DEF IInv, TypeInv, TypeOK, Engine
  <1>2. job.addr = orig[job.gate].mgr /\ orig[job.gate] # None
    BY DEF IInv, Managers
  <1>3. mgr[job.gate] = job.addr \/ Hits(job.addr)
    BY <1>1, <1>2 DEF IInv, Managers
  <1>4. job.addr # None
    BY DEF IInv, TypeInv, Present
  <1>5. Hits(job.addr)
    BY <1>1, <1>3, <1>4 DEF Current
  <1>6. pc \in {"blob", "point"} =>
          job.buf = buffer[job.gate] /\ job.buf # None /\ job.buf \in mapped
    BY <1>1 DEF IInv, Buffers, TypeInv, Present
  <1>. QED
    BY <1>1, <1>5, <1>6

LEMMA MarkingKept ==
  ASSUME Writes, IInv, Current, Marking, [Next]_vars
  PROVE  Marking'
  <1>. USE DEF engineVars, blockVars, tickVars, gateVars, lifeVars
  <1>a. ASSUME UNCHANGED <<marked, pc, job, was, wanted, buffer, content>>, mode' = "up" => mode = "up",
               mode = "up" => inc' = inc
        PROVE  Marking'
    BY <1>a DEF Marking, Inside, Held, Gated, Home
  <1>b. ASSUME mode = "up", ~Inside, ~Inside',
               UNCHANGED <<marked, was, buffer>>, inc'["habitat"] = inc["habitat"],
               Home # None => content'[Home] = content[Home],
               pc # "unload" \/ marked' = None
        PROVE  Marking'
    BY <1>b DEF Marking, Held, Gated, Home
  <1>c. mode = "up" /\ pc = "idle" /\ ~was => marked = None
    BY DEF Marking
  <1>1. CASE LoadPark \/ Teardown
    <2>1. mode = "up" => marked = None /\ pc = "idle"
      BY <1>1, <1>c DEF LoadPark, Teardown, Noticed, IInv, Engine, Up
    <2>. QED
      BY <1>1, <2>1 DEF LoadPark, Teardown, Marking, Inside
  <1>2. CASE Learn \/ Leave \/ Server \/ UNCHANGED vars
    BY <1>2, <1>a DEF Learn, Leave, Server, Unlock, Reconnect, vars
  <1>3. CASE BeginTick
    <2>1. /\ mode = "up" /\ ~Inside /\ UNCHANGED <<marked, buffer, inc, content>>
          /\ pc = "idle" /\ pc' \in {"idle", "read", "unload"}
      BY <1>3 DEF BeginTick, Inside, Goto
    <2>2. was' => marked = None \/ was
      BY <2>1, <1>c
    <2>3. ~was' /\ pc' # "unload" => ~was
      BY <1>3 DEF BeginTick, Goto, IInv, TypeInv, TypeOK
    <2>. QED
      BY <1>c, <2>1, <2>2, <2>3 DEF Marking, Inside, Held, Gated, Home
  <1>4. CASE Read \/ Fill \/ Refuse
    <2>1. CASE mode = "up"
      <3>1. ~Inside /\ ~Inside' /\ UNCHANGED <<marked, was, buffer, inc, content>> /\ pc # "unload"
        BY <1>4 DEF Read, Fill, Refuse, Fail, Inside, Goto
      <3>. QED
        BY <1>b, <2>1, <3>1
    <2>2. CASE mode # "up"
      BY <1>4, <2>2 DEF Read, Fill, Refuse, Marking
    <2>. QED
      BY <2>1, <2>2
  <1>5. CASE Prepare
    <2>1. mode' = mode /\ pc = "prepare" /\ pc' = "blob" /\ UNCHANGED <<marked, was>>
          /\ job.gate \in Gates
      BY <1>5 DEF Prepare, Goto, IInv, TypeInv, TypeOK
    <2>2. mode = "up" => was
      BY <2>1 DEF IInv, Phases, Up
    <2>3. PICK b \in Room(job.gate) :
            /\ job' = [job EXCEPT !.addr = Manager(job.gate), !.buf = b]
            /\ buffer' = [buffer EXCEPT ![job.gate] = b]
            /\ content' = [content EXCEPT ![b] = IF b \in mapped THEN @ ELSE {}]
      BY <1>5 DEF Prepare
    <2>4. job'.gate = job.gate
      BY <2>3 DEF IInv, TypeInv, TypeOK
    <2>5. CASE job.gate = "habitat"
      BY <2>1, <2>2, <2>4, <2>5 DEF Marking, Inside
    <2>6. CASE job.gate = "exhibit"
      <3>1. buffer'["habitat"] = buffer["habitat"] /\ inc'["habitat"] = inc["habitat"]
        <4>1. buffer'["habitat"] = buffer["habitat"]
          BY <2>3, <2>6 DEF IInv, TypeInv, TypeOK, Gates
        <4>2. PICK i : inc' = inc \/ inc' = [inc EXCEPT !["exhibit"] = i]
          BY <1>5, <2>6 DEF Prepare
        <4>3. inc'["habitat"] = inc["habitat"]
          BY <4>2 DEF IInv, TypeInv, TypeOK, Gates
        <4>. QED
          BY <4>1, <4>3
      <3>2. mode = "up" /\ Home # None => content'[Home] = content[Home]
        <4>1. mode = "up" /\ Home # None => Home \in mapped
          BY DEF Home, IInv, Buffers, Up, Gates
        <4>2. \A c \in mapped : content'[c] = content[c]
          BY <2>3 DEF IInv, TypeInv, TypeOK
        <4>. QED
          BY <4>1, <4>2
      <3>. QED
        BY <2>1, <2>2, <2>4, <2>6, <3>1, <3>2 DEF Marking, Inside, Held, Gated, Home
    <2>. QED
      BY <2>1, <2>5, <2>6 DEF Gates
  <1>6. CASE WriteBlob
    <2>1. CASE mode = "up"
      <3>1. /\ pc = "blob" /\ pc' = "point" /\ UNCHANGED <<marked, was, wanted, job, inc, buffer, mode>>
            /\ content' = [content EXCEPT ![job.buf] = wanted.ids]
            /\ job.buf = buffer[job.gate] /\ job.buf # None /\ job.gate \in Gates
        BY <1>6, <2>1, InHand DEF WriteBlob, Goto, Writes, Up
      <3>2. was
        BY <2>1, <3>1 DEF IInv, Phases, Up
      <3>3. CASE job.gate = "habitat"
        <4>1. content'[Home] = wanted.ids /\ Home # None
          BY <3>1, <3>3 DEF Home, IInv, TypeInv, TypeOK
        <4>. QED
          BY <3>1, <3>2, <3>3, <4>1 DEF Marking, Inside, Held, Home
      <3>4. CASE job.gate = "exhibit"
        <4>1. buffer["habitat"] # job.buf
          BY <2>1, <3>1, <3>4 DEF IInv, Buffers, Up, Gates
        <4>2. content'[Home] = content[Home] \/ Home = None
          BY <3>1, <4>1 DEF Home, IInv, TypeInv, TypeOK, Gates
        <4>. QED
          BY <1>b, <2>1, <3>1, <3>4, <4>2 DEF Inside, Home
      <3>. QED
        BY <3>1, <3>3, <3>4 DEF Gates
    <2>2. CASE mode # "up"
      BY <1>6, <2>2 DEF WriteBlob, Marking
    <2>. QED
      BY <2>1, <2>2
  <1>7. CASE Point
    <2>1. CASE mode = "up"
      <3>1. /\ pc = "point" /\ pc' = "on" /\ UNCHANGED <<marked, was, wanted, job, content, buffer, mode>>
            /\ inc' = [inc EXCEPT ![job.gate].ptr = job.buf]
            /\ job.buf = buffer[job.gate] /\ job.buf # None /\ job.gate \in Gates
        BY <1>7, <2>1, InHand DEF Point, Goto, Writes, Up
      <3>2. was
        BY <2>1, <3>1 DEF IInv, Phases, Up
      <3>3. CASE job.gate = "habitat"
        <4>1. inc'["habitat"].ptr = Home
          BY <3>1, <3>3 DEF Home, IInv, TypeInv, TypeOK
        <4>2. Held(wanted)
          BY <2>1, <3>1, <3>3 DEF Marking, Inside
        <4>. QED
          BY <3>1, <3>2, <3>3, <4>1, <4>2 DEF Marking, Inside, Held, Home
      <3>4. CASE job.gate = "exhibit"
        <4>1. inc'["habitat"] = inc["habitat"]
          BY <3>1, <3>4 DEF IInv, TypeInv, TypeOK, Gates
        <4>. QED
          BY <1>b, <2>1, <3>1, <3>4, <4>1 DEF Inside, Home
      <3>. QED
        BY <3>1, <3>3, <3>4 DEF Gates
    <2>2. CASE mode # "up"
      BY <1>7, <2>2 DEF Point, Marking
    <2>. QED
      BY <2>1, <2>2
  <1>8. CASE SwitchOn
    <2>1. CASE mode = "up"
      <3>1. /\ pc = "on" /\ UNCHANGED <<was, wanted, content, buffer, mode>>
            /\ inc' = [inc EXCEPT ![job.gate].on = TRUE]
            /\ Succeed /\ job.gate \in Gates
        BY <1>8, <2>1, InHand DEF SwitchOn, Writes, Up
      <3>2. was
        BY <2>1, <3>1 DEF IInv, Phases, Up
      <3>3. CASE job.gate = "habitat"
        <4>1. inc'["habitat"].ptr = inc["habitat"].ptr /\ inc'["habitat"].on
          BY <3>1, <3>3 DEF IInv, TypeInv, TypeOK
        <4>2. Held(wanted) /\ inc["habitat"].ptr = Home
          BY <2>1, <3>1, <3>3 DEF Marking, Inside
        <4>3. marked' = wanted /\ pc' = "prepare"
          BY <3>1, <3>3 DEF Succeed, Goto
        <4>. QED
          BY <3>1, <3>2, <4>1, <4>2, <4>3 DEF Marking, Inside, Held, Gated, Home
      <3>4. CASE job.gate = "exhibit"
        <4>1. inc'["habitat"] = inc["habitat"]
          BY <3>1, <3>4 DEF IInv, TypeInv, TypeOK, Gates
        <4>2. UNCHANGED <<marked, job>> /\ pc' = "fill"
          BY <3>1, <3>4 DEF Succeed, Goto
        <4>. QED
          BY <1>b, <2>1, <3>1, <3>4, <4>1, <4>2 DEF Inside, Home
      <3>. QED
        BY <3>1, <3>3, <3>4 DEF Gates
    <2>2. CASE mode # "up"
      BY <1>8, <2>2 DEF SwitchOn, Marking
    <2>. QED
      BY <2>1, <2>2
  <1>9. CASE Unload
    <2>1. mode' = mode /\ was' = was /\ pc = "unload" /\ (mode = "up" => ~was)
      BY <1>9 DEF Unload, IInv, Phases, Up
    <2>2. pc' = "unload" \/ (pc' = "idle" /\ marked' = None)
      BY <1>9 DEF Unload, Goto
    <2>. QED
      BY <2>1, <2>2 DEF Marking, Inside
  <1>10. CASE Start
    BY <1>10 DEF Start, Marking, Inside
  <1>11. CASE Kill \/ Close \/ ShutdownGate \/ ExitRound \/ Exit
    BY <1>11 DEF Kill, Close, ShutdownGate, ExitRound, Exit, Marking
  <1>. QED
    BY <1>1, <1>2, <1>3, <1>4, <1>5, <1>6, <1>7, <1>8, <1>9, <1>10, <1>11
    DEF Next, Game, Tick, Apply, Life

\* For any species, blocks, addresses, parks and client processes: unless a
\* write of apply_unlocked fails half-way, the set that counts as applied is in
\* force in the habitat market of the park being played (_reconcile_market,
\* _on_park_unload, apply_unlocked).
THEOREM MarkedSetIsInForce ==
  ASSUME Writes PROVE Spec => []MarkedIsGated
  <1>1. Init => MInv
    BY InitInv DEF MInv, Init, Current, Marking, Up
  <1>2. MInv /\ [Next]_vars => MInv'
    BY NextInv, CurrentKept, MarkingKept DEF MInv, Writes
  <1>3. MInv => MarkedIsGated
    <2>. SUFFICES ASSUME MInv, mode = "up", Playing, marked # None, pc # "unload", ~Applying("habitat")
                  PROVE  LET i == inc["habitat"]
                         IN  i.on /\ ByClient(i.ptr) /\ content[i.ptr] = marked.ids
      BY DEF MarkedIsGated
    <2>1. Gated(marked)
      BY DEF MInv, Marking, Inside, Applying
    <2>2. Home \in Blocks \cup {None}
      BY DEF MInv, IInv, TypeInv, TypeOK, Home, Gates
    <2>. QED
      BY <2>1, <2>2 DEF Gated, Held, ByClient
  <1>. QED
    BY <1>1, <1>2, <1>3, PTL DEF Spec
=============================================================================
