-------------------------- MODULE ClientLoopProofs --------------------------
(***************************************************************************)
(* Proofs about ClientLoop: every variable keeps its type; the server      *)
(* learns of the goal only after every location that it consists of; the   *)
(* client is inert outside the scenario; and what its ticks apply: the     *)
(* lists of the gates are sound under a walk, the gates hold after any     *)
(* history (GateLists), the age of a park is known after any number of     *)
(* parks (ParkAge), the replaced functions compute what the items say,     *)
(* wherever the code is (BytePatches), the rewards are those of the items  *)
(* received (ContentRewards), and the locations reported were earned       *)
(* (ResearchRules).  The second rests on what is on its way: what the      *)
(* client counts as sent is with the server or in the outbox while a       *)
(* connection is up, and a message about the goal stands behind the        *)
(* locations it needs; and so, when nothing is on its way, nothing is      *)
(* forgotten.                                                              *)
(***************************************************************************)
EXTENDS MCClientLoop, SequenceTheorems, FiniteSetTheorems, WellFoundedInduction, TLAPS

-----------------------------------------------------------------------------
(* Types                                                                   *)

Message == [goal : BOOLEAN, ids : SUBSET Locations]

\* TypeOK says which messages there are; the rest needs that they are in a
\* sequence.
Typed == TypeOK /\ outbox \in Seq(Message)

\* What the proofs need of the constants and of the small sets.
LEMMA Facts ==
  /\ \A k \in Kinds : k # "free"
  /\ MaxLoads \in Nat /\ MaxOutages \in Nat /\ MaxCollects \in Nat
  /\ Goal \subseteq Locations
  /\ GoalMsg \in Message /\ \A S \in SUBSET Locations : Checks(S) \in Message
BY SessionAssumption, ReportAssumption
   DEF SessionAssumption, ReportAssumption, Message, GoalMsg, Checks

\* A name is one of three, whatever was read.
LEMMA NameTyped == \A p : Name(p) \in Names
BY DEF Name, Names, NoName, Marker

LEMMA ReadingTyped ==
  ASSUME TypeOK
  PROVE  /\ Reading.name \in Names
         /\ Reading.cached \in (SUBSET Cells) \cup {NotCached}
         /\ Reading.cooling \in {"short", "long", "over"}
<1>1. CachedName \in Names /\ ScannedName \in Names
  BY NameTyped DEF CachedName, ScannedName, Names
<1>2. Instances \in SUBSET Cells
  BY DEF Instances
<1>3. lastVal \in Names /\ cached \in (SUBSET Cells) \cup {NotCached}
      /\ cooling \in {"short", "long", "over"}
  BY DEF TypeOK
<1>4. \A n, c, w : /\ Read(n, c, w).name = n /\ Read(n, c, w).cached = c
                   /\ Read(n, c, w).cooling = w
  BY DEF Read
<1> QED BY <1>1, <1>2, <1>3, <1>4 DEF Reading

\* The messages of a report, as the sequence grows.
LEMMA SendTyped ==
  ASSUME Typed, NEW l \in Locations, NEW goalToo \in BOOLEAN,
         sent' = sent \cup {l}, Send(Messages(l, goalToo))
  PROVE  /\ outbox' = IF conn # "up" THEN outbox
                      ELSE IF goalToo THEN Append(Append(outbox, Checks({l})), GoalMsg)
                      ELSE Append(outbox, Checks({l}))
         /\ outbox' \in Seq(Message)
         /\ \A i \in DOMAIN outbox' : outbox'[i] = GoalMsg
                                      \/ outbox'[i] \in {Checks(S) : S \in SUBSET sent'}
<1>1. outbox \in Seq(Message) /\ Checks({l}) \in Message /\ GoalMsg \in Message
  BY Facts DEF Typed
<1>2. outbox \o <<Checks({l})>> = Append(outbox, Checks({l}))
  BY <1>1, AppendIsConcat
<1>3. Append(outbox, Checks({l})) \in Seq(Message)
  BY <1>1, AppendProperties
<1>4. Append(outbox, Checks({l})) \o <<GoalMsg>> = Append(Append(outbox, Checks({l})), GoalMsg)
  BY <1>1, <1>3, AppendIsConcat
<1>5. outbox \o (<<Checks({l})>> \o <<GoalMsg>>) = (outbox \o <<Checks({l})>>) \o <<GoalMsg>>
  BY <1>1, ConcatAssociative
<1>6. <<Checks({l})>> \o <<>> = <<Checks({l})>>
  BY <1>1, ConcatEmptySeq
<1>7. outbox' = IF conn # "up" THEN outbox
                ELSE IF goalToo THEN Append(Append(outbox, Checks({l})), GoalMsg)
                ELSE Append(outbox, Checks({l}))
  BY <1>2, <1>4, <1>5, <1>6 DEF Send, Messages
<1>8. outbox' \in Seq(Message)
  BY <1>1, <1>3, <1>7, AppendProperties
<1>9. \A i \in DOMAIN outbox : outbox[i] = GoalMsg \/ outbox[i] \in {Checks(S) : S \in SUBSET sent'}
  BY DEF Typed, TypeOK
<1>10. Checks({l}) \in {Checks(S) : S \in SUBSET sent'}
  OBVIOUS
<1>11. \A s \in Seq(Message), m \in Message :
         (\A i \in DOMAIN s : s[i] = GoalMsg \/ s[i] \in {Checks(S) : S \in SUBSET sent'})
         /\ (m = GoalMsg \/ m \in {Checks(S) : S \in SUBSET sent'})
         => \A i \in DOMAIN Append(s, m) :
              Append(s, m)[i] = GoalMsg \/ Append(s, m)[i] \in {Checks(S) : S \in SUBSET sent'}
  <2> SUFFICES ASSUME NEW s \in Seq(Message), NEW m \in Message,
                      \A i \in DOMAIN s : s[i] = GoalMsg \/ s[i] \in {Checks(S) : S \in SUBSET sent'},
                      m = GoalMsg \/ m \in {Checks(S) : S \in SUBSET sent'},
                      NEW i \in DOMAIN Append(s, m)
               PROVE  Append(s, m)[i] = GoalMsg
                      \/ Append(s, m)[i] \in {Checks(S) : S \in SUBSET sent'}
    OBVIOUS
  <2>1. DOMAIN s = 1..Len(s) /\ DOMAIN Append(s, m) = 1..(Len(s) + 1) /\ Len(s) \in Nat
    BY LenProperties, AppendProperties
  <2>2. CASE i = Len(s) + 1
    BY <2>2, AppendProperties
  <2>3. CASE i \in 1..Len(s)
    BY <2>1, <2>3, AppendProperties
  <2> QED BY <2>1, <2>2, <2>3
<1> QED BY <1>1, <1>3, <1>7, <1>8, <1>9, <1>10, <1>11
\* What the session detector does to its variables.
SessionOK ==
  /\ mem \in [Cells -> Place] /\ loaded \in Cells \cup {0} /\ loads \in 0..MaxLoads
  /\ loaded # 0 => mem[loaded] # Free
  /\ cached \in (SUBSET Cells) \cup {NotCached} /\ lastVal \in Names
  /\ cooling \in {"short", "long", "over"} /\ wasActive \in BOOLEAN

\* A tick decides; the game loads, names and leaves parks.
LEMMA DecideTyped == Typed /\ DecideSession => SessionOK'
<1> SUFFICES ASSUME Typed, DecideSession PROVE SessionOK'
  OBVIOUS
<1>1. TypeOK
  BY DEF Typed
<1>2. wasActive' \in BOOLEAN /\ UNCHANGED <<mem, loaded, loads>>
  BY DEF DecideSession, IsApSession, gameVars
<1>3. CASE Invalidate
  <2>1. cached' \in (SUBSET Cells) \cup {NotCached} /\ lastVal' \in Names
        /\ cooling' \in {"short", "long", "over"}
    BY <1>3 DEF Invalidate, Names
  <2> QED BY <1>1, <1>2, <2>1 DEF TypeOK, SessionOK
<1>4. CASE Remember
  <2>1. cached' \in (SUBSET Cells) \cup {NotCached} /\ lastVal' \in Names
        /\ cooling' \in {"short", "long", "over"}
    BY <1>1, <1>4, ReadingTyped DEF Remember
  <2> QED BY <1>1, <1>2, <2>1 DEF TypeOK, SessionOK
<1> QED BY <1>3, <1>4 DEF DecideSession

LEMMA ParkTyped == Typed /\ (Park \/ Cool) => SessionOK'
<1> SUFFICES ASSUME Typed, Park \/ Cool PROVE SessionOK'
  OBVIOUS
<1>1. SessionOK
  BY DEF Typed, TypeOK, SessionOK
<1>2. ASSUME NEW c \in Cells, NEW k \in Kinds, LoadPark(c, k) PROVE SessionOK'
  <2>1. PICK named \in BOOLEAN : mem' = [mem EXCEPT ![c] = [kind |-> k, named |-> named]]
    BY <1>2 DEF LoadPark
  <2>2. [kind |-> k, named |-> named] \in Place /\ [kind |-> k, named |-> named] # Free
    BY Facts DEF Place, Free
  <2>3. mem' \in [Cells -> Place] /\ mem'[c] # Free
    BY <1>1, <2>1, <2>2 DEF SessionOK
  <2>4. loads' \in 0..MaxLoads
    BY <1>1, <1>2, Facts DEF SessionOK, LoadPark
  <2> QED BY <1>1, <1>2, <2>3, <2>4 DEF SessionOK, LoadPark, readerVars
<1>3. ASSUME NamePark PROVE SessionOK'
  <2>1. loaded \in Cells /\ mem[loaded] \in Place /\ mem[loaded].kind = "ap"
    BY <1>1, <1>3 DEF SessionOK, NamePark, InAp
  <2>2. mem[loaded] # Free
    BY <1>1, <1>3 DEF SessionOK, NamePark, InAp
  <2>3. [mem[loaded] EXCEPT !.named = TRUE] \in Place
        /\ [mem[loaded] EXCEPT !.named = TRUE] # Free
    BY <2>1, <2>2 DEF Place, Free
  <2>4. mem' = [mem EXCEPT ![loaded] = [mem[loaded] EXCEPT !.named = TRUE]]
    BY <1>3 DEF NamePark
  <2> QED BY <1>1, <1>3, <2>1, <2>3, <2>4 DEF SessionOK, NamePark, readerVars
<1>4. ASSUME UnloadPark PROVE SessionOK'
  BY <1>1, <1>4 DEF SessionOK, UnloadPark, readerVars, Place, Free
<1>5. ASSUME NEW c \in Cells, Reuse(c) PROVE SessionOK'
  BY <1>1, <1>5 DEF SessionOK, Reuse, readerVars, Place, Free
<1>6. ASSUME Cool PROVE SessionOK'
  BY <1>1, <1>6 DEF SessionOK, Cool, gameVars
<1> QED BY <1>2, <1>3, <1>4, <1>5, <1>6 DEF Park
-----------------------------------------------------------------------------
(* The same for the connection and the tick                                *)

KnownMessages(s, ids) == \A i \in DOMAIN s : s[i] = GoalMsg \/ s[i] \in {Checks(S) : S \in SUBSET ids}

ReportOK ==
  /\ conn \in {"down", "open", "up"} /\ seen \subseteq Locations /\ pending \subseteq Locations
  /\ pending # {} => step = "drain"
  /\ sent \subseteq Locations /\ checked \subseteq recorded /\ goalIds \in {{}, Goal}
  /\ finished \in BOOLEAN /\ KnownMessages(outbox, sent)
  /\ outbox # <<>> => conn = "up"
  /\ recorded \subseteq Locations /\ won \in BOOLEAN
  /\ outages \in 0..MaxOutages /\ collects \in 0..MaxCollects
  /\ step \in {"idle", "poll", "drain"}
  /\ outbox \in Seq(Message)

LEMMA TypedParts == Typed <=> SessionOK /\ ReportOK
BY DEF Typed, TypeOK, SessionOK, ReportOK, KnownMessages

LEMMA PartsTyped == SessionOK' /\ ReportOK' => Typed'
BY DEF Typed, TypeOK, SessionOK, ReportOK, KnownMessages

LEMMA SessionKept == SessionOK /\ UNCHANGED sessionVars => SessionOK'
BY DEF SessionOK, sessionVars, gameVars, readerVars

LEMMA ReportCheckTyped ==
  ASSUME Typed, NEW l \in Locations, ReportCheck(l)
  PROVE  /\ sent' \subseteq Locations /\ sent \subseteq sent' /\ finished' \in BOOLEAN
         /\ UNCHANGED <<checked, goalIds>>
         /\ outbox' \in Seq(Message) /\ KnownMessages(outbox', sent')
         /\ outbox' # <<>> => conn = "up"
<1>1. CASE l \in Effective
  BY <1>1, TypedParts DEF ReportCheck, clientVars, ReportOK
<1>2. CASE l \notin Effective
  <2>1. sent' = sent \cup {l} /\ UNCHANGED <<checked, goalIds>>
        /\ Send(Messages(l, Reached(goalIds, Effective \cup {l})))
    BY <1>2 DEF ReportCheck
  <2>2. Reached(goalIds, Effective \cup {l}) \in BOOLEAN
    BY DEF Reached
  <2>3. finished' \in BOOLEAN
    BY <1>2 DEF ReportCheck, Reached
  <2>4. outbox' \in Seq(Message) /\ KnownMessages(outbox', sent')
    BY <2>1, <2>2, SendTyped DEF KnownMessages
  <2>5. outbox' # <<>> => conn = "up"
    BY <2>1, TypedParts DEF Send, ReportOK
  <2> QED BY <2>1, <2>3, <2>4, <2>5, TypedParts, PartsTyped DEF ReportOK
<1> QED BY <1>1, <1>2

LEMMA BeginTyped == Typed /\ BeginTick => Typed'
<1> SUFFICES ASSUME Typed, BeginTick PROVE Typed'
  OBVIOUS
<1>1. SessionOK'
  BY DecideTyped DEF BeginTick
<1>2. ReportOK'
  BY TypedParts DEF BeginTick, ReportOK, reportVars, queueVars, clientVars, serverVars, KnownMessages
<1> QED BY <1>1, <1>2, TypedParts, PartsTyped

LEMMA PollTyped == Typed /\ PollTriggers => Typed'
<1> SUFFICES ASSUME Typed, PollTriggers PROVE Typed'
  OBVIOUS
<1>1. ReportOK'
  BY TypedParts DEF PollTriggers, ReportOK, clientVars, serverVars, KnownMessages
<1> QED BY <1>1, TypedParts, PartsTyped, SessionKept DEF PollTriggers

LEMMA DrainTyped == Typed /\ Drain => Typed'
<1> SUFFICES ASSUME Typed, Drain PROVE Typed'
  OBVIOUS
<1>1. CASE pending = {}
  <2>1. ReportOK'
    BY <1>1, TypedParts
       DEF Drain, ReportOK, reportVars, queueVars, clientVars, serverVars, KnownMessages
  <2> QED BY <2>1, TypedParts, PartsTyped, SessionKept DEF Drain
<1>2. CASE pending # {}
  <2>1. PICK l \in pending : pending' = pending \ {l} /\ ReportCheck(l)
    BY <1>2 DEF Drain
  <2>2. l \in Locations
    BY TypedParts DEF ReportOK
  <2>3. UNCHANGED <<conn, seen, recorded, won, outages, collects, step>> /\ step = "drain"
    BY <1>2 DEF Drain, serverVars
  <2>4. ReportOK'
    BY <2>1, <2>2, <2>3, TypedParts, ReportCheckTyped DEF ReportOK
  <2> QED BY <2>4, TypedParts, PartsTyped, SessionKept DEF Drain
<1> QED BY <1>1, <1>2

LEMMA ConsoleTyped ==
  ASSUME Typed, NEW l \in Locations, ConsoleCheck(l), UNCHANGED <<sessionVars, step>>
  PROVE  Typed'
<1>1. UNCHANGED <<conn, seen, pending, recorded, won, outages, collects, step>>
  BY DEF ConsoleCheck, queueVars, serverVars
<1>2. ReportOK'
  BY <1>1, TypedParts, ReportCheckTyped DEF ConsoleCheck, ReportOK
<1> QED BY <1>2, TypedParts, PartsTyped, SessionKept

LEMMA OneTwo ==
  ASSUME NEW m \in Message, NEW n \in Message
  PROVE  <<>> \in Seq(Message) /\ <<m>> \in Seq(Message) /\ <<m, n>> \in Seq(Message)
OBVIOUS

LEMMA ConnectedTyped == Typed /\ OnConnected /\ UNCHANGED <<sessionVars, step>> => Typed'
<1> SUFFICES ASSUME Typed, OnConnected, UNCHANGED <<sessionVars, step>> PROVE Typed'
  OBVIOUS
<1>1. ReportOK
  BY TypedParts
<1>2. UNCHANGED <<seen, pending, sent, recorded, won, outages, collects, step>>
      /\ checked' = recorded /\ goalIds' = Goal /\ conn' = "up" /\ finished' \in BOOLEAN
  BY <1>1 DEF OnConnected, queueVars, serverVars, ReportOK, Reached
<1>3. Checks(sent) \in Message /\ GoalMsg \in Message
  BY <1>1, Facts DEF ReportOK
<1>4. outbox' \in {<<>> \o <<>>, <<>> \o <<GoalMsg>>, <<Checks(sent)>> \o <<>>,
                   <<Checks(sent)>> \o <<GoalMsg>>}
  BY DEF OnConnected
<1>5. outbox' \in {<<>>, <<GoalMsg>>, <<Checks(sent)>>, <<Checks(sent), GoalMsg>>}
  BY <1>3, <1>4
<1>6. outbox' \in Seq(Message)
  BY <1>3, <1>5, OneTwo
<1>7. KnownMessages(outbox', sent')
  BY <1>2, <1>5 DEF KnownMessages
<1>8. ReportOK'
  BY <1>1, <1>2, <1>6, <1>7 DEF ReportOK
<1> QED BY <1>8, TypedParts, PartsTyped, SessionKept

LEMMA UpdateTyped == Typed /\ OnRoomUpdate /\ UNCHANGED <<sessionVars, step>> => Typed'
<1> SUFFICES ASSUME Typed, OnRoomUpdate, UNCHANGED <<sessionVars, step>> PROVE Typed'
  OBVIOUS
<1>1. ReportOK
  BY TypedParts
<1>2. UNCHANGED <<conn, seen, pending, sent, goalIds, recorded, won, outages, collects, step>>
      /\ checked' = recorded /\ conn = "up" /\ finished' \in BOOLEAN
  BY <1>1 DEF OnRoomUpdate, queueVars, serverVars, ReportOK, Reached
<1>3. outbox' \in {outbox, Append(outbox, GoalMsg)}
  BY <1>1, <1>2, Facts, AppendIsConcat, ConcatEmptySeq DEF OnRoomUpdate, Send, ReportOK
<1>4. outbox' \in Seq(Message)
  BY <1>1, <1>3, Facts, AppendProperties DEF ReportOK
<1>5. KnownMessages(outbox', sent')
  <2>1. CASE outbox' = outbox
    BY <1>1, <1>2, <2>1 DEF ReportOK, KnownMessages
  <2>2. CASE outbox' = Append(outbox, GoalMsg)
    BY <1>1, <1>2, <2>2, Facts, LenProperties, AppendProperties DEF ReportOK, KnownMessages
  <2> QED BY <1>3, <2>1, <2>2
<1>6. ReportOK'
  BY <1>1, <1>2, <1>4, <1>5 DEF ReportOK
<1> QED BY <1>6, TypedParts, PartsTyped, SessionKept

LEMMA NetworkTyped == Typed /\ Network /\ UNCHANGED <<sessionVars, step>> => Typed'
<1> SUFFICES ASSUME Typed, Network, UNCHANGED <<sessionVars, step>> PROVE Typed'
  OBVIOUS
<1>1. ReportOK
  BY TypedParts
<1>2. ASSUME Open PROVE ReportOK'
  BY <1>1, <1>2 DEF Open, ReportOK, queueVars, clientVars, serverVars, KnownMessages
<1>3. ASSUME Disconnect PROVE ReportOK'
  BY <1>1, <1>3, Facts DEF Disconnect, ReportOK, queueVars, clientVars, serverVars, KnownMessages
<1>4. ASSUME Deliver PROVE ReportOK'
  <2>1. outbox # <<>> /\ outbox' = Tail(outbox) /\ Head(outbox) \in Message
    BY <1>1, <1>4, HeadTailProperties DEF Deliver, ReportOK
  <2>2. outbox' \in Seq(Message) /\ KnownMessages(outbox', sent)
    BY <1>1, <2>1, HeadTailProperties, LenProperties DEF ReportOK, KnownMessages
  <2>3. recorded' = recorded \cup Head(outbox).ids /\ won' = (won \/ Head(outbox).goal)
        /\ UNCHANGED <<conn, seen, pending, sent, checked, goalIds, finished, outages, collects>>
    BY <1>4 DEF Deliver, queueVars, clientVars
  <2>4. recorded' \subseteq Locations /\ recorded \subseteq recorded' /\ won' \in BOOLEAN
    BY <1>1, <2>1, <2>3 DEF ReportOK, Message
  <2> QED BY <1>1, <2>1, <2>2, <2>3, <2>4 DEF ReportOK
<1>5. ASSUME NEW l \in Locations, Collect(l) PROVE ReportOK'
  BY <1>1, <1>5, Facts DEF Collect, ReportOK, queueVars, clientVars, KnownMessages
<1> QED BY <1>2, <1>3, <1>4, <1>5, TypedParts, PartsTyped, SessionKept DEF Network

LEMMA OccurTyped ==
  ASSUME Typed, NEW l \in Locations, Occur(l)
  PROVE  Typed'
<1>1. ReportOK'
  BY TypedParts DEF Occur, ReportOK, clientVars, serverVars, KnownMessages
<1> QED BY <1>1, TypedParts, PartsTyped, SessionKept DEF Occur

LEMMA TypedInit == Init => Typed
<1> SUFFICES ASSUME Init PROVE Typed
  OBVIOUS
<1>1. SessionOK
  <2>1. mem \in [Cells -> Place] /\ loaded = 0 /\ loads \in 0..MaxLoads
    BY Facts DEF Init, SessionInit, Place
  <2>2. cached = NotCached /\ lastVal \in Names /\ cooling = "over" /\ wasActive = FALSE
    BY DEF Init, SessionInit, Names, NotCached
  <2> QED BY <2>1, <2>2 DEF SessionOK
<1>2. ReportOK
  <2>1. outbox = <<>> /\ outbox \in Seq(Message) /\ KnownMessages(outbox, sent)
    BY DEF Init, ReportInit, KnownMessages
  <2>2. outages \in 0..MaxOutages /\ collects \in 0..MaxCollects
    BY Facts DEF Init, ReportInit
  <2>3. conn = "down" /\ seen = {} /\ pending = {} /\ sent = {} /\ checked = {} /\ goalIds = {}
        /\ finished = FALSE /\ recorded = {} /\ won = FALSE /\ step = "idle"
    BY DEF Init, ReportInit
  <2> QED BY <2>1, <2>2, <2>3 DEF ReportOK
<1> QED BY <1>1, <1>2, TypedParts, PartsTyped

LEMMA TypedNext == Typed /\ [Next]_vars => Typed'
<1> SUFFICES ASSUME Typed, [Next]_vars PROVE Typed'
  OBVIOUS
<1>1. CASE Tick
  BY <1>1, BeginTyped, PollTyped, DrainTyped DEF Tick
<1>2. CASE Loop /\ UNCHANGED <<sessionVars, step>>
  BY <1>2, ConsoleTyped, ConnectedTyped, UpdateTyped DEF Loop
<1>3. CASE Network /\ UNCHANGED <<sessionVars, step>>
  BY <1>3, NetworkTyped
<1>4. CASE (Park \/ Cool) /\ UNCHANGED <<reportVars, step>>
  <2>1. ReportOK'
    BY <1>4, TypedParts DEF ReportOK, reportVars, queueVars, clientVars, serverVars, KnownMessages
  <2> QED BY <1>4, <2>1, ParkTyped, TypedParts, PartsTyped
<1>5. CASE \E l \in Locations : Occur(l)
  BY <1>5, OccurTyped
<1>6. CASE UNCHANGED vars
  <2>1. ReportOK'
    BY <1>6, TypedParts
       DEF vars, ReportOK, reportVars, queueVars, clientVars, serverVars, KnownMessages
  <2> QED BY <1>6, <2>1, TypedParts, PartsTyped, SessionKept DEF vars
<1> QED BY <1>1, <1>2, <1>3, <1>4, <1>5, <1>6 DEF Next

\* Every variable of ClientLoop keeps its type, for any places, kinds of parks,
\* locations and races: a location waits in the queue only while it is being
\* drained, and nothing is on its way over a connection that is not up.
THEOREM TypeCorrect == Spec => []TypeOK
<1>1. Typed => TypeOK
  BY DEF Typed
<1> QED BY <1>1, TypedInit, TypedNext, PTL DEF Spec

-----------------------------------------------------------------------------
(* The goal                                                                *)

\* The locations in the first n messages of a sequence.
Carried(s, n) == UNION {s[j].ids : j \in 1..n}

\* A message about the goal stands behind the locations it needs.
Backed(s, rec) == \A i \in 1..Len(s) : s[i].goal => Goal \subseteq rec \cup Carried(s, i - 1)

OnItsWay == Carried(outbox, Len(outbox))

\* GoalAfterChecks for what is on its way; what counts as sent is with the
\* server or on its way while a connection is up, and what made the goal is
\* sent again over the next one.
IInv ==
  /\ Typed /\ GoalAfterChecks
  /\ Backed(outbox, recorded)
  /\ finished => Goal \subseteq recorded \cup sent
  /\ conn = "up" => sent \subseteq recorded \cup OnItsWay

LEMMA NothingCarried ==
  ASSUME NEW s, NEW rec
  PROVE  Carried(s, 0) = {} /\ Carried(<<>>, Len(<<>>)) = {} /\ Backed(<<>>, rec)
BY DEF Carried, Backed

\* One message more.
LEMMA AppendCarried ==
  ASSUME NEW s \in Seq(Message), NEW m \in Message
  PROVE  /\ Carried(Append(s, m), Len(Append(s, m))) = Carried(s, Len(s)) \cup m.ids
         /\ \A rec : Backed(Append(s, m), rec)
              <=> Backed(s, rec) /\ (m.goal => Goal \subseteq rec \cup Carried(s, Len(s)))
<1> DEFINE t == Append(s, m)
<1>1. /\ Len(t) = Len(s) + 1 /\ Len(s) \in Nat /\ t[Len(s) + 1] = m
      /\ \A i \in 1..Len(s) : t[i] = s[i]
  BY AppendProperties, LenProperties
<1>2. \A n \in 0..Len(s) : Carried(t, n) = Carried(s, n)
  BY <1>1 DEF Carried
<1>3. Carried(t, Len(s) + 1) = Carried(t, Len(s)) \cup m.ids
  <2>1. 1..(Len(s) + 1) = (1..Len(s)) \cup {Len(s) + 1}
    BY <1>1
  <2> QED BY <1>1, <2>1 DEF Carried
<1>4. Carried(t, Len(t)) = Carried(s, Len(s)) \cup m.ids
  BY <1>1, <1>2, <1>3
<1>5. ASSUME NEW rec
      PROVE  Backed(t, rec) <=> Backed(s, rec) /\ (m.goal => Goal \subseteq rec \cup Carried(s, Len(s)))
  <2>1. \A i \in 1..Len(s) : Carried(t, i - 1) = Carried(s, i - 1)
    BY <1>1, <1>2
  <2>2. Carried(t, (Len(s) + 1) - 1) = Carried(s, Len(s))
    BY <1>1, <1>2
  <2>3. \A i \in 1..Len(t) : i \in 1..Len(s) \/ i = Len(s) + 1
    BY <1>1
  <2>4. Len(s) + 1 \in 1..Len(t) /\ \A i \in 1..Len(s) : i \in 1..Len(t)
    BY <1>1
  <2> QED BY <1>1, <2>1, <2>2, <2>3, <2>4 DEF Backed
<1> QED BY <1>4, <1>5

\* The first message arrives.
LEMMA TailCarried ==
  ASSUME NEW s \in Seq(Message), s # <<>>, NEW rec
  PROVE  /\ Backed(s, rec) => /\ Backed(Tail(s), rec \cup Head(s).ids)
                              /\ Head(s).goal => Goal \subseteq rec
         /\ Carried(s, Len(s)) = Head(s).ids \cup Carried(Tail(s), Len(Tail(s)))
<1> DEFINE t == Tail(s)
<1>1. /\ Len(t) = Len(s) - 1 /\ Len(s) \in Nat /\ Len(s) >= 1 /\ Head(s) = s[1]
      /\ \A i \in 1..Len(t) : t[i] = s[i + 1]
  BY HeadTailProperties, LenProperties, EmptySeq
<1>2. \A n \in 0..Len(t) : Carried(s, n + 1) = s[1].ids \cup Carried(t, n)
  <2> SUFFICES ASSUME NEW n \in 0..Len(t)
               PROVE  Carried(s, n + 1) = s[1].ids \cup Carried(t, n)
    OBVIOUS
  <2>1. \A j \in 1..n : t[j] = s[j + 1] /\ j + 1 \in 1..(n + 1)
    BY <1>1
  <2>2. \A j \in 1..(n + 1) : j = 1 \/ (j - 1 \in 1..n /\ (j - 1) + 1 = j)
    BY <1>1
  <2>3. 1 \in 1..(n + 1)
    BY <1>1
  <2>4. \A x : x \in Carried(s, n + 1) <=> \E j \in 1..(n + 1) : x \in s[j].ids
    BY DEF Carried
  <2>5. \A x : x \in Carried(t, n) <=> \E j \in 1..n : x \in t[j].ids
    BY DEF Carried
  <2>6. \A x : x \in Carried(s, n + 1) <=> x \in s[1].ids \/ x \in Carried(t, n)
    <3>1. ASSUME NEW x, x \in Carried(s, n + 1) PROVE x \in s[1].ids \/ x \in Carried(t, n)
      <4>1. PICK j \in 1..(n + 1) : x \in s[j].ids
        BY <2>4, <3>1
      <4>2. CASE j = 1
        BY <4>1, <4>2
      <4>3. CASE j - 1 \in 1..n /\ (j - 1) + 1 = j
        BY <2>1, <2>5, <4>1, <4>3
      <4> QED BY <2>2, <4>2, <4>3
    <3>2. ASSUME NEW x, x \in Carried(t, n) PROVE x \in Carried(s, n + 1)
      BY <2>1, <2>4, <2>5, <3>2
    <3>3. ASSUME NEW x, x \in s[1].ids PROVE x \in Carried(s, n + 1)
      BY <2>3, <2>4, <3>3
    <3> QED BY <3>1, <3>2, <3>3
  <2> QED BY <2>6
<1>3. Carried(s, Len(s)) = Head(s).ids \cup Carried(t, Len(t))
  <2>1. Len(t) \in 0..Len(t) /\ Len(t) + 1 = Len(s)
    BY <1>1
  <2>2. Carried(s, Len(t) + 1) = s[1].ids \cup Carried(t, Len(t))
    BY <1>2, <2>1
  <2> QED BY <1>1, <2>1, <2>2
<1>4. ASSUME Backed(s, rec) PROVE Backed(t, rec \cup Head(s).ids)
  <2> SUFFICES ASSUME NEW i \in 1..Len(t), t[i].goal
               PROVE  Goal \subseteq (rec \cup Head(s).ids) \cup Carried(t, i - 1)
    BY DEF Backed
  <2>1. i + 1 \in 1..Len(s) /\ s[i + 1].goal /\ i - 1 \in 0..Len(t)
    BY <1>1
  <2>2. Goal \subseteq rec \cup Carried(s, (i + 1) - 1)
    BY <1>4, <2>1 DEF Backed
  <2>3. Carried(s, (i - 1) + 1) = s[1].ids \cup Carried(t, i - 1)
    BY <1>2, <2>1
  <2>4. (i - 1) + 1 = (i + 1) - 1
    BY <1>1
  <2> QED BY <1>1, <2>2, <2>3, <2>4
<1>5. ASSUME Backed(s, rec), Head(s).goal PROVE Goal \subseteq rec
  <2>1. Goal \subseteq rec \cup Carried(s, 1 - 1)
    BY <1>1, <1>5 DEF Backed
  <2> QED BY <2>1, NothingCarried
<1> QED BY <1>3, <1>4, <1>5

\* A LocationChecks behind the others; the goal behind the others.
LEMMA AppendChecks ==
  ASSUME NEW s \in Seq(Message), NEW S \in SUBSET Locations
  PROVE  /\ Append(s, Checks(S)) \in Seq(Message)
         /\ Carried(Append(s, Checks(S)), Len(Append(s, Checks(S)))) = Carried(s, Len(s)) \cup S
         /\ \A rec : Backed(s, rec) => Backed(Append(s, Checks(S)), rec)
<1>1. Checks(S) \in Message
  BY Facts
<1>2. Checks(S).goal = FALSE
  BY DEF Checks
<1>3. Checks(S).ids = S
  BY DEF Checks
<1>4. Append(s, Checks(S)) \in Seq(Message)
  BY <1>1, AppendProperties
<1>5. Carried(Append(s, Checks(S)), Len(Append(s, Checks(S)))) = Carried(s, Len(s)) \cup Checks(S).ids
  BY <1>1, AppendCarried
<1>6. ASSUME NEW rec, Backed(s, rec) PROVE Backed(Append(s, Checks(S)), rec)
  <2>1. Backed(Append(s, Checks(S)), rec)
        <=> Backed(s, rec) /\ (Checks(S).goal => Goal \subseteq rec \cup Carried(s, Len(s)))
    BY <1>1, AppendCarried
  <2> QED BY <1>2, <1>6, <2>1
<1> QED BY <1>3, <1>4, <1>5, <1>6

LEMMA AppendGoal ==
  ASSUME NEW s \in Seq(Message)
  PROVE  /\ Carried(Append(s, GoalMsg), Len(Append(s, GoalMsg))) = Carried(s, Len(s))
         /\ \A rec : Backed(s, rec) /\ Goal \subseteq rec \cup Carried(s, Len(s))
                       => Backed(Append(s, GoalMsg), rec)
<1>1. GoalMsg \in Message
  BY Facts
<1>2. GoalMsg.ids = {}
  BY DEF GoalMsg
<1>3. Carried(Append(s, GoalMsg), Len(Append(s, GoalMsg))) = Carried(s, Len(s)) \cup GoalMsg.ids
  BY <1>1, AppendCarried
<1>4. ASSUME NEW rec, Backed(s, rec), Goal \subseteq rec \cup Carried(s, Len(s))
      PROVE  Backed(Append(s, GoalMsg), rec)
  <2>1. Backed(Append(s, GoalMsg), rec)
        <=> Backed(s, rec) /\ (GoalMsg.goal => Goal \subseteq rec \cup Carried(s, Len(s)))
    BY <1>1, AppendCarried
  <2> QED BY <1>4, <2>1
<1> QED BY <1>2, <1>3, <1>4

\* More with the server makes nothing worse.
LEMMA BackedGrows ==
  ASSUME NEW s, NEW rec, NEW more, rec \subseteq more, Backed(s, rec)
  PROVE  Backed(s, more)
BY DEF Backed

\* A report sends the location first, and the goal only when it has become
\* complete.
LEMMA ReportKeeps ==
  ASSUME IInv, NEW l \in Locations, ReportCheck(l), UNCHANGED <<conn, recorded, won>>, Typed'
  PROVE  IInv'
<1>1. Typed
  BY DEF IInv
<1>2. CASE l \in Effective
  BY <1>2 DEF ReportCheck, clientVars, IInv, GoalAfterChecks, OnItsWay
<1>3. CASE l \notin Effective
  <2> DEFINE goalToo == Reached(goalIds, Effective \cup {l})
  <2>1. /\ sent' = sent \cup {l} /\ finished' = (finished \/ goalToo)
        /\ Send(Messages(l, goalToo))
    BY <1>3 DEF ReportCheck
  <2>2. goalToo \in BOOLEAN
    BY DEF Reached
  <2>3. goalToo => Goal \subseteq recorded \cup (sent \cup {l})
    BY <1>1 DEF Typed, TypeOK, Reached, Effective
  <2>4. finished' => Goal \subseteq recorded' \cup sent'
    BY <2>1, <2>2, <2>3 DEF IInv
  <2>5. CASE conn # "up"
    <3>1. outbox' = outbox
      BY <2>1, <2>5 DEF Send
    <3> QED BY <2>4, <2>5, <3>1 DEF IInv, GoalAfterChecks
  <2>6. CASE conn = "up"
    <3> DEFINE s == Append(outbox, Checks({l}))
    <3>1. outbox \in Seq(Message) /\ {l} \in SUBSET Locations
      BY <1>1 DEF Typed
    <3>2. s \in Seq(Message)
      BY <3>1, AppendChecks
    <3>3. outbox' = IF goalToo THEN Append(s, GoalMsg) ELSE s
      BY <1>1, <2>1, <2>2, <2>6, SendTyped
    <3>4. Carried(s, Len(s)) = OnItsWay \cup {l} /\ Backed(s, recorded)
      BY <3>1, AppendChecks DEF OnItsWay, IInv
    <3>5. sent \subseteq recorded \cup OnItsWay
      BY <2>6 DEF IInv
    <3>6. CASE goalToo
      <4>1. Goal \subseteq recorded \cup Carried(s, Len(s))
        BY <2>3, <3>4, <3>5, <3>6
      <4>2. Carried(outbox', Len(outbox')) = Carried(s, Len(s)) /\ Backed(outbox', recorded)
        BY <2>1, <3>2, <3>3, <3>4, <3>6, <4>1, AppendGoal
      <4> QED BY <2>1, <2>4, <2>6, <3>4, <3>5, <4>2 DEF IInv, GoalAfterChecks, OnItsWay
    <3>7. CASE ~goalToo
      BY <2>1, <2>4, <2>6, <3>3, <3>4, <3>5, <3>7 DEF IInv, GoalAfterChecks, OnItsWay
    <3> QED BY <3>6, <3>7
  <2> QED BY <2>5, <2>6
<1> QED BY <1>2, <1>3

\* A new connection: what is remembered first, then the goal.
LEMMA ConnectedKeeps ==
  ASSUME IInv, OnConnected, Typed'
  PROVE  IInv'
<1>1. Typed
  BY DEF IInv
<1>2. UNCHANGED <<sent, recorded, won>> /\ conn' = "up"
  BY DEF OnConnected, serverVars
<1>3. sent \in SUBSET Locations /\ GoalMsg \in Message
  BY <1>1, Facts DEF Typed, TypeOK
<1>4. finished' => Goal \subseteq recorded \cup sent
  BY DEF OnConnected, IInv, Reached
<1> DEFINE first == IF sent = {} THEN <<>> ELSE <<Checks(sent)>>
<1>5. first \in Seq(Message) /\ Carried(first, Len(first)) = sent /\ Backed(first, recorded)
  <2>1. <<>> \in Seq(Message)
    BY EmptySeq
  <2>2. CASE sent = {}
    <3>1. first = <<>>
      BY <2>2
    <3>2. Carried(<<>>, Len(<<>>)) = sent
      BY <2>2, NothingCarried
    <3>3. Backed(<<>>, recorded)
      BY NothingCarried
    <3> HIDE DEF first
    <3> QED BY <2>1, <3>1, <3>2, <3>3
  <2>3. CASE sent # {}
    <3>1. first = Append(<<>>, Checks(sent))
      BY <1>3, <2>3
    <3>2. Carried(<<>>, Len(<<>>)) \cup sent = sent /\ Backed(<<>>, recorded)
      BY NothingCarried
    <3> HIDE DEF first
    <3> QED BY <1>3, <2>1, <3>1, <3>2, AppendChecks
  <2> QED BY <2>2, <2>3
<1>6. outbox' = IF finished' THEN Append(first, GoalMsg) ELSE first
  <2>1. outbox' = first \o (IF finished' THEN <<GoalMsg>> ELSE <<>>)
    BY DEF OnConnected
  <2>2. first \o <<GoalMsg>> = Append(first, GoalMsg) /\ first \o <<>> = first
    BY <1>3, <1>5, AppendIsConcat, ConcatEmptySeq
  <2> QED BY <2>1, <2>2
<1>7. Backed(outbox', recorded) /\ sent \subseteq recorded \cup Carried(outbox', Len(outbox'))
  <2> HIDE DEF first
  <2>1. CASE finished'
    <3>1. outbox' = Append(first, GoalMsg)
      BY <1>6, <2>1
    <3>2. Goal \subseteq recorded \cup Carried(first, Len(first))
      BY <1>4, <1>5, <2>1
    <3> QED BY <1>5, <3>1, <3>2, AppendGoal
  <2>2. CASE ~finished'
    BY <1>5, <1>6, <2>2
  <2> QED BY <2>1, <2>2
<1> QED BY <1>2, <1>4, <1>7 DEF IInv, GoalAfterChecks, OnItsWay

LEMMA UpdateKeeps ==
  ASSUME IInv, OnRoomUpdate, Typed'
  PROVE  IInv'
<1>1. Typed
  BY DEF IInv
<1> DEFINE reached == Reached(goalIds, recorded \cup sent)
<1>2. UNCHANGED <<conn, sent, recorded, won>> /\ conn = "up" /\ finished' = (finished \/ reached)
      /\ Send(IF reached THEN <<GoalMsg>> ELSE <<>>)
  BY DEF OnRoomUpdate, serverVars
<1>3. reached => Goal \subseteq recorded \cup sent
  BY <1>1 DEF Reached, Typed, TypeOK
<1>4. outbox \in Seq(Message) /\ GoalMsg \in Message
  BY <1>1, Facts DEF Typed
<1>5. outbox' = IF reached THEN Append(outbox, GoalMsg) ELSE outbox
  BY <1>2, <1>4, AppendIsConcat, ConcatEmptySeq DEF Send
<1>6. sent \subseteq recorded \cup OnItsWay /\ Backed(outbox, recorded)
  BY <1>2 DEF IInv
<1>7. Backed(outbox', recorded) /\ Carried(outbox', Len(outbox')) = OnItsWay
  <2>1. CASE reached
    <3>1. Goal \subseteq recorded \cup OnItsWay
      BY <1>3, <1>6, <2>1
    <3>2. outbox' = Append(outbox, GoalMsg)
      BY <1>5, <2>1
    <3>3. Goal \subseteq recorded \cup Carried(outbox, Len(outbox))
      BY <3>1 DEF OnItsWay
    <3>4. Backed(outbox', recorded)
      BY <1>4, <1>6, <3>2, <3>3, AppendGoal
    <3>5. Carried(outbox', Len(outbox')) = Carried(outbox, Len(outbox))
      BY <1>4, <3>2, AppendGoal
    <3> QED BY <3>4, <3>5 DEF OnItsWay
  <2>2. CASE ~reached
    BY <1>5, <1>6, <2>2 DEF OnItsWay
  <2> QED BY <2>1, <2>2
<1> QED BY <1>2, <1>3, <1>6, <1>7 DEF IInv, GoalAfterChecks, OnItsWay

LEMMA NetworkKeeps ==
  ASSUME IInv, Network, Typed'
  PROVE  IInv'
<1>1. ASSUME Open PROVE IInv'
  BY <1>1 DEF Open, clientVars, serverVars, IInv, GoalAfterChecks
<1>2. ASSUME Disconnect PROVE IInv'
  <2>1. outbox' = <<>> /\ conn' # "up" /\ UNCHANGED <<sent, finished, recorded, won>>
    BY <1>2 DEF Disconnect, clientVars, serverVars
  <2>2. Backed(outbox', recorded)
    BY <2>1, NothingCarried
  <2> QED BY <2>1, <2>2 DEF IInv, GoalAfterChecks
<1>3. ASSUME Deliver PROVE IInv'
  <2>1. /\ outbox # <<>> /\ outbox' = Tail(outbox) /\ recorded' = recorded \cup Head(outbox).ids
        /\ won' = (won \/ Head(outbox).goal) /\ UNCHANGED <<conn, sent, finished>>
    BY <1>3 DEF Deliver, clientVars
  <2>2. outbox \in Seq(Message)
    BY DEF IInv, Typed
  <2>3. /\ Backed(outbox', recorded')
        /\ Head(outbox).goal => Goal \subseteq recorded
        /\ OnItsWay = Head(outbox).ids \cup Carried(outbox', Len(outbox'))
    BY <2>1, <2>2, TailCarried DEF IInv, OnItsWay
  <2>4. won' => Goal \subseteq recorded'
    <3>1. won => Goal \subseteq recorded
      BY DEF IInv, GoalAfterChecks
    <3>2. recorded \subseteq recorded'
      BY <2>1
    <3>3. won' => won \/ Head(outbox).goal
      BY <2>1
    <3> QED BY <2>3, <3>1, <3>2, <3>3
  <2>5. finished' => Goal \subseteq recorded' \cup sent'
    BY <2>1 DEF IInv
  <2>6. conn' = "up" => sent' \subseteq recorded' \cup Carried(outbox', Len(outbox'))
    BY <2>1, <2>3 DEF IInv
  <2> QED BY <2>3, <2>4, <2>5, <2>6 DEF IInv, GoalAfterChecks, OnItsWay
<1>4. ASSUME NEW l \in Locations, Collect(l) PROVE IInv'
  <2>1. recorded \subseteq recorded' /\ UNCHANGED <<conn, sent, finished, outbox, won>>
    BY <1>4 DEF Collect, clientVars
  <2>2. Backed(outbox', recorded')
    BY <2>1, BackedGrows DEF IInv
  <2> QED BY <2>1, <2>2 DEF IInv, GoalAfterChecks, OnItsWay
<1> QED BY <1>1, <1>2, <1>3, <1>4 DEF Network

\* What leaves the connection and the records alone.
LEMMA Elsewhere ==
  ASSUME IInv, Typed', UNCHANGED <<conn, sent, finished, outbox, recorded, won>>
  PROVE  IInv'
BY DEF IInv, GoalAfterChecks, OnItsWay

LEMMA IInvNext == IInv /\ [Next]_vars => IInv'
<1> SUFFICES ASSUME IInv, [Next]_vars PROVE IInv'
  OBVIOUS
<1>1. Typed /\ Typed'
  BY TypedNext DEF IInv
<1>2. CASE BeginTick \/ PollTriggers
  BY <1>1, <1>2, Elsewhere
     DEF BeginTick, PollTriggers, reportVars, clientVars, serverVars
<1>3. CASE Drain
  <2>1. CASE pending = {}
    BY <1>1, <1>3, <2>1, Elsewhere DEF Drain, reportVars, clientVars, serverVars
  <2>2. CASE pending # {}
    <3>1. PICK l \in pending : ReportCheck(l)
      BY <1>3, <2>2 DEF Drain
    <3>2. l \in Locations /\ UNCHANGED <<conn, recorded, won>>
      BY <1>1, <1>3, <2>2 DEF Drain, serverVars, Typed, TypeOK
    <3> QED BY <1>1, <3>1, <3>2, ReportKeeps
  <2> QED BY <2>1, <2>2
<1>4. CASE Loop
  <2>1. ASSUME NEW l \in Locations, ConsoleCheck(l) PROVE IInv'
    BY <1>1, <2>1, ReportKeeps DEF ConsoleCheck, serverVars
  <2> QED BY <1>1, <1>4, <2>1, ConnectedKeeps, UpdateKeeps DEF Loop
<1>5. CASE Network
  BY <1>1, <1>5, NetworkKeeps
<1>6. CASE UNCHANGED reportVars
  BY <1>1, <1>6, Elsewhere DEF reportVars, clientVars, serverVars
<1>7. CASE \E l \in Locations : Occur(l)
  BY <1>1, <1>7, Elsewhere DEF Occur, clientVars, serverVars
<1> QED BY <1>2, <1>3, <1>4, <1>5, <1>6, <1>7 DEF Next, Tick, vars

LEMMA IInvInit == Init => IInv
<1> SUFFICES ASSUME Init PROVE IInv
  OBVIOUS
<1>1. Typed
  BY TypedInit
<1>2. conn = "down" /\ sent = {} /\ finished = FALSE /\ outbox = <<>> /\ recorded = {} /\ won = FALSE
  BY DEF Init, ReportInit
<1>3. Backed(outbox, recorded)
  BY <1>2, NothingCarried
<1> QED BY <1>1, <1>2, <1>3 DEF IInv, GoalAfterChecks

\* The server learns of the goal only after every location that it consists
\* of: for any locations, over any number of lost connections and locations
\* collected by others, and wherever a tick, a packet or /pz_check comes in
\* between (report_check, _check_goal, on_package).
THEOREM GoalComesLast == Spec => []GoalAfterChecks
<1>1. IInv => GoalAfterChecks
  BY DEF IInv
<1> QED BY <1>1, IInvInit, IInvNext, PTL DEF Spec

-----------------------------------------------------------------------------
(* Nothing is forgotten                                                    *)

\* The client has been told of all that the server has, and nothing is on its
\* way.
AtRest == conn = "up" /\ outbox = <<>> /\ checked = recorded

\* Then the server has all that the client counts as sent, and knows of the
\* goal when it has the locations of the goal.
Quiet == AtRest => sent \subseteq recorded /\ (Goal # {} /\ Goal \subseteq recorded => won)

GoalTold(s, known) == known \/ \E i \in 1..Len(s) : s[i].goal

\* What a client that is connected has done about the goal: it knows which
\* locations it consists of, has decided on it when they are complete, and
\* what it has decided is with the server or on its way.
Informed ==
  conn = "up" => /\ goalIds = Goal
                 /\ Goal # {} /\ Goal \subseteq Effective => finished
                 /\ finished => GoalTold(outbox, won)

LEMMA AppendTold ==
  ASSUME NEW s \in Seq(Message), NEW m \in Message, NEW known
  PROVE  /\ GoalTold(s, known) => GoalTold(Append(s, m), known)
         /\ m.goal => GoalTold(Append(s, m), known)
<1>1. /\ Len(Append(s, m)) = Len(s) + 1 /\ Len(s) \in Nat /\ Append(s, m)[Len(s) + 1] = m
      /\ \A i \in 1..Len(s) : Append(s, m)[i] = s[i]
  BY AppendProperties, LenProperties
<1>2. Len(s) + 1 \in 1..Len(Append(s, m)) /\ \A i \in 1..Len(s) : i \in 1..Len(Append(s, m))
  BY <1>1
<1> QED BY <1>1, <1>2 DEF GoalTold

LEMMA TailTold ==
  ASSUME NEW s \in Seq(Message), s # <<>>, NEW known, GoalTold(s, known)
  PROVE  GoalTold(Tail(s), known \/ Head(s).goal)
<1>1. /\ Len(Tail(s)) = Len(s) - 1 /\ Len(s) \in Nat /\ Len(s) >= 1 /\ Head(s) = s[1]
      /\ \A i \in 1..Len(Tail(s)) : Tail(s)[i] = s[i + 1]
  BY HeadTailProperties, LenProperties, EmptySeq
<1>2. CASE known
  BY <1>2 DEF GoalTold
<1>3. CASE \E i \in 1..Len(s) : s[i].goal
  <2>1. PICK i \in 1..Len(s) : s[i].goal
    BY <1>3
  <2>2. CASE i = 1
    BY <1>1, <2>1, <2>2 DEF GoalTold
  <2>3. CASE i # 1
    <3>1. i - 1 \in 1..Len(Tail(s)) /\ (i - 1) + 1 = i
      BY <1>1, <2>3
    <3>2. Tail(s)[i - 1].goal
      BY <1>1, <2>1, <3>1
    <3> QED BY <3>1, <3>2 DEF GoalTold
  <2> QED BY <2>2, <2>3
<1> QED BY <1>2, <1>3 DEF GoalTold

\* A report decides on the goal with what it has just added.
LEMMA ReportInforms ==
  ASSUME Typed, Informed, NEW l \in Locations, ReportCheck(l), UNCHANGED <<conn, recorded, won>>
  PROVE  Informed'
<1>1. CASE l \in Effective
  BY <1>1 DEF ReportCheck, clientVars, Informed, Effective
<1>2. CASE l \notin Effective
  <2> SUFFICES ASSUME conn = "up" PROVE Informed'
    BY DEF Informed
  <2> DEFINE goalToo == Reached(goalIds, Effective \cup {l})
             s       == Append(outbox, Checks({l}))
  <2>1. /\ sent' = sent \cup {l} /\ finished' = (finished \/ goalToo)
        /\ Send(Messages(l, goalToo)) /\ UNCHANGED <<checked, goalIds>>
    BY <1>2 DEF ReportCheck
  <2>2. goalToo \in BOOLEAN /\ goalIds = Goal
    BY DEF Reached, Informed
  <2>3. Effective' = Effective \cup {l}
    BY <2>1 DEF Effective
  <2>4. Goal # {} /\ Goal \subseteq Effective' => finished'
    BY <2>1, <2>2, <2>3 DEF Reached
  <2>5. outbox \in Seq(Message) /\ Checks({l}) \in Message /\ GoalMsg \in Message /\ GoalMsg.goal
    BY Facts DEF Typed, GoalMsg
  <2>6. outbox' = IF goalToo THEN Append(s, GoalMsg) ELSE s
    BY <2>1, <2>2, SendTyped
  <2>7. s \in Seq(Message)
    BY <2>5, AppendProperties
  <2>8. finished' => GoalTold(outbox', won)
    <3> HIDE DEF s
    <3>1. CASE goalToo
      BY <2>5, <2>6, <2>7, <3>1, AppendTold
    <3>2. CASE ~goalToo
      <4>1. finished => GoalTold(outbox, won)
        BY DEF Informed
      <4>2. GoalTold(outbox, won) => GoalTold(s, won)
        BY <2>5, AppendTold DEF s
      <4> QED BY <2>1, <2>6, <3>2, <4>1, <4>2
    <3> QED BY <3>1, <3>2
  <2> QED BY <2>1, <2>2, <2>4, <2>8 DEF Informed
<1> QED BY <1>1, <1>2

\* A new connection tells of the goal once more.
LEMMA ConnectedInforms ==
  ASSUME Typed, OnConnected
  PROVE  Informed'
<1> DEFINE first == IF sent = {} THEN <<>> ELSE <<Checks(sent)>>
<1>1. goalIds' = Goal /\ checked' = recorded /\ sent' = sent /\ won' = won
      /\ finished' = (finished \/ Reached(Goal, recorded \cup sent))
      /\ outbox' = first \o (IF finished' THEN <<GoalMsg>> ELSE <<>>)
  BY DEF OnConnected, serverVars
<1>2. Goal # {} /\ Goal \subseteq Effective' => finished'
  BY <1>1 DEF Reached, Effective
<1>3. finished' => GoalTold(outbox', won')
  <2> SUFFICES ASSUME finished' PROVE GoalTold(outbox', won')
    OBVIOUS
  <2>1. first \in Seq(Message) /\ GoalMsg \in Message /\ GoalMsg.goal
    <3>1. Checks(sent) \in Message
      BY Facts DEF Typed, TypeOK
    <3>2. GoalMsg \in Message
      BY Facts
    <3> QED BY <3>1, <3>2, EmptySeq DEF GoalMsg
  <2> HIDE DEF first
  <2>2. outbox' = Append(first, GoalMsg)
    BY <1>1, <2>1, AppendIsConcat
  <2> QED BY <2>1, <2>2, AppendTold
<1> QED BY <1>1, <1>2, <1>3 DEF Informed

LEMMA UpdateInforms ==
  ASSUME Typed, Informed, OnRoomUpdate
  PROVE  Informed'
<1> DEFINE reached == Reached(goalIds, recorded \cup sent)
<1>1. UNCHANGED <<conn, sent, goalIds, won>> /\ conn = "up" /\ checked' = recorded
      /\ finished' = (finished \/ reached) /\ Send(IF reached THEN <<GoalMsg>> ELSE <<>>)
  BY DEF OnRoomUpdate, serverVars
<1>2. goalIds = Goal /\ (finished => GoalTold(outbox, won))
  BY <1>1 DEF Informed
<1>3. Goal # {} /\ Goal \subseteq Effective' => finished'
  BY <1>1, <1>2 DEF Reached, Effective
<1>4. outbox \in Seq(Message) /\ GoalMsg \in Message /\ GoalMsg.goal
  BY Facts DEF Typed, GoalMsg
<1>5. outbox' = IF reached THEN Append(outbox, GoalMsg) ELSE outbox
  BY <1>1, <1>4, AppendIsConcat, ConcatEmptySeq DEF Send
<1>6. finished' => GoalTold(outbox', won)
  <2> HIDE DEF reached
  <2> QED BY <1>1, <1>2, <1>4, <1>5, AppendTold
<1> QED BY <1>1, <1>2, <1>3, <1>6 DEF Informed

LEMMA NetworkInforms ==
  ASSUME Typed, Informed, Network
  PROVE  Informed'
<1>1. ASSUME Open \/ Disconnect PROVE Informed'
  BY <1>1 DEF Open, Disconnect, Informed
<1>2. ASSUME Deliver PROVE Informed'
  <2>1. /\ outbox # <<>> /\ outbox' = Tail(outbox) /\ won' = (won \/ Head(outbox).goal)
        /\ UNCHANGED <<conn, sent, checked, goalIds, finished>>
    BY <1>2 DEF Deliver, clientVars
  <2>2. outbox \in Seq(Message)
    BY DEF Typed
  <2>3. GoalTold(outbox, won) => GoalTold(outbox', won')
    BY <2>1, <2>2, TailTold
  <2> QED BY <2>1, <2>3 DEF Informed, Effective
<1>3. ASSUME NEW l \in Locations, Collect(l) PROVE Informed'
  BY <1>3 DEF Collect, clientVars, Informed, Effective
<1> QED BY <1>1, <1>2, <1>3 DEF Network

LEMMA InformedNext == Typed /\ Informed /\ [Next]_vars => Informed'
<1> SUFFICES ASSUME Typed, Informed, [Next]_vars PROVE Informed'
  OBVIOUS
<1>1. ASSUME UNCHANGED <<conn, sent, checked, goalIds, finished, outbox, won>> PROVE Informed'
  BY <1>1 DEF Informed, Effective
<1>2. CASE BeginTick \/ PollTriggers \/ UNCHANGED reportVars \/ \E l \in Locations : Occur(l)
  BY <1>1, <1>2 DEF BeginTick, PollTriggers, Occur, reportVars, clientVars, serverVars
<1>3. CASE Drain
  <2>1. CASE pending = {}
    BY <1>1, <1>3, <2>1 DEF Drain, reportVars, clientVars, serverVars
  <2>2. CASE pending # {}
    <3>1. PICK l \in pending : ReportCheck(l)
      BY <1>3, <2>2 DEF Drain
    <3>2. l \in Locations /\ UNCHANGED <<conn, recorded, won>>
      BY <1>3, <2>2 DEF Drain, serverVars, Typed, TypeOK
    <3> QED BY <3>1, <3>2, ReportInforms
  <2> QED BY <2>1, <2>2
<1>4. CASE Loop
  <2>1. ASSUME NEW l \in Locations, ConsoleCheck(l) PROVE Informed'
    BY <2>1, ReportInforms DEF ConsoleCheck, serverVars
  <2> QED BY <1>4, <2>1, ConnectedInforms, UpdateInforms DEF Loop
<1>5. CASE Network
  BY <1>5, NetworkInforms
<1> QED BY <1>2, <1>3, <1>4, <1>5 DEF Next, Tick, vars

\* What is left to the network alone is done: for any locations, lost
\* connections and collected locations, when a connected client has been told
\* of everything that the server has and nothing is on its way, the server has
\* every check that this client counts as reported, and knows that the goal is
\* reached if it has the locations of the goal (report_check, _check_goal,
\* on_package).  Nothing that a lost connection took is waited for.
THEOREM NothingIsForgotten == Spec => []Quiet
<1>1. Init => Informed
  BY DEF Init, ReportInit, Informed
<1>2. IInv /\ Informed /\ [Next]_vars => Informed'
  BY InformedNext DEF IInv
<1>3. IInv /\ Informed => Quiet
  <2> SUFFICES ASSUME IInv, Informed, AtRest PROVE sent \subseteq recorded /\ (Goal # {} /\ Goal \subseteq recorded => won)
    BY DEF Quiet
  <2>1. OnItsWay = {}
    BY NothingCarried DEF AtRest, OnItsWay
  <2>2. sent \subseteq recorded
    BY <2>1 DEF IInv, AtRest
  <2>3. GoalTold(outbox, won) => won
    BY DEF AtRest, GoalTold
  <2>4. Goal # {} /\ Goal \subseteq recorded => won
    BY <2>3 DEF Informed, AtRest, Effective
  <2> QED BY <2>2, <2>4
<1> QED BY <1>1, <1>2, <1>3, IInvInit, IInvNext, PTL DEF Spec

-----------------------------------------------------------------------------
(* Foreign parks                                                           *)

\* The parks that are gone leave no marker behind, no park is loaded within
\* seconds of a scan that found it, and a park of the scenario has its name
\* before it is left.
Plain == Races = {}

\* What is left of earlier parks is free or has a name of its own; so has a
\* foreign park.
Leftovers ==
  \A c \in Cells :
     /\ c # loaded => mem[c] = Free \/ (mem[c].kind = "career" /\ mem[c].named)
     /\ mem[c] = Free \/ mem[c].named \/ mem[c].kind = "ap"

\* The marker was read from an instance that is still cached; while its scan is
\* fresh no foreign park is loaded.
Recalled ==
  /\ lastVal = Marker => cached # {} /\ cached # NotCached
  /\ cooling = "short" /\ lastVal = Marker /\ loaded # 0 => mem[loaded].kind # "career"

Known == SessionOK /\ Leftovers /\ Recalled

\* The instances are looked at in the order of the heap: there is a first one.
LEMMA FirstIn ==
  ASSUME NEW S \in SUBSET Cells, S # {}
  PROVE  FirstOf(S) \in S
<1>1. S \subseteq Nat /\ \A c \in S : c \in Nat
  BY SessionAssumption DEF SessionAssumption
<1>2. PICK c \in S : \A d \in S : ~ (<<d, c>> \in OpToRel(<, Nat))
  BY <1>1, NatLessThanWellFounded, WFMin
<1>3. ASSUME NEW d \in S PROVE c <= d
  <2>1. ~ (<<d, c>> \in OpToRel(<, Nat))
    BY <1>2
  <2>2. c \in Nat /\ d \in Nat
    BY <1>1
  <2>3. ~ (d < c)
    BY <2>1, <2>2, Zenon DEF OpToRel
  <2> QED
    BY <2>2, <2>3
<1> QED
  BY <1>3 DEF FirstOf

\* A name is the marker only where the scenario, or a park that took its name,
\* is loaded.
LEMMA MarkerLoaded ==
  ASSUME SessionOK, Leftovers, NEW c \in Cells, Name(mem[c]) = Marker
  PROVE  c = loaded /\ mem[c].kind # "career"
<1>1. mem[c].named /\ mem[c].kind # "career"
  BY DEF Name, NoName, Marker
<1>2. mem[c] # Free
  BY <1>1 DEF Free
<1> QED
  BY <1>1, <1>2 DEF Leftovers

\* What a read returns and remembers.
LEMMA ReadingKnown ==
  ASSUME Known
  PROVE  /\ Reading.name = Marker => Reading.cached # {} /\ Reading.cached # NotCached
         /\ Reading.name = Marker /\ Reading.cooling = "short" /\ loaded # 0
              => mem[loaded].kind # "career"
         /\ Reading.name = Marker /\ Scenario => InAp
<1> USE DEF Known
<1>f. \A n, c, w : /\ Read(n, c, w).name = n /\ Read(n, c, w).cached = c
                   /\ Read(n, c, w).cooling = w
  BY DEF Read
<1>n. NoName # Marker /\ 0 \notin Cells
  BY SessionAssumption DEF NoName, Marker, SessionAssumption
<1>1. CASE ~CacheStale /\ CachedName # NoName
  <2>1. Reading = Read(CachedName, cached, cooling)
    BY <1>1 DEF Reading
  <2>2. cached # NotCached /\ Stops(cached) # {} /\ cached \in SUBSET Cells
    BY <1>1 DEF CacheStale, CachedName, SessionOK
  <2>3. Stops(cached) \in SUBSET Cells /\ Stops(cached) \subseteq cached /\ cached # {}
    BY <2>2 DEF Stops
  <2>4. FirstOf(Stops(cached)) \in Cells
    BY <2>2, <2>3, FirstIn
  <2>5. CachedName = Name(mem[FirstOf(Stops(cached))])
    BY <2>2 DEF CachedName
  <2>6. CachedName = Marker => loaded \in Cells /\ mem[loaded].kind # "career"
    BY <2>4, <2>5, MarkerLoaded
  <2> QED
    BY <1>f, <2>1, <2>2, <2>3, <2>6 DEF Scenario, InAp
<1>2. CASE ~(~CacheStale /\ CachedName # NoName) /\ MayScan
  <2>1. Reading = Read(ScannedName, Instances, "short")
    BY <1>2 DEF Reading
  <2>2. Instances \in SUBSET Cells /\ NamedOf(Instances) \in SUBSET Cells
        /\ NamedOf(Instances) \subseteq Instances
    BY DEF Instances, NamedOf
  <2>3. Instances # NotCached
    BY <2>2, <1>n DEF NotCached
  <2>4. ASSUME ScannedName = Marker
        PROVE  Instances # {} /\ mem[loaded].kind # "career"
    <3>1. NamedOf(Instances) # {} /\ ScannedName = Name(mem[FirstOf(NamedOf(Instances))])
      BY <2>4, <1>n DEF ScannedName
    <3>2. FirstOf(NamedOf(Instances)) \in Cells
      BY <2>2, <3>1, FirstIn
    <3>3. mem[loaded].kind # "career"
      BY <2>4, <3>1, <3>2, MarkerLoaded
    <3> QED
      BY <2>2, <3>1, <3>3
  <2> QED
    BY <1>f, <2>1, <2>3, <2>4 DEF Scenario, InAp
<1>3. CASE ~(~CacheStale /\ CachedName # NoName) /\ ~MayScan
  <2>1. Reading = Read(lastVal, cached, cooling)
    BY <1>3 DEF Reading
  <2>2. ASSUME lastVal = Marker, loaded # 0, mem[loaded].kind = "career"
        PROVE  FALSE
    <3>1. cached # {} /\ cached # NotCached /\ cached \in SUBSET Cells /\ cooling # "short"
      BY <2>2 DEF Recalled, SessionOK
    <3>2. cooling = "long" /\ ~CacheStale /\ CachedName = NoName
      BY <1>3, <3>1 DEF MayScan, SessionOK
    <3>3. PICK c \in cached : c \in Cells
      BY <3>1
    <3>4. CASE Stops(cached) = {}
      <4>1. mem[c] # Free /\ ~mem[c].named
        BY <3>3, <3>4 DEF Stops
      <4>2. c = loaded /\ mem[c].kind = "ap"
        BY <3>3, <4>1 DEF Leftovers
      <4> QED
        BY <2>2, <4>2
    <3>5. CASE Stops(cached) # {}
      <4>1. FirstOf(Stops(cached)) \in Stops(cached)
        BY <3>1, <3>5, FirstIn DEF Stops
      <4>2. mem[FirstOf(Stops(cached))] # Free
        BY <3>2, <3>5 DEF CacheStale
      <4>3. mem[FirstOf(Stops(cached))].named
        BY <4>1, <4>2 DEF Stops
      <4>4. Name(mem[FirstOf(Stops(cached))]) = NoName
        BY <3>2, <3>5 DEF CachedName
      <4> QED
        BY <4>3, <4>4 DEF Name, NoName, Marker
    <3> QED
      BY <3>4, <3>5
  <2> QED
    BY <1>f, <2>1, <2>2 DEF Scenario, InAp, Recalled
<1> QED
  BY <1>1, <1>2, <1>3

LEMMA KnownDecide ==
  ASSUME Known, DecideSession
  PROVE  Leftovers' /\ Recalled'
<1>1. UNCHANGED <<mem, loaded>>
  BY DEF DecideSession, gameVars
<1>2. Leftovers'
  BY <1>1 DEF Known, Leftovers
<1>3. CASE Invalidate
  BY <1>2, <1>3 DEF Invalidate, Recalled, NoName, Marker
<1>4. CASE Remember
  BY <1>1, <1>2, <1>4, ReadingKnown DEF Remember, Recalled, Known
<1> QED
  BY <1>3, <1>4 DEF DecideSession

LEMMA KnownPark ==
  ASSUME Plain, Known, Park \/ Cool
  PROVE  Leftovers' /\ Recalled'
<1>k. /\ mem \in [Cells -> Place] /\ loaded \in Cells \cup {0} /\ 0 \notin Cells
      /\ Leftovers /\ Recalled /\ \A k \in Kinds : k # "free"
  BY SessionAssumption DEF SessionAssumption, Known, SessionOK
<1>1. ASSUME NEW c \in Cells, NEW k \in Kinds, LoadPark(c, k) PROVE Leftovers' /\ Recalled'
  <2>1. PICK named \in IF k = "ap" THEN BOOLEAN ELSE {TRUE} :
               mem' = [mem EXCEPT ![c] = [kind |-> k, named |-> named]]
    BY <1>1 DEF LoadPark
  <2>2. loaded = 0 /\ loaded' = c /\ UNCHANGED <<cached, lastVal, cooling>>
        /\ (cooling = "short" => lastVal # Marker)
    BY <1>1 DEF LoadPark, readerVars, Plain
  <2>3. mem'[c] = [kind |-> k, named |-> named] /\ \A d \in Cells : d # c => mem'[d] = mem[d]
    BY <2>1, <1>k
  <2>4. mem'[c].named \/ mem'[c].kind = "ap"
    <3>1. CASE k = "ap"
      BY <2>3, <3>1
    <3>2. CASE k # "ap"
      <4>1. named = TRUE
        BY <2>1, <3>2
      <4> QED
        BY <2>3, <4>1
    <3> QED
      BY <3>1, <3>2
  <2> QED
    BY <2>2, <2>3, <2>4, <1>k DEF Leftovers, Recalled
<1>2. ASSUME NamePark PROVE Leftovers' /\ Recalled'
  <2>1. /\ loaded \in Cells /\ mem[loaded].kind = "ap"
        /\ UNCHANGED <<loaded, cached, lastVal, cooling>>
        /\ \A d \in Cells : d # loaded => mem'[d] = mem[d]
        /\ mem' = [mem EXCEPT ![loaded] = [mem[loaded] EXCEPT !.named = TRUE]]
    BY <1>2, <1>k DEF NamePark, InAp, readerVars
  <2>2. mem'[loaded].kind = "ap" /\ mem'[loaded].named
    BY <2>1, <1>k DEF Place, Free
  <2> QED
    BY <2>1, <2>2, <1>k DEF Leftovers, Recalled
<1>3. ASSUME UnloadPark PROVE Leftovers' /\ Recalled'
  <2>1. /\ loaded \in Cells /\ loaded' = 0 /\ UNCHANGED <<cached, lastVal, cooling>>
        /\ InAp => mem[loaded].named
        /\ \/ Name(mem[loaded]) # Marker /\ UNCHANGED mem
           \/ mem' = [mem EXCEPT ![loaded] = Free]
    BY <1>3, <1>k DEF UnloadPark, Plain, readerVars
  <2>2. CASE Name(mem[loaded]) # Marker /\ UNCHANGED mem
    <3>1. ~mem[loaded].named \/ mem[loaded].kind = "career"
      BY <2>2 DEF Name
    <3>2. mem[loaded] = Free \/ mem[loaded].named
      BY <2>1, <1>k DEF Leftovers, InAp
    <3>3. mem[loaded] = Free \/ (mem[loaded].kind = "career" /\ mem[loaded].named)
      BY <3>1, <3>2
    <3> QED
      BY <2>1, <2>2, <3>3, <1>k DEF Leftovers, Recalled
  <2>3. CASE mem' = [mem EXCEPT ![loaded] = Free]
    BY <2>1, <2>3, <1>k DEF Leftovers, Recalled
  <2> QED
    BY <2>1, <2>2, <2>3
<1>4. ASSUME NEW c \in Cells, Reuse(c) PROVE Leftovers' /\ Recalled'
  <2>1. /\ c # loaded /\ mem' = [mem EXCEPT ![c] = Free]
        /\ UNCHANGED <<loaded, cached, lastVal, cooling>>
    BY <1>4 DEF Reuse, readerVars
  <2>2. mem'[c] = Free /\ \A d \in Cells : d # c => mem'[d] = mem[d]
    BY <2>1, <1>k
  <2>3. loaded # 0 => mem'[loaded] = mem[loaded]
    BY <2>1, <2>2, <1>k
  <2> QED
    BY <2>1, <2>2, <2>3, <1>k DEF Leftovers, Recalled
<1>5. ASSUME Cool PROVE Leftovers' /\ Recalled'
  BY <1>5, <1>k DEF Cool, gameVars, Leftovers, Recalled
<1> QED
  BY <1>1, <1>2, <1>3, <1>4, <1>5 DEF Park

\* What is known of the park, with the types that the steps keep by themselves.
Inert == Typed /\ Leftovers /\ Recalled

LEMMA InertInit == Init => Inert
<1> SUFFICES ASSUME Init PROVE Inert
  OBVIOUS
<1>1. \A c \in Cells : mem[c] = Free
  BY DEF Init, SessionInit
<1> QED
  BY <1>1, TypedInit DEF Init, SessionInit, Inert, Leftovers, Recalled, NoName, Marker

LEMMA InertStep ==
  ASSUME Plain
  PROVE  Inert /\ [Next]_vars => Inert' /\ (step = "idle" /\ step' = "poll" => InAp)
<1> SUFFICES ASSUME Inert, [Next]_vars
             PROVE  Inert' /\ (step = "idle" /\ step' = "poll" => InAp)
  OBVIOUS
<1>1. Known /\ Typed'
  BY TypedNext, TypedParts DEF Inert, Known
<1>2. CASE BeginTick
  <2>1. Leftovers' /\ Recalled'
    BY <1>1, <1>2, KnownDecide DEF BeginTick
  <2>2. step' = "poll" => InAp
    BY <1>1, <1>2, ReadingKnown DEF BeginTick, IsApSession
  <2> QED
    BY <1>1, <2>1, <2>2 DEF Inert
<1>3. CASE (Park \/ Cool) /\ UNCHANGED <<reportVars, step>>
  BY <1>1, <1>3, KnownPark DEF Inert
<1>4. CASE UNCHANGED sessionVars /\ (step' = step \/ step = "poll" \/ step = "drain")
  <2>1. Leftovers' /\ Recalled'
    BY <1>4 DEF Inert, Leftovers, Recalled, sessionVars, gameVars, readerVars
  <2> QED
    BY <1>1, <1>4, <2>1 DEF Inert
<1>5. CASE PollTriggers \/ Drain \/ \E l \in Locations : Occur(l)
  BY <1>4, <1>5 DEF PollTriggers, Drain, Occur
<1> QED
  BY <1>2, <1>3, <1>4, <1>5 DEF Next, Tick, vars

\* A tick goes on to look for checks only when the loaded park is the scenario,
\* for any places in the heap and over any number of loads: neither a cached
\* instance, nor the name remembered between two scans, nor a park that took
\* the name of the scenario makes it go on elsewhere, as long as parks leave
\* no marker behind (_poll_tick, is_ap_session).
THEOREM InertAbroad ==
  ASSUME Plain
  PROVE  Spec => InertElsewhere
<1>1. Init => Inert
  BY InertInit
<1>2. Inert /\ [Next]_vars => Inert' /\ [step = "idle" /\ step' = "poll" => InAp]_vars
  BY InertStep
<1> QED
  BY <1>1, <1>2, PTL DEF Spec, InertElsewhere

\* No other instance in the heap has a name, and the throttle lets the reader
\* scan if it has to.
Findable == InAp /\ mem[loaded].named /\ MayScan /\ \A c \in Cells : c # loaded => ~mem[c].named

\* Then the next tick finds the scenario, whatever the reader has cached.
FoundAtOnce == [][BeginTick /\ Findable => step' = "poll"]_vars

LEMMA FindableRead ==
  ASSUME SessionOK, Findable
  PROVE  IsApSession
<1>1. loaded \in Cells /\ mem[loaded].kind = "ap" /\ mem[loaded].named /\ mem[loaded] # Free
  BY DEF Findable, InAp, SessionOK, Free
<1>2. \A c \in Cells : mem[c].named => c = loaded
  BY DEF Findable
<1>3. Name(mem[loaded]) = Marker
  BY <1>1 DEF Name
<1>4. \A n, c, w : Read(n, c, w).name = n
  BY DEF Read
<1>5. CASE ~CacheStale /\ CachedName # NoName
  <2>1. cached \in SUBSET Cells /\ Stops(cached) # {}
    BY <1>5 DEF CacheStale, CachedName, SessionOK
  <2>2. FirstOf(Stops(cached)) \in Stops(cached) /\ FirstOf(Stops(cached)) \in Cells
    BY <2>1, FirstIn DEF Stops
  <2>3. mem[FirstOf(Stops(cached))] # Free
    BY <1>5, <2>1 DEF CacheStale
  <2>4. FirstOf(Stops(cached)) = loaded
    BY <1>2, <2>2, <2>3 DEF Stops
  <2>5. CachedName = Marker
    BY <1>3, <2>1, <2>4 DEF CachedName
  <2> QED
    BY <1>1, <1>4, <1>5, <2>5, SessionAssumption DEF Reading, IsApSession, Scenario, SessionAssumption
<1>6. CASE ~(~CacheStale /\ CachedName # NoName)
  <2>1. Reading = Read(ScannedName, Instances, "short")
    BY <1>6 DEF Reading, Findable
  <2>2. loaded \in NamedOf(Instances) /\ NamedOf(Instances) \in SUBSET Cells
    BY <1>1 DEF NamedOf, Instances
  <2>3. FirstOf(NamedOf(Instances)) \in NamedOf(Instances)
    BY <2>2, FirstIn
  <2>4. FirstOf(NamedOf(Instances)) = loaded
    BY <1>2, <2>2, <2>3 DEF NamedOf
  <2>5. ScannedName = Marker
    BY <1>3, <2>2, <2>4 DEF ScannedName
  <2> QED
    BY <1>1, <1>4, <2>1, <2>5, SessionAssumption DEF IsApSession, Scenario, SessionAssumption
<1> QED
  BY <1>5, <1>6

\* The other half: the client does not miss the scenario.  For any places in
\* the heap, with every race: once the park of the scenario has its name, is
\* the only instance with one and the throttle has run out, the next tick
\* looks for checks, wherever the cache points and whatever name was read last
\* (ParkNameReader.read, is_ap_session).
THEOREM ScenarioIsFound == Spec => FoundAtOnce
<1>1. Typed /\ [Next]_vars => (BeginTick /\ Findable => step' = "poll")
  BY FindableRead, TypedParts DEF BeginTick
<1> QED
  BY <1>1, TypedInit, TypedNext, PTL DEF Spec, FoundAtOnce

-----------------------------------------------------------------------------
(* Steps one after the other                                               *)

\* A set of numbers that is not empty has a first.
LEMMA FirstNumber ==
  ASSUME NEW S \in SUBSET Nat, S # {}
  PROVE  \E m \in S : \A k \in S : m <= k
<1>1. PICK m \in S : \A k \in S : ~ (<<k, m>> \in OpToRel(<, Nat))
  BY NatLessThanWellFounded, WFMin
<1>2. ASSUME NEW k \in S PROVE m <= k
  <2>1. ~ (<<k, m>> \in OpToRel(<, Nat))
    BY <1>1
  <2>2. ~ (k < m)
    BY <2>1, Zenon DEF OpToRel
  <2> QED
    BY <2>2
<1> QED BY <1>2

\* A set that has the first number, and each one after a number that it has,
\* has them all.
LEMMA OneByOne ==
  ASSUME NEW lo \in Nat, NEW hi \in Nat, NEW P,
         lo \in P, \A n \in (lo + 1)..hi : n - 1 \in P => n \in P
  PROVE  \A n \in lo..hi : n \in P
<1> DEFINE Missing == {n \in lo..hi : n \notin P}
<1>1. SUFFICES ASSUME Missing # {} PROVE FALSE
  OBVIOUS
<1>2. Missing \in SUBSET Nat
  OBVIOUS
<1>3. PICK m \in Missing : \A k \in Missing : m <= k
  BY <1>1, <1>2, FirstNumber
<1>4. m \in (lo + 1)..hi /\ m \notin P /\ m - 1 \in lo..hi /\ ~ (m <= m - 1)
  BY <1>3
<1>5. m - 1 \in P
  BY <1>3, <1>4
<1> QED BY <1>4, <1>5

\* f starts with a and takes one step of F after the other.
RunOf(F, a, lo, hi, f) == f[lo] = a /\ \A n \in (lo + 1)..hi : f[n] = F[n][f[n - 1]]

\* Where every step leads from S into S, there is a run of them.
LEMMA RunExists ==
  ASSUME NEW S, NEW a \in S, NEW lo \in Nat, NEW hi \in Nat, lo <= hi,
         NEW F \in [(lo + 1)..hi -> [S -> S]]
  PROVE  \E f \in [lo..hi -> S] : RunOf(F, a, lo, hi, f)
<1> DEFINE Runs(f, m) == RunOf(F, a, lo, m, f)
           P == {m \in lo..hi : \E f \in [lo..m -> S] : Runs(f, m)}
<1>1. lo \in P
  <2> DEFINE g == [n \in lo..lo |-> a]
  <2>1. g \in [lo..lo -> S] /\ Runs(g, lo)
    BY DEF RunOf
  <2> QED BY <2>1
<1>2. ASSUME NEW m \in (lo + 1)..hi, m - 1 \in P PROVE m \in P
  <2>1. PICK f \in [lo..(m - 1) -> S] : Runs(f, m - 1)
    BY <1>2
  <2> DEFINE g == [n \in lo..m |-> IF n = m THEN F[m][f[m - 1]] ELSE f[n]]
  <2>2. f[m - 1] \in S /\ F[m][f[m - 1]] \in S
    OBVIOUS
  <2>3. g \in [lo..m -> S]
    BY <2>2
  <2>4. \A n \in lo..(m - 1) : g[n] = f[n]
    OBVIOUS
  <2>5. g[m] = F[m][f[m - 1]]
    OBVIOUS
  <2>6. Runs(g, m)
    <3> HIDE DEF g
    <3>1. g[lo] = a
      BY <2>1, <2>4 DEF RunOf
    <3>2. ASSUME NEW n \in (lo + 1)..m PROVE g[n] = F[n][g[n - 1]]
      <4>1. CASE n = m
        BY <4>1, <2>4, <2>5
      <4>2. CASE n # m
        BY <4>2, <2>1, <2>4 DEF RunOf
      <4> QED BY <4>1, <4>2
    <3> QED BY <3>1, <3>2 DEF RunOf
  <2> HIDE DEF g, Runs
  <2> QED BY <2>3, <2>6
<1>3. hi \in lo..hi
  OBVIOUS
<1> HIDE DEF P
<1>4. hi \in P
  BY <1>1, <1>2, <1>3, OneByOne
<1> QED BY <1>4 DEF P

\* Sets that grow step by step: where every step leads from W into W, there is
\* such a run of sets within W.
Grows(F, start, hi, f) ==
  f[0] = start /\ \A n \in 1..hi : f[n] = f[n - 1] \cup UNION {F[x] : x \in f[n - 1]}

LEMMA GrowthExists ==
  ASSUME NEW W, NEW start \in SUBSET W, NEW hi \in Nat, NEW F \in [W -> SUBSET W]
  PROVE  \E f \in [0..hi -> SUBSET W] : Grows(F, start, hi, f)
<1> DEFINE S == SUBSET W
           Next1(X) == X \cup UNION {F[x] : x \in X}
           G == [n \in 1..hi |-> [X \in S |-> Next1(X)]]
<1>1. \A X \in S : Next1(X) \in S
  OBVIOUS
<1> HIDE DEF Next1
<1>2. G \in [(0 + 1)..hi -> [S -> S]] /\ 0 \in Nat /\ 0 <= hi
  BY <1>1
<1> HIDE DEF G
<1>3. PICK f \in [0..hi -> S] : RunOf(G, start, 0, hi, f)
  BY <1>2, RunExists
<1>4. f[0] = start /\ \A n \in (0 + 1)..hi : f[n] = G[n][f[n - 1]]
  BY <1>3, Zenon DEF RunOf
<1>5. ASSUME NEW n \in 1..hi PROVE f[n] = Next1(f[n - 1])
  <2>1. f[n - 1] \in S /\ n \in (0 + 1)..hi
    BY <1>3
  <2> QED BY <1>4, <2>1 DEF G
<1> QED BY <1>3, <1>4, <1>5 DEF Grows, Next1

-----------------------------------------------------------------------------
(* The list of what is blocked                                             *)

LEMMA KeysTyped ==
  /\ Capacity \in Nat \ {0} /\ Overlap \in Nat /\ Rounds \in Nat
  /\ KeyOrder \in Seq(AllSpecies) /\ Len(KeyOrder) \in Nat
  /\ \A i \in 1..Len(KeyOrder) : KeyOrder[i] \in AllSpecies
  /\ \A i, j \in 1..Len(KeyOrder) : KeyOrder[i] = KeyOrder[j] => i = j
<1>1. KeyOrder \in Seq(AllSpecies)
  BY ListsAssumption DEF ListsAssumption, AllSpecies
<1>2. DOMAIN KeyOrder = 1..Len(KeyOrder)
  BY <1>1
<1> QED BY <1>1, <1>2, ListsAssumption DEF ListsAssumption, IsInjective

\* The list grows along the keys, as far as there is room.
Taken(list, n, keys) ==
  IF KeyOrder[n] \in keys /\ Len(list) < Capacity THEN Append(list, KeyOrder[n]) ELSE list

Takes(f, keys) ==
  /\ f[0] = <<>>
  /\ \A n \in 1..Len(KeyOrder) : f[n] = Taken(f[n - 1], n, keys)

LEMMA ListTaken ==
  ASSUME NEW k, NEW resolved
  PROVE  \E f : Takes(f, k \cap resolved) /\ BlockedList(k, resolved) = f[Len(KeyOrder)]
<1> USE KeysTyped
<1> DEFINE keys == k \cap resolved
           N == Len(KeyOrder)
           S == Seq(AllSpecies)
           F == [n \in 1..N |-> [x \in S |-> Taken(x, n, keys)]]
           Eq(f) == f = [n \in 0..N |->
                 IF n = 0 THEN <<>>
                 ELSE IF KeyOrder[n] \in keys /\ Len(f[n - 1]) < Capacity
                      THEN Append(f[n - 1], KeyOrder[n]) ELSE f[n - 1]]
<1> HIDE DEF keys
<1>1. \A n \in 1..N : \A x \in S : Taken(x, n, keys) \in S
  BY DEF Taken
<1>2. F \in [1..N -> [S -> S]]
  BY <1>1
<1>3. <<>> \in S
  OBVIOUS
<1>n. N \in Nat
  OBVIOUS
<1> HIDE DEF S, N
<1>4. PICK f \in [0..N -> S] :
        f[0] = <<>> /\ \A n \in 1..N : f[n] = F[n][f[n - 1]]
  <2>1. F \in [(0 + 1)..N -> [S -> S]] /\ 0 \in Nat /\ 0 <= N
    BY <1>2, <1>n
  <2> HIDE DEF F
  <2>2. \E f \in [0..N -> S] : RunOf(F, <<>>, 0, N, f)
    BY <2>1, <1>3, <1>n, RunExists
  <2>3. PICK f \in [0..N -> S] : RunOf(F, <<>>, 0, N, f)
    BY <2>2
  <2>4. 0 + 1 = 1
    OBVIOUS
  <2>5. f[0] = <<>> /\ \A n \in (0 + 1)..N : f[n] = F[n][f[n - 1]]
    BY <2>3, Zenon DEF RunOf
  <2> QED BY <2>4, <2>5
<1>5. \A n \in 1..N : f[n] = Taken(f[n - 1], n, keys)
  <2> TAKE n \in 1..N
  <2>1. f[n - 1] \in S
    BY <1>4, <1>n
  <2>2. F[n][f[n - 1]] = Taken(f[n - 1], n, keys)
    BY <2>1
  <2> QED BY <1>4, <2>1, <2>2
<1>6. Eq(f)
  <2>1. \A n \in 0..N : f[n] = IF n = 0 THEN <<>> ELSE Taken(f[n - 1], n, keys)
    BY <1>4, <1>5, <1>n
  <2>2. f = [n \in 0..N |-> f[n]]
    BY <1>4
  <2>3. f = [n \in 0..N |-> IF n = 0 THEN <<>> ELSE Taken(f[n - 1], n, keys)]
    BY <2>1, <2>2
  <2> QED BY <2>3, Zenon DEF Taken
<1> DEFINE h == CHOOSE h : Eq(h)
<1>7. Eq(h)
  BY <1>6, Zenon
<1>8. BlockedList(k, resolved) = h[N]
  BY DEF BlockedList, N, keys
<1> HIDE DEF h
<1>9. Takes(h, keys)
  <2>1. \A n \in 0..N : h[n] =
          IF n = 0 THEN <<>>
          ELSE IF KeyOrder[n] \in keys /\ Len(h[n - 1]) < Capacity
               THEN Append(h[n - 1], KeyOrder[n]) ELSE h[n - 1]
    BY <1>7
  <2>2. h[0] = <<>>
    BY <2>1, <1>n
  <2>3. \A n \in 1..N : n \in 0..N /\ n # 0
    BY <1>n
  <2> HIDE DEF Eq
  <2>4. \A n \in 1..N : h[n] = Taken(h[n - 1], n, keys)
    BY <2>1, <2>3 DEF Taken
  <2> QED BY <2>2, <2>4 DEF Takes, N
<1> QED BY <1>8, <1>9 DEF N, keys

\* Two lists of the first n keys, the second with at least the keys of the
\* first: a species is in the shorter no later than in the longer.
Shifted(x, y, n) ==
  /\ x \in Seq(AllSpecies) /\ y \in Seq(AllSpecies)
  /\ Len(x) <= Len(y) /\ Len(y) <= Capacity
  /\ \A i \in DOMAIN x : \E m \in 1..n : x[i] = KeyOrder[m]
  /\ \A i \in DOMAIN y : \E m \in 1..n : y[i] = KeyOrder[m]
  /\ \A j \in DOMAIN x, i \in DOMAIN y : x[j] = y[i] => j <= i
  /\ \A j, i \in DOMAIN y : y[j] = y[i] => j = i

LEMMA ShiftedStep ==
  ASSUME NEW new, NEW old, new \subseteq old, NEW x, NEW y, NEW n \in 1..Len(KeyOrder),
         Shifted(x, y, n - 1)
  PROVE  Shifted(Taken(x, n, new), Taken(y, n, old), n)
<1>c. Capacity \in Nat
  BY KeysTyped
<1> DEFINE k == KeyOrder[n]
           u == Taken(x, n, new)
           v == Taken(y, n, old)
<1>1. /\ x \in Seq(AllSpecies) /\ y \in Seq(AllSpecies)
      /\ Len(x) \in Nat /\ Len(y) \in Nat /\ Len(x) <= Len(y) /\ Len(y) <= Capacity
      /\ DOMAIN x = 1..Len(x) /\ DOMAIN y = 1..Len(y)
  BY DEF Shifted
<1>2. k \in AllSpecies
  BY KeysTyped
<1>3. /\ \A i \in DOMAIN x : x[i] # k
      /\ \A i \in DOMAIN y : y[i] # k
  <2>1. \A m \in 1..(n - 1) : KeyOrder[m] # k
    BY KeysTyped
  <2> QED BY <2>1 DEF Shifted
<1>4. \/ u = x /\ (k \notin new \/ Len(x) >= Capacity)
      \/ u = Append(x, k) /\ k \in new /\ Len(x) < Capacity
  <2>1. CASE k \in new /\ Len(x) < Capacity
    BY <1>2, <2>1 DEF Taken
  <2>2. CASE ~ (k \in new /\ Len(x) < Capacity)
    <3>1. u = x
      BY <1>2, <2>2 DEF Taken
    <3>2. k \notin new \/ Len(x) >= Capacity
      BY <1>c, <1>1, <2>2
    <3> QED BY <3>1, <3>2
  <2> QED BY <2>1, <2>2
<1>5. \/ v = y /\ (k \notin old \/ Len(y) >= Capacity)
      \/ v = Append(y, k) /\ k \in old /\ Len(y) < Capacity
  <2>1. CASE k \in old /\ Len(y) < Capacity
    BY <1>2, <2>1 DEF Taken
  <2>2. CASE ~ (k \in old /\ Len(y) < Capacity)
    <3>1. v = y
      BY <1>2, <2>2 DEF Taken
    <3>2. k \notin old \/ Len(y) >= Capacity
      BY <1>c, <1>1, <2>2
    <3> QED BY <3>1, <3>2
  <2> QED BY <2>1, <2>2
<1> HIDE DEF u, v
<1>6. /\ u \in Seq(AllSpecies)
      /\ \/ u = x
         \/ /\ Len(u) = Len(x) + 1 /\ DOMAIN u = 1..(Len(x) + 1) /\ u[Len(x) + 1] = k
            /\ \A i \in 1..Len(x) : u[i] = x[i]
  <2> HIDE DEF k
  <2> QED BY <1>1, <1>2, <1>4, SMTT(30)
<1>7. /\ v \in Seq(AllSpecies)
      /\ \/ v = y
         \/ /\ Len(v) = Len(y) + 1 /\ DOMAIN v = 1..(Len(y) + 1) /\ v[Len(y) + 1] = k
            /\ \A i \in 1..Len(y) : v[i] = y[i]
  <2> HIDE DEF k
  <2> QED BY <1>1, <1>2, <1>5, SMTT(30)
<1>8. Len(u) <= Len(v) /\ Len(v) <= Capacity
  <2>1. Len(u) = Len(x) \/ (Len(u) = Len(x) + 1 /\ k \in new /\ Len(x) < Capacity)
    BY <1>1, <1>4, <1>6
  <2>2. \/ Len(v) = Len(y) /\ (k \notin old \/ Len(y) >= Capacity)
        \/ Len(v) = Len(y) + 1 /\ Len(y) < Capacity
    BY <1>1, <1>5, <1>7
  <2> HIDE DEF k
  <2>3. k \in new => k \in old
    OBVIOUS
  <2> QED BY <1>c, <1>1, <2>1, <2>2, <2>3
<1>9. /\ \A i \in DOMAIN u : \E m \in 1..n : u[i] = KeyOrder[m]
      /\ \A i \in DOMAIN v : \E m \in 1..n : v[i] = KeyOrder[m]
  <2>1. \A w : (\E m \in 1..(n - 1) : w = KeyOrder[m]) => \E m \in 1..n : w = KeyOrder[m]
    OBVIOUS
  <2>2. n \in 1..n
    OBVIOUS
  <2>3. \A i \in DOMAIN u : (i \in DOMAIN x /\ u[i] = x[i]) \/ u[i] = k
    BY <1>1, <1>6
  <2>4. \A i \in DOMAIN v : (i \in DOMAIN y /\ v[i] = y[i]) \/ v[i] = k
    BY <1>1, <1>7
  <2>5. k = KeyOrder[n]
    OBVIOUS
  <2> HIDE DEF k
  <2>6. /\ \A i \in DOMAIN x : \E m \in 1..(n - 1) : x[i] = KeyOrder[m]
        /\ \A i \in DOMAIN y : \E m \in 1..(n - 1) : y[i] = KeyOrder[m]
    BY DEF Shifted
  <2>7. ASSUME NEW i \in DOMAIN u PROVE \E m \in 1..n : u[i] = KeyOrder[m]
    BY <2>1, <2>2, <2>3, <2>5, <2>6
  <2>8. ASSUME NEW i \in DOMAIN v PROVE \E m \in 1..n : v[i] = KeyOrder[m]
    BY <2>1, <2>2, <2>4, <2>5, <2>6
  <2> QED BY <2>7, <2>8
<1>10. \A j \in DOMAIN u, i \in DOMAIN v : u[j] = v[i] => j <= i
  <2> SUFFICES ASSUME NEW j \in DOMAIN u, NEW i \in DOMAIN v, u[j] = v[i] PROVE j <= i
    OBVIOUS
  <2>1. \/ j \in 1..Len(x) /\ u[j] = x[j] /\ u[j] # k
        \/ j = Len(x) + 1 /\ u[j] = k
    <3> HIDE DEF k
    <3> QED BY <1>1, <1>3, <1>6
  <2>2. \/ i \in 1..Len(y) /\ v[i] = y[i] /\ v[i] # k
        \/ i = Len(y) + 1 /\ v[i] = k
    <3> HIDE DEF k
    <3> QED BY <1>1, <1>3, <1>7
  <2>3. \A a \in DOMAIN x, b \in DOMAIN y : x[a] = y[b] => a <= b
    BY DEF Shifted
  <2> HIDE DEF k
  <2> QED BY <1>1, <2>1, <2>2, <2>3
<1>11. \A j, i \in DOMAIN v : v[j] = v[i] => j = i
  <2>1. \A i \in DOMAIN v : \/ i \in 1..Len(y) /\ v[i] = y[i] /\ v[i] # k
                            \/ i = Len(y) + 1 /\ v[i] = k
    <3> HIDE DEF k
    <3> QED BY <1>1, <1>3, <1>7
  <2>2. \A a, b \in DOMAIN y : y[a] = y[b] => a = b
    BY DEF Shifted
  <2> HIDE DEF k
  <2> QED BY <1>1, <2>1, <2>2
<1> QED BY <1>6, <1>7, <1>8, <1>9, <1>10, <1>11 DEF Shifted, u, v

LEMMA ListsShift ==
  ASSUME NEW new, NEW old, new \subseteq old
  PROVE  Shifted(ListOf(new), ListOf(old), Len(KeyOrder))
<1> USE KeysTyped
<1> DEFINE a == new \cap AllSpecies
           b == old \cap AllSpecies
<1>1. PICK f : Takes(f, a) /\ ListOf(new) = f[Len(KeyOrder)]
  BY ListTaken DEF ListOf
<1>2. PICK g : Takes(g, b) /\ ListOf(old) = g[Len(KeyOrder)]
  BY ListTaken DEF ListOf
<1>s. a \subseteq b
  OBVIOUS
<1> HIDE DEF a, b
<1> DEFINE P == {n \in 0..Len(KeyOrder) : Shifted(f[n], g[n], n)}
<1>3. 0 \in P
  <2>1. f[0] = <<>> /\ g[0] = <<>>
    BY <1>1, <1>2 DEF Takes
  <2>2. Shifted(<<>>, <<>>, 0)
    BY DEF Shifted
  <2> QED BY <2>1, <2>2
<1>4. ASSUME NEW n \in 1..Len(KeyOrder), n - 1 \in P PROVE n \in P
  <2>1. Shifted(f[n - 1], g[n - 1], n - 1)
    BY <1>4
  <2>2. f[n] = Taken(f[n - 1], n, a) /\ g[n] = Taken(g[n - 1], n, b)
    BY <1>1, <1>2 DEF Takes
  <2>3. Shifted(f[n], g[n], n)
    BY <1>s, <2>1, <2>2, ShiftedStep
  <2> QED BY <2>3
<1>5. \A n \in 0..Len(KeyOrder) : n \in P
  <2> HIDE DEF P
  <2>1. 0 \in Nat /\ Len(KeyOrder) \in Nat /\ \A n \in (0 + 1)..Len(KeyOrder) : n - 1 \in P => n \in P
    BY <1>4
  <2> QED BY <1>3, <2>1, OneByOne
<1> QED BY <1>1, <1>2, <1>5

\* A list holds nothing but its keys that have a handle.
LEMMA ListHolds ==
  ASSUME NEW keys, NEW resolved
  PROVE  /\ BlockedList(keys, resolved) \in Seq(AllSpecies)
         /\ Len(BlockedList(keys, resolved)) \in 0..Capacity
         /\ DOMAIN BlockedList(keys, resolved) = 1..Len(BlockedList(keys, resolved))
         /\ ToSet(BlockedList(keys, resolved)) \subseteq keys
<1>n. Len(KeyOrder) \in Nat /\ 0 \in 0..Len(KeyOrder) /\ Capacity \in Nat
  BY KeysTyped
<1> DEFINE K == keys \cap resolved
           T == K \cap AllSpecies
           Held(x) == x \in Seq(T) /\ Len(x) <= Capacity
<1>2. PICK f : Takes(f, K) /\ BlockedList(keys, resolved) = f[Len(KeyOrder)]
  BY ListTaken
<1>t. T = K \cap AllSpecies /\ T \subseteq keys /\ T \subseteq AllSpecies
  OBVIOUS
<1> HIDE DEF T, K
<1> DEFINE P == {n \in 0..Len(KeyOrder) : Held(f[n])}
<1>3. 0 \in P
  <2>1. f[0] = <<>>
    BY <1>2 DEF Takes
  <2>2. <<>> \in Seq(T) /\ Len(<<>>) = 0
    OBVIOUS
  <2>3. Held(f[0])
    BY <1>n, <2>1, <2>2
  <2> QED BY <1>n, <2>3
<1>4. ASSUME NEW n \in 1..Len(KeyOrder), n - 1 \in P PROVE n \in P
  <2> DEFINE x == f[n - 1]
             y == f[n]
  <2>1. x \in Seq(T) /\ Len(x) \in Nat /\ Len(x) <= Capacity
    BY <1>4
  <2>2. y = Taken(x, n, K) /\ KeyOrder[n] \in AllSpecies
    BY <1>2, KeysTyped DEF Takes
  <2>n. n \in 0..Len(KeyOrder)
    BY <1>n
  <2> HIDE DEF x, Held
  <2>3. \/ y = x
        \/ y = Append(x, KeyOrder[n]) /\ KeyOrder[n] \in T /\ Len(x) < Capacity
    BY <2>2, <1>t DEF Taken
  <2> HIDE DEF y
  <2>4. y \in Seq(T) /\ Len(y) <= Capacity
    BY <1>n, <2>1, <2>3, SMTT(30)
  <2> QED BY <2>n, <2>4 DEF Held, y
<1>5. \A n \in 0..Len(KeyOrder) : n \in P
  <2> HIDE DEF P
  <2>1. 0 \in Nat /\ Len(KeyOrder) \in Nat /\ \A n \in (0 + 1)..Len(KeyOrder) : n - 1 \in P => n \in P
    BY <1>4, <1>n
  <2> QED BY <1>3, <2>1, OneByOne
<1> DEFINE list == BlockedList(keys, resolved)
<1>6. list \in Seq(T) /\ Len(list) <= Capacity
  BY <1>2, <1>5, <1>n
<1> HIDE DEF list
<1>7. DOMAIN list = 1..Len(list) /\ Len(list) \in 0..Capacity
  BY <1>6, <1>n
<1>8. list \in Seq(AllSpecies)
  BY <1>6, <1>t
<1>9. ToSet(list) \subseteq keys
  BY <1>6, <1>t DEF ToSet
<1> QED BY <1>7, <1>8, <1>9 DEF list

-----------------------------------------------------------------------------
(* Walks through a list that is rewritten                                  *)

\* What the scratch holds when the list was written.
LEMMA SyncedIs ==
  ASSUME NEW sc, NEW list, Len(list) \in 0..Capacity
  PROVE  /\ Synced(sc, list).count = Len(list)
         /\ \A i \in 1..Capacity : Synced(sc, list).ids[i] = IF i <= Len(list) THEN list[i] ELSE sc.ids[i]
<1> USE KeysTyped
<1> DEFINE n == Len(list)
<1>1. n \in Nat /\ n + 1 > n
  OBVIOUS
<1>2. \A i \in 1..Capacity : i <= n + 1 /\ i <= n <=> i <= n
  BY <1>1
<1> QED BY <1>1, <1>2 DEF Synced, Written

LEMMA FailsSynced ==
  ASSUME NEW sc, NEW list, Len(list) \in 0..Capacity, DOMAIN list = 1..Len(list), NEW s
  PROVE  Fails(Synced(sc, list), s) <=> s \in ToSet(list)
BY SyncedIs, KeysTyped DEF Fails, ToSet

\* Reads go forward in time.
LEMMA ReadsOrdered ==
  ASSUME NEW writes \in Nat, NEW at \in ReadTimes(writes), Overlap <= 1
  PROVE  /\ \A i \in 0..Capacity : at[i] \in 0..writes
         /\ \A i \in 0..Capacity : at[0] <= at[i] /\ at[i] <= at[0] + 1
<1> USE KeysTyped
<1>1. /\ at \in [0..Capacity -> 0..writes]
      /\ \A i \in 1..Capacity : at[i - 1] <= at[i]
      /\ at[Capacity] <= at[0] + Overlap
  BY DEF ReadTimes
<1>2. \A i \in 0..Capacity : at[i] \in 0..writes /\ at[i] \in Int
  BY <1>1
<1> DEFINE P == {n \in 0..Capacity : at[0] <= at[n]}
<1>3. \A n \in 0..Capacity : n \in P
  <2>1. 0 \in P
    BY <1>2
  <2>2. \A n \in (0 + 1)..Capacity : n - 1 \in P => n \in P
    BY <1>1, <1>2
  <2> HIDE DEF P
  <2> QED BY <2>1, <2>2, OneByOne
<1> DEFINE Q == {n \in 0..Capacity : \A m \in 0..n : at[m] <= at[n]}
<1>4. \A n \in 0..Capacity : n \in Q
  <2>1. 0 \in Q
    BY <1>2
  <2>2. ASSUME NEW n \in (0 + 1)..Capacity, n - 1 \in Q PROVE n \in Q
    <3>1. ASSUME NEW m \in 0..n PROVE at[m] <= at[n]
      <4>1. CASE m = n
        BY <4>1, <1>2
      <4>2. CASE m # n
        <5>1. m \in 0..(n - 1) /\ m \in 0..Capacity /\ n \in 1..Capacity /\ n - 1 \in 0..Capacity
          BY <4>2
        <5>2. at[m] <= at[n - 1]
          BY <2>2, <5>1
        <5>3. at[n - 1] <= at[n]
          BY <1>1, <5>1
        <5> QED BY <1>2, <5>1, <5>2, <5>3
      <4> QED BY <4>1, <4>2
    <3> QED BY <3>1
  <2> HIDE DEF Q
  <2> QED BY <2>1, <2>2, OneByOne
<1>5. \A i \in 0..Capacity : at[i] <= at[Capacity]
  BY <1>4
<1>6. at[Capacity] <= at[0] + 1
  BY <1>1, <1>2
<1> QED BY <1>2, <1>3, <1>5, <1>6

\* The scratch when the list was written twice before, and what a walk that
\* meets the third write reads.
LEMMA WalkReads ==
  ASSUME NEW a, NEW old, NEW new, Len(a) \in 0..Capacity, Len(old) \in 0..Capacity,
         Len(new) \in 0..Capacity, Overlap <= 1, NEW at \in ReadTimes(Len(new) + 1),
         NEW view, view = Walk(Synced(Synced(Zeroed, a), old), new, at)
  PROVE  /\ view.count = IF at[0] > Len(new) THEN Len(new) ELSE Len(old)
         /\ \A i \in 1..Len(old) : view.ids[i] = IF i <= at[i] /\ i <= Len(new) THEN new[i] ELSE old[i]
         /\ \A i \in 1..Len(new) : i <= at[i] => view.ids[i] = new[i]
<1> USE KeysTyped
<1> DEFINE sc == Synced(Synced(Zeroed, a), old)
<1>1. /\ sc.count = Len(old)
      /\ \A i \in 1..Len(old) : sc.ids[i] = old[i]
  BY SyncedIs
<1> HIDE DEF sc
<1>2. /\ view.count = Written(sc, new, at[0]).count
      /\ \A i \in 1..Capacity : view.ids[i] = Written(sc, new, at[i]).ids[i]
  BY DEF Walk, sc
<1>3. /\ \A n : Written(sc, new, n).count = IF n > Len(new) THEN Len(new) ELSE sc.count
      /\ \A n : \A i \in 1..Capacity :
           Written(sc, new, n).ids[i] = IF i <= n /\ i <= Len(new) THEN new[i] ELSE sc.ids[i]
  BY DEF Written
<1>4. \A i \in 1..Len(old) : i \in 1..Capacity
  OBVIOUS
<1>5. \A i \in 1..Len(new) : i \in 1..Capacity /\ i <= Len(new)
  OBVIOUS
<1> QED BY <1>1, <1>2, <1>3, <1>4, <1>5, SMTT(30)

LEMMA NoGapHolds == ASSUME Overlap <= 1 PROVE NoGap
<1> USE KeysTyped
<1> SUFFICES ASSUME NEW earlier \in Subsets, NEW old \in Subsets, NEW new \in Subsets,
                    NEW at \in ReadTimes(Len(ListOf(new)) + 1),
                    NEW i \in DOMAIN ListOf(old), NEW j \in (1..i) \cap DOMAIN ListOf(new),
                    ListOf(old)[i] = ListOf(new)[j]
             PROVE  ListOf(old)[i] \in Failing(earlier, old, new, at)
  BY DEF NoGap
<1> DEFINE s == ListOf(old)[i]
           a == ListOf(earlier)
           o == ListOf(old)
           w == ListOf(new)
           view == Walk(Synced(Synced(Zeroed, a), o), w, at)
<1>1. /\ Len(a) \in 0..Capacity /\ Len(o) \in 0..Capacity /\ Len(w) \in 0..Capacity
      /\ DOMAIN o = 1..Len(o) /\ DOMAIN w = 1..Len(w)
  BY ListHolds DEF ListOf
<1>2. s \in Purchasable
  <2>1. ToSet(o) \subseteq old
    BY ListHolds DEF ListOf
  <2> HIDE DEF o
  <2> QED BY <2>1 DEF Subsets, ToSet, o
<1>3. i \in 1..Len(o) /\ o[i] = s
  BY <1>1
<1>4. j \in 1..Len(w) /\ w[j] = s
  BY <1>1
<1>5. i \in Int /\ j \in Int /\ j <= i
  BY <1>1, <1>3, <1>4
<1> HIDE DEF a, o, w, s
<1>6. /\ view.count = IF at[0] > Len(w) THEN Len(w) ELSE Len(o)
      /\ \A n \in 1..Len(o) : view.ids[n] = IF n <= at[n] /\ n <= Len(w) THEN w[n] ELSE o[n]
      /\ \A n \in 1..Len(w) : n <= at[n] => view.ids[n] = w[n]
  <2>1. at \in ReadTimes(Len(w) + 1)
    BY DEF w
  <2> HIDE DEF view
  <2>2. view = Walk(Synced(Synced(Zeroed, a), o), w, at)
    BY DEF view
  <2> QED BY <1>1, <2>1, <2>2, WalkReads
<1>7. /\ \A n \in 0..Capacity : at[n] \in Int
      /\ \A n \in 0..Capacity : at[0] <= at[n] /\ at[n] <= at[0] + 1
  <2>1. at \in ReadTimes(Len(w) + 1) /\ Len(w) + 1 \in Nat
    BY <1>1 DEF w
  <2> QED BY <2>1, ReadsOrdered
<1>8. i \in 0..Capacity /\ j \in 0..Capacity /\ 0 \in 0..Capacity
  BY <1>1, <1>3, <1>4
<1> HIDE DEF view
<1>9. \E n \in 1..view.count : view.ids[n] = s
  <2>1. CASE at[0] > Len(w)
    <3>1. view.count = Len(w)
      BY <1>6, <2>1
    <3>2. Len(w) \in Int /\ j \in Int /\ j <= Len(w) /\ at[0] \in Int /\ at[j] \in Int /\ at[0] <= at[j]
      BY <1>1, <1>4, <1>7, <1>8
    <3>3. j <= at[j]
      BY <2>1, <3>2
    <3> QED BY <1>4, <1>6, <3>1, <3>3
  <2>2. CASE ~ (at[0] > Len(w))
    <3>1. view.count = Len(o) /\ i \in 1..view.count /\ j \in 1..view.count
      <4>1. view.count = Len(o)
        BY <1>6, <2>2
      <4>2. Len(o) \in Int /\ i \in 1..Len(o) /\ j \in Int /\ 1 <= j /\ j <= i
        BY <1>1, <1>3, <1>4, <1>5
      <4> QED BY <4>1, <4>2
    <3>2. CASE i <= at[i] /\ i <= Len(w)
      <4>1. CASE i = j
        BY <1>3, <1>4, <1>6, <3>1, <3>2, <4>1
      <4>2. CASE i # j
        <5>1. j <= at[j]
          BY <1>1, <1>3, <1>4, <1>5, <1>7, <1>8, <3>2, <4>2
        <5> QED BY <1>4, <1>6, <3>1, <5>1
      <4> QED BY <4>1, <4>2
    <3>3. CASE ~ (i <= at[i] /\ i <= Len(w))
      BY <1>3, <1>6, <3>1, <3>3
    <3> QED BY <3>2, <3>3
  <2> QED BY <2>1, <2>2
<1> QED BY <1>2, <1>9 DEF Failing, Fails, view, a, o, w, s

\* A list that only leaves some out.
LEMMA NoneMovesDownHolds == NoneMovesDown
<1> SUFFICES ASSUME NEW old \in Subsets, NEW new \in SUBSET old,
                    NEW i \in DOMAIN ListOf(old), NEW j \in DOMAIN ListOf(new),
                    ListOf(old)[i] = ListOf(new)[j]
             PROVE  j <= i
  BY DEF NoneMovesDown
<1>1. Shifted(ListOf(new), ListOf(old), Len(KeyOrder))
  BY ListsShift
<1> QED BY <1>1 DEF Shifted

LEMMA NoneElseHolds == ASSUME Overlap <= 1 PROVE NoneElse
<1> USE KeysTyped
<1> SUFFICES ASSUME NEW earlier \in Subsets, NEW old \in Subsets, NEW new \in Subsets,
                    NEW at \in ReadTimes(Len(ListOf(new)) + 1),
                    NEW s \in Failing(earlier, old, new, at)
             PROVE  s \in ToSet(ListOf(old)) \cup ToSet(ListOf(new))
  BY DEF NoneElse
<1> DEFINE a == ListOf(earlier)
           o == ListOf(old)
           w == ListOf(new)
           view == Walk(Synced(Synced(Zeroed, a), o), w, at)
<1>1. /\ Len(a) \in 0..Capacity /\ Len(o) \in 0..Capacity /\ Len(w) \in 0..Capacity
      /\ DOMAIN o = 1..Len(o) /\ DOMAIN w = 1..Len(w)
  BY ListHolds DEF ListOf
<1>2. PICK n \in 1..view.count : view.ids[n] = s
  BY DEF Failing, Fails
<1> HIDE DEF a, o, w
<1>3. /\ view.count = IF at[0] > Len(w) THEN Len(w) ELSE Len(o)
      /\ \A i \in 1..Len(o) : view.ids[i] = IF i <= at[i] /\ i <= Len(w) THEN w[i] ELSE o[i]
      /\ \A i \in 1..Len(w) : i <= at[i] => view.ids[i] = w[i]
  <2>1. at \in ReadTimes(Len(w) + 1)
    BY DEF w
  <2> HIDE DEF view
  <2>2. view = Walk(Synced(Synced(Zeroed, a), o), w, at)
    BY DEF view
  <2> QED BY <1>1, <2>1, <2>2, WalkReads
<1>4. \A i \in 0..Capacity : at[i] \in Int /\ at[0] <= at[i]
  <2>1. at \in ReadTimes(Len(w) + 1) /\ Len(w) + 1 \in Nat
    BY <1>1 DEF w
  <2> QED BY <2>1, ReadsOrdered
<1> HIDE DEF view
<1>5. (\E i \in 1..Len(o) : s = o[i]) \/ (\E i \in 1..Len(w) : s = w[i])
  <2>1. CASE at[0] > Len(w)
    <3>1. n \in 1..Len(w) /\ n \in 0..Capacity /\ 0 \in 0..Capacity
      BY <1>1, <1>3, <2>1
    <3>2. n <= at[n]
      BY <1>1, <1>4, <2>1, <3>1
    <3> QED BY <1>2, <1>3, <3>1, <3>2
  <2>2. CASE ~ (at[0] > Len(w))
    <3>1. n \in 1..Len(o)
      BY <1>3, <2>2
    <3>2. n <= Len(w) => n \in 1..Len(w)
      BY <1>1, <3>1
    <3> QED BY <1>2, <1>3, <3>1, <3>2
  <2> QED BY <2>1, <2>2
<1> QED BY <1>1, <1>5 DEF ToSet, o, w

-----------------------------------------------------------------------------
(* The purchase gate over any history                                      *)

Scratches == [count : 0..Capacity, ids : [1..Capacity -> AllSpecies \cup {Nothing}]]
PermitGates ==
  [sent : Seq(Items), items : Seq(Items), mark : Nat, unlocked : SUBSET AllSpecies,
   installed : BOOLEAN, scratch : Scratches, named : SUBSET Purchasable,
   known : SUBSET Purchasable, whole : BOOLEAN]

\* Unless a write of its list failed, an installed gate fails what is not
\* unlocked and had a handle, as far as there is room.
InForce(g) ==
  g.installed /\ g.whole =>
    \A s : Fails(g.scratch, s) <=> s \in ToSet(BlockedList(Purchasable \ g.unlocked, g.known))

\* What is unlocked is what the items say.
Current ==
  {g \in PermitGates : InForce(g) /\ (g.installed => g.unlocked = Purchasable \ Blocked(g))}

\* While items are applied to a gate that was g: if it is installed, it was and
\* has the same unlocked, or was rewritten since.
Tracks(g, x) ==
  x.installed => (g.installed /\ x.unlocked = g.unlocked) \/ x.known = x.named

\* What a step of applying leaves alone.
SameItems(g, x) == x.sent = g.sent /\ x.items = g.items /\ x.named = g.named

Working(g) ==
  {x \in PermitGates : InForce(x) /\ SameItems(g, x) /\ Tracks(g, x)}

LEMMA WrittenTyped ==
  ASSUME NEW sc \in Scratches, NEW list \in Seq(AllSpecies), Len(list) \in 0..Capacity, NEW n \in Nat
  PROVE  Written(sc, list, n) \in Scratches
<1> USE KeysTyped
<1> DEFINE c == Written(sc, list, n).count
           d == Written(sc, list, n).ids
<1>1. c = IF n > Len(list) THEN Len(list) ELSE sc.count
  BY DEF Written
<1>2. \A i \in 1..Capacity : d[i] = IF i <= n /\ i <= Len(list) THEN list[i] ELSE sc.ids[i]
  BY DEF Written
<1>3. \A i \in 1..Capacity : d[i] \in AllSpecies \cup {Nothing}
  <2> TAKE i \in 1..Capacity
  <2>1. i <= Len(list) => list[i] \in AllSpecies
    OBVIOUS
  <2>2. sc.ids[i] \in AllSpecies \cup {Nothing}
    BY DEF Scratches
  <2> QED BY <1>2, <2>1, <2>2
<1>4. d = [i \in 1..Capacity |-> d[i]] /\ Written(sc, list, n) = [count |-> c, ids |-> d]
  BY DEF Written
<1>5. c \in 0..Capacity
  BY <1>1 DEF Scratches
<1> HIDE DEF c, d
<1>6. d \in [1..Capacity -> AllSpecies \cup {Nothing}]
  BY <1>3, <1>4
<1> QED BY <1>4, <1>5, <1>6 DEF Scratches

\* A rewrite all of whose writes were made.
LEMMA FailsWritten ==
  ASSUME NEW sc, NEW list, Len(list) \in 0..Capacity, DOMAIN list = 1..Len(list),
         NEW n \in Nat, n > Len(list), NEW s
  PROVE  Fails(Written(sc, list, n), s) <=> s \in ToSet(list)
<1>1. Written(sc, list, n).count = Len(list)
  BY DEF Written
<1>2. \A i \in 1..Len(list) : i \in 1..Capacity /\ i <= n /\ i <= Len(list)
  BY KeysTyped
<1>3. \A i \in 1..Len(list) : Written(sc, list, n).ids[i] = list[i]
  BY <1>2 DEF Written
<1> QED BY <1>1, <1>3 DEF Fails, ToSet

LEMMA AllowedIs == ASSUME NEW io \in Allowed PROVE io.can \in BOOLEAN /\ io.writes \in Nat
<1>1. io.can \in BOOLEAN /\ io.writes \in Torn \cup {Capacity + 1}
  BY DEF Allowed
<1>2. Torn \subseteq 0..Capacity
  BY ListsAssumption DEF ListsAssumption
<1>3. 0..Capacity \subseteq Nat /\ Capacity + 1 \in Nat
  BY KeysTyped
<1> QED BY <1>1, <1>2, <1>3

LEMMA SyncIs ==
  ASSUME NEW g \in PermitGates, NEW io \in Allowed, NEW h, h = Sync(g, io)
  PROVE  /\ h \in PermitGates /\ InForce(h) /\ h.known = h.named
         /\ SameItems(g, h) /\ h.unlocked = g.unlocked /\ h.installed = g.installed
<1> DEFINE list == BlockedList(Purchasable \ g.unlocked, g.named)
           sc   == Written(g.scratch, list, io.writes)
           all  == io.writes > Len(list)
<1>1. list \in Seq(AllSpecies) /\ Len(list) \in 0..Capacity /\ DOMAIN list = 1..Len(list)
  BY ListHolds
<1>2. h = [g EXCEPT !.scratch = sc, !.known = g.named, !.whole = all]
  BY DEF Sync
<1>l. list = BlockedList(Purchasable \ g.unlocked, g.named)
  OBVIOUS
<1> HIDE DEF list
<1>3. g.scratch \in Scratches /\ io.writes \in Nat
  BY AllowedIs DEF PermitGates
<1>4. sc \in Scratches
  BY <1>1, <1>3, WrittenTyped
<1>5. ASSUME all, NEW s PROVE Fails(sc, s) <=> s \in ToSet(list)
  BY <1>1, <1>3, <1>5, FailsWritten
<1>6. all \in BOOLEAN
  OBVIOUS
<1> HIDE DEF sc, all
<1>7. /\ h \in PermitGates /\ h.scratch = sc /\ h.whole = all /\ h.known = g.named
      /\ h.sent = g.sent /\ h.items = g.items /\ h.named = g.named
      /\ h.unlocked = g.unlocked /\ h.installed = g.installed
  BY <1>2, <1>4, <1>6 DEF PermitGates
<1>8. InForce(h)
  BY <1>5, <1>7, <1>l DEF InForce
<1> QED BY <1>7, <1>8 DEF SameItems

LEMMA EnsureIs ==
  ASSUME NEW g \in PermitGates, NEW io \in Allowed, NEW h, h = EnsureInstalled(g, io)
  PROVE  /\ h \in PermitGates /\ SameItems(g, h) /\ h.unlocked = g.unlocked
         /\ InForce(g) \/ ~g.installed => InForce(h)
         /\ h = g \/ (h.known = h.named /\ ~g.installed)
<1>1. CASE g.installed \/ ~io.can
  <2>1. h = g
    BY <1>1 DEF EnsureInstalled
  <2> QED BY <2>1 DEF InForce, SameItems
<1>2. CASE ~ (g.installed \/ ~io.can)
  <2> DEFINE i == [g EXCEPT !.installed = TRUE]
  <2>1. h = Sync(i, io)
    BY <1>2 DEF EnsureInstalled
  <2>2. i \in PermitGates /\ SameItems(g, i) /\ i.unlocked = g.unlocked
    BY DEF PermitGates, SameItems
  <2> HIDE DEF i
  <2>3. h \in PermitGates /\ InForce(h) /\ SameItems(i, h) /\ h.unlocked = i.unlocked /\ h.known = h.named
    BY <2>1, <2>2, SyncIs
  <2> QED BY <1>2, <2>2, <2>3 DEF SameItems
<1> QED BY <1>1, <1>2

LEMMA UnlockIs ==
  ASSUME NEW g \in PermitGates, NEW s \in AllSpecies, NEW io \in Allowed, NEW h, h = Unlock(g, s, io)
  PROVE  /\ h \in PermitGates /\ SameItems(g, h) /\ InForce(h)
         /\ h.installed => h.known = h.named
<1> DEFINE u == [g EXCEPT !.unlocked = @ \cup {s}]
           e == EnsureInstalled(u, io)
<1>1. u \in PermitGates /\ SameItems(g, u)
  BY DEF PermitGates, SameItems
<1>2. h = IF e.installed THEN Sync(e, io) ELSE e
  BY DEF Unlock, IfInstalled
<1> HIDE DEF u
<1>3. e \in PermitGates /\ SameItems(u, e)
  BY <1>1, EnsureIs
<1> HIDE DEF e
<1>4. CASE e.installed
  <2>1. h = Sync(e, io)
    BY <1>2, <1>4
  <2>2. h \in PermitGates /\ InForce(h) /\ h.known = h.named /\ SameItems(e, h)
    BY <1>3, <2>1, SyncIs
  <2> QED BY <1>1, <1>3, <2>2 DEF SameItems
<1>5. CASE ~e.installed
  BY <1>1, <1>2, <1>3, <1>5 DEF InForce, SameItems
<1> QED BY <1>4, <1>5

LEMMA ReconcileIs ==
  ASSUME NEW g \in PermitGates, InForce(g), NEW keys \in SUBSET AllSpecies, NEW io \in Allowed,
         NEW h, h = ReconcileGate(g, keys, io)
  PROVE  /\ h \in PermitGates /\ SameItems(g, h) /\ h.unlocked = keys /\ InForce(h)
         /\ h.installed => h.known = h.named \/ (g.installed /\ keys = g.unlocked)
<1> DEFINE u == [g EXCEPT !.unlocked = keys]
           e == EnsureInstalled(u, io)
<1>1. /\ u \in PermitGates /\ SameItems(g, u) /\ u.unlocked = keys
      /\ u.installed = g.installed /\ u.scratch = g.scratch /\ u.known = g.known /\ u.whole = g.whole
  BY DEF PermitGates, SameItems
<1>2. h = IF keys # g.unlocked THEN (IF e.installed THEN Sync(e, io) ELSE e) ELSE e
  BY DEF ReconcileGate, IfInstalled
<1> HIDE DEF u
<1>3. /\ e \in PermitGates /\ SameItems(u, e) /\ e.unlocked = keys
      /\ InForce(u) \/ ~u.installed => InForce(e)
      /\ e = u \/ (e.known = e.named /\ ~u.installed)
  <2>1. u \in PermitGates /\ e = EnsureInstalled(u, io)
    BY <1>1
  <2> HIDE DEF e
  <2> QED BY <1>1, <2>1, EnsureIs
<1> HIDE DEF e
<1>4. CASE keys # g.unlocked /\ e.installed
  <2>1. h = Sync(e, io)
    BY <1>2, <1>4
  <2>2. h \in PermitGates /\ InForce(h) /\ h.known = h.named /\ SameItems(e, h) /\ h.unlocked = e.unlocked
    BY <1>3, <2>1, SyncIs
  <2> QED BY <1>1, <1>3, <2>2 DEF SameItems
<1>5. CASE keys # g.unlocked /\ ~e.installed
  <2>1. h = e
    BY <1>2, <1>5
  <2> QED BY <1>1, <1>3, <1>5, <2>1 DEF InForce, SameItems
<1>6. CASE keys = g.unlocked
  <2>1. h = e
    BY <1>2, <1>6
  <2>2. InForce(u)
    BY <1>1, <1>6 DEF InForce
  <2>3. h.installed => h.known = h.named \/ g.installed
    BY <1>1, <1>3, <2>1
  <2> QED BY <1>1, <1>3, <1>6, <2>1, <2>2, <2>3 DEF SameItems
<1> QED BY <1>4, <1>5, <1>6

LEMMA ApplyNextIs ==
  ASSUME NEW g, NEW y \in Working(g), NEW item \in Items, NEW io \in Allowed,
         NEW x, x = ApplyNext(y, item, io)
  PROVE  x \in Working(g)
<1> DEFINE h == CASE item[1] = "permit"   -> OnSpeciesUnlock(y, item, io)
                  [] item[1] = "tool"     -> OnToolUnlock(y, io)
                  [] item[1] = "facility" -> y
           ok == IF item[1] = "facility" THEN OnFacilityUnlock(item[2]) ELSE h.installed
<1>1. \/ item[1] = "permit" /\ item[2] \in AllSpecies
      \/ item[1] = "tool"
      \/ item[1] = "facility"
  BY DEF Items, Purchasable
<1>2. x = IF ok THEN [h EXCEPT !.mark = @ + 1] ELSE h
  BY DEF ApplyNext
<1>y. y \in PermitGates /\ InForce(y) /\ SameItems(g, y) /\ Tracks(g, y)
  BY DEF Working
<1>3. h \in PermitGates /\ InForce(h) /\ SameItems(g, h) /\ Tracks(g, h)
  <2>1. CASE item[1] = "permit"
    <3>1. h = Unlock(y, item[2], io) /\ item[2] \in AllSpecies
      BY <1>1, <2>1 DEF OnSpeciesUnlock
    <3> HIDE DEF h
    <3>2. h \in PermitGates /\ SameItems(y, h) /\ InForce(h) /\ (h.installed => h.known = h.named)
      BY <1>y, <3>1, UnlockIs
    <3> QED BY <1>y, <3>2 DEF SameItems, Tracks
  <2>2. CASE item[1] = "tool"
    <3>1. h = EnsureInstalled(y, io)
      BY <2>2 DEF OnToolUnlock
    <3> HIDE DEF h
    <3>2. /\ h \in PermitGates /\ SameItems(y, h) /\ InForce(h)
          /\ h = y \/ (h.known = h.named /\ ~y.installed)
      BY <1>y, <3>1, EnsureIs
    <3> QED BY <1>y, <3>2 DEF SameItems, Tracks
  <2>3. CASE item[1] = "facility"
    BY <1>y, <2>3
  <2> QED BY <1>1, <2>1, <2>2, <2>3
<1> HIDE DEF h, ok
<1>4. CASE x = h
  BY <1>3, <1>4 DEF Working
<1>5. CASE x = [h EXCEPT !.mark = @ + 1]
  <2>1. /\ x \in PermitGates /\ x.sent = h.sent /\ x.items = h.items /\ x.unlocked = h.unlocked
        /\ x.installed = h.installed /\ x.scratch = h.scratch
        /\ x.named = h.named /\ x.known = h.known /\ x.whole = h.whole
    BY <1>3, <1>5 DEF PermitGates
  <2>2. InForce(x) /\ SameItems(g, x) /\ Tracks(g, x)
    BY <1>3, <2>1 DEF InForce, SameItems, Tracks
  <2> QED BY <2>1, <2>2 DEF Working
<1> QED BY <1>2, <1>4, <1>5

LEMMA ApplyItemsIs ==
  ASSUME NEW g \in PermitGates, InForce(g), NEW io \in Allowed
  PROVE  ApplyItems(g, io) \in Working(g)
<1> DEFINE lo == IF g.mark <= Len(g.items) THEN g.mark ELSE Len(g.items)
           hi == Len(g.items)
           W == Working(g)
           One(x, n) == IF x.mark = n - 1 THEN ApplyNext(x, g.items[n], io) ELSE x
           F == [n \in (lo + 1)..hi |-> [x \in W |-> One(x, n)]]
           Eq(h) == h = [n \in lo..hi |->
              IF n = lo THEN g
              ELSE IF h[n - 1].mark = n - 1 THEN ApplyNext(h[n - 1], g.items[n], io)
              ELSE h[n - 1]]
<1>0. g.items \in Seq(Items) /\ g.mark \in Nat /\ hi \in Nat
  BY DEF PermitGates
<1>1. lo \in Nat /\ lo <= hi
  BY <1>0
<1>w. g \in W
  BY DEF Working, SameItems, Tracks
<1>2. ASSUME NEW n \in (lo + 1)..hi, NEW x \in W PROVE One(x, n) \in W
  <2>1. CASE x.mark = n - 1
    <3>1. n \in 1..hi /\ g.items[n] \in Items
      <4> HIDE DEF lo
      <4> QED BY <1>0, <1>1
    <3>2. ApplyNext(x, g.items[n], io) \in W
      BY <3>1, ApplyNextIs
    <3> QED BY <2>1, <3>2
  <2>2. CASE x.mark # n - 1
    BY <2>2
  <2> QED BY <2>1, <2>2
<1> HIDE DEF W, One, lo, hi
<1>3. F \in [(lo + 1)..hi -> [W -> W]]
  BY <1>2
<1>4. PICK f \in [lo..hi -> W] : RunOf(F, g, lo, hi, f)
  <2> HIDE DEF F
  <2> QED BY <1>0, <1>1, <1>3, <1>w, RunExists
<1>5. /\ f[lo] = g
      /\ \A n \in (lo + 1)..hi : f[n] = F[n][f[n - 1]]
  BY <1>4, Zenon DEF RunOf
<1>6. \A n \in (lo + 1)..hi : f[n] = One(f[n - 1], n)
  <2> TAKE n \in (lo + 1)..hi
  <2>1. f[n - 1] \in W
    BY <1>0, <1>1, <1>4
  <2>2. F[n][f[n - 1]] = One(f[n - 1], n)
    BY <2>1
  <2> QED BY <1>5, <2>2
<1>7. Eq(f)
  <2>1. \A n \in lo..hi : f[n] = IF n = lo THEN g ELSE One(f[n - 1], n)
    BY <1>0, <1>1, <1>5, <1>6
  <2>2. f = [n \in lo..hi |-> f[n]]
    BY <1>4
  <2>3. f = [n \in lo..hi |-> IF n = lo THEN g ELSE One(f[n - 1], n)]
    BY <2>1, <2>2
  <2> QED BY <2>3, Zenon DEF One
<1> DEFINE h == CHOOSE h : Eq(h)
<1>8. Eq(h)
  BY <1>7, Zenon
<1>9. ApplyItems(g, io) = h[hi]
  BY DEF ApplyItems, lo, hi
<1> HIDE DEF h
<1>10. \A n \in lo..hi : h[n] = IF n = lo THEN g ELSE One(h[n - 1], n)
  <2>1. \A n \in lo..hi : h[n] = IF n = lo THEN g
          ELSE IF h[n - 1].mark = n - 1 THEN ApplyNext(h[n - 1], g.items[n], io) ELSE h[n - 1]
    BY <1>8
  <2> HIDE DEF Eq
  <2> QED BY <2>1 DEF One
<1> DEFINE P == {n \in lo..hi : h[n] \in W}
<1>11. lo \in P
  BY <1>0, <1>1, <1>10, <1>w
<1>12. ASSUME NEW n \in (lo + 1)..hi, n - 1 \in P PROVE n \in P
  <2>1. n \in lo..hi /\ n # lo /\ h[n - 1] \in W
    BY <1>0, <1>1, <1>12
  <2> QED BY <1>2, <1>10, <2>1
<1> HIDE DEF P
<1>13. \A n \in lo..hi : n \in P
  BY <1>0, <1>1, <1>11, <1>12, OneByOne
<1>14. hi \in P
  BY <1>0, <1>1, <1>13
<1> QED BY <1>9, <1>14 DEF P, W

\* Applying ends with what the items say, looked up anew unless nothing changed.
LEMMA SettleIs ==
  ASSUME NEW g \in PermitGates, InForce(g), NEW io \in Allowed, NEW h, h = Settle(g, io)
  PROVE  /\ h \in Current /\ SameItems(g, h)
         /\ h.installed => h.known = h.named \/ (g.installed /\ g.unlocked = Purchasable \ Blocked(h))
<1> DEFINE a == ApplyItems(g, io)
           keys == Purchasable \ Blocked(a)
<1>1. a \in Working(g)
  BY ApplyItemsIs
<1>2. h = ReconcileGate(a, keys, io)
  BY DEF Settle, ReconcilePurchases
<1>3. keys \in SUBSET AllSpecies
  BY DEF Purchasable
<1> HIDE DEF a
<1>4. a \in PermitGates /\ InForce(a) /\ SameItems(g, a) /\ Tracks(g, a)
  BY <1>1 DEF Working
<1>5. keys = Purchasable \ Blocked(a)
  OBVIOUS
<1> HIDE DEF keys
<1>6. /\ h \in PermitGates /\ SameItems(a, h) /\ h.unlocked = keys /\ InForce(h)
      /\ h.installed => h.known = h.named \/ (a.installed /\ keys = a.unlocked)
  BY <1>2, <1>3, <1>4, ReconcileIs
<1>7. Blocked(h) = Blocked(a)
  BY <1>6 DEF SameItems, Blocked
<1>8. h \in Current
  BY <1>5, <1>6, <1>7 DEF Current
<1>9. ASSUME h.installed, h.known # h.named
      PROVE  g.installed /\ g.unlocked = Purchasable \ Blocked(h)
  <2>1. a.installed /\ keys = a.unlocked
    BY <1>6, <1>9
  <2>2. CASE a.known = a.named
    <3>1. a = [a EXCEPT !.unlocked = keys]
      BY <1>4, <2>1 DEF PermitGates
    <3>2. EnsureInstalled(a, io) = a
      BY <2>1 DEF EnsureInstalled
    <3>3. h = a
      BY <1>2, <2>1, <3>1, <3>2 DEF ReconcileGate
    <3> QED BY <1>9, <2>2, <3>3
  <2>3. CASE a.known # a.named
    <3>1. g.installed /\ a.unlocked = g.unlocked
      BY <1>4, <2>1, <2>3 DEF Tracks
    <3> QED BY <1>5, <1>7, <2>1, <3>1
  <2> QED BY <2>2, <2>3
<1> QED BY <1>4, <1>6, <1>8, <1>9 DEF SameItems

LEMMA FreshIs ==
  ASSUME NEW named \in SUBSET Purchasable
  PROVE  Fresh(named) \in Current
<1> USE KeysTyped
<1>1. Zeroed \in Scratches
  BY DEF Zeroed, Scratches
<1>2. Fresh(named) \in PermitGates
  BY <1>1 DEF Fresh, PermitGates
<1>3. Fresh(named).installed = FALSE
  BY DEF Fresh
<1> QED BY <1>2, <1>3 DEF Current, InForce

\* Every event leaves a gate in order; and one that is new, or misses other
\* species than before, was looked up anew.
LEMMA EventIs ==
  ASSUME NEW g \in Current, NEW e \in Events, NEW io \in Allowed, NEW h, h = Event(g, e, io)
  PROVE  /\ h \in Current
         /\ h.installed /\ (~g.installed \/ Blocked(h) # Blocked(g)) => h.known = h.named
<1> DEFINE Settling == {"enter", "leave", "restart"}
<1>g. g \in PermitGates /\ InForce(g) /\ (g.installed => g.unlocked = Purchasable \ Blocked(g))
  BY DEF Current
<1>b. \A x : Blocked(x) \subseteq Purchasable
  BY DEF Blocked, PurchaseBlocked
<1>1. CASE e[1] = "enter" \/ e[1] = "leave"
  <2>1. e[2] \in Purchasable
    <3>1. e \in {"enter", "leave"} \X Purchasable
      BY <1>1 DEF Events, Items
    <3> QED BY <3>1
  <2>2. PICK named \in SUBSET Purchasable : h = [g EXCEPT !.named = named]
    <3>1. g.named \in SUBSET Purchasable
      BY <1>g DEF PermitGates
    <3>2. CASE e[1] = "enter"
      <4>1. h = [g EXCEPT !.named = g.named \cup {e[2]}]
        BY <3>2 DEF Event
      <4> QED BY <2>1, <3>1, <4>1
    <3>3. CASE e[1] = "leave"
      <4>1. h = [g EXCEPT !.named = g.named \ {e[2]}]
        BY <3>3 DEF Event
      <4> QED BY <3>1, <4>1
    <3> QED BY <1>1, <3>2, <3>3
  <2>3. /\ h \in PermitGates /\ h.installed = g.installed /\ h.whole = g.whole /\ h.scratch = g.scratch
        /\ h.unlocked = g.unlocked /\ h.known = g.known /\ h.items = g.items
    BY <1>g, <2>2 DEF PermitGates
  <2>4. Blocked(h) = Blocked(g)
    BY <2>3 DEF Blocked
  <2>5. InForce(h)
    BY <1>g, <2>3 DEF InForce
  <2> QED BY <1>g, <2>3, <2>4, <2>5 DEF Current
<1>2. CASE e[1] = "restart"
  <2> DEFINE f == Fresh(g.named)
  <2>1. h = [f EXCEPT !.sent = g.sent, !.mark = g.mark]
    BY <1>2 DEF Event
  <2>2. g.named \in SUBSET Purchasable /\ g.sent \in Seq(Items) /\ g.mark \in Nat
    BY <1>g DEF PermitGates
  <2>3. f \in PermitGates /\ f.installed = FALSE
    BY <2>2, FreshIs DEF Current, Fresh
  <2> HIDE DEF f
  <2>4. h \in PermitGates /\ h.installed = FALSE
    BY <2>1, <2>2, <2>3 DEF PermitGates
  <2> QED BY <2>4 DEF Current, InForce
<1>3. CASE e[1] \notin Settling
  <2>1. PICK sofar \in Seq(Items), items \in Seq(Items) :
          h = Settle([g EXCEPT !.sent = sofar, !.items = items], io)
    <3>1. g.sent \in Seq(Items) /\ g.items \in Seq(Items)
      BY <1>g DEF PermitGates
    <3>g. g = [g EXCEPT !.sent = g.sent, !.items = g.items]
      BY <1>g DEF PermitGates
    <3>2. CASE e[1] = "tick"
      <4>1. h = Settle(g, io)
        BY <3>2 DEF Event
      <4>2. h = Settle([g EXCEPT !.sent = g.sent, !.items = g.items], io)
        BY <3>g, <4>1
      <4> QED BY <3>1, <4>2
    <3>3. CASE e[1] = "connected"
      <4>1. h = Settle([g EXCEPT !.items = <<>>], io)
        BY <3>3 DEF Event
      <4>2. [g EXCEPT !.items = <<>>] = [g EXCEPT !.sent = g.sent, !.items = <<>>]
        BY <1>g DEF PermitGates
      <4>3. h = Settle([g EXCEPT !.sent = g.sent, !.items = <<>>], io) /\ <<>> \in Seq(Items)
        BY <4>1, <4>2
      <4> QED BY <3>1, <4>3
    <3>4. CASE e[1] = "resent"
      <4>1. h = Settle([g EXCEPT !.items = g.sent], io)
        BY <3>4 DEF Event
      <4>2. [g EXCEPT !.items = g.sent] = [g EXCEPT !.sent = g.sent, !.items = g.sent]
        BY <1>g DEF PermitGates
      <4>3. h = Settle([g EXCEPT !.sent = g.sent, !.items = g.sent], io)
        BY <4>1, <4>2
      <4> QED BY <3>1, <4>3
    <3>5. CASE e[1] \notin {"tick", "connected", "resent"}
      <4>1. e \in Items
        <5>1. e \in Items \/ e[1] \in {"enter", "leave", "tick", "connected", "resent", "restart"}
          BY DEF Events
        <5> QED BY <1>3, <3>5, <5>1
      <4>2. Append(g.sent, e) \in Seq(Items)
        BY <3>1, <4>1
      <4>3. h = Settle([g EXCEPT !.sent = Append(@, e), !.items = Append(g.sent, e)], io)
        BY <1>3, <3>5 DEF Event
      <4>4. h = Settle([g EXCEPT !.sent = Append(g.sent, e), !.items = Append(g.sent, e)], io)
        BY <4>3
      <4> QED BY <4>2, <4>4
    <3> QED BY <3>2, <3>3, <3>4, <3>5
  <2> DEFINE r == [g EXCEPT !.sent = sofar, !.items = items]
  <2>2. /\ r \in PermitGates /\ r.installed = g.installed /\ r.unlocked = g.unlocked
        /\ r.whole = g.whole /\ r.scratch = g.scratch /\ r.known = g.known
    BY <1>g, <2>1 DEF PermitGates
  <2>3. h = Settle(r, io)
    BY <2>1
  <2> HIDE DEF r
  <2>4. InForce(r)
    BY <1>g, <2>2 DEF InForce
  <2>5. /\ h \in Current
        /\ h.installed => h.known = h.named \/ (r.installed /\ r.unlocked = Purchasable \ Blocked(h))
    BY <2>2, <2>3, <2>4, SettleIs
  <2>6. ASSUME g.installed, g.unlocked = Purchasable \ Blocked(h) PROVE Blocked(h) = Blocked(g)
    BY <1>g, <1>b, <2>6
  <2> QED BY <2>2, <2>5, <2>6
<1> QED BY <1>1, <1>2, <1>3

\* What a history leads to.
LEMMA GatesReached == PermitsReached \subseteq Current
<1>r. Rounds \in Nat
  BY KeysTyped
<1> DEFINE start == {Fresh({}), Fresh(Purchasable)}
           F == [x \in Current |-> GateSteps(x)]
           Eq(f) == f = [n \in 0..Rounds |->
                           IF n = 0 THEN start
                           ELSE LET before == f[n - 1] IN before \cup UNION {GateSteps(x) : x \in before}]
<1>1. start \in SUBSET Current
  BY FreshIs
<1>2. \A x \in Current : GateSteps(x) \in SUBSET Current
  BY EventIs DEF GateSteps
<1>3. F \in [Current -> SUBSET Current]
  BY <1>2
<1> HIDE DEF start
<1>4. PICK f \in [0..Rounds -> SUBSET Current] : Grows(F, start, Rounds, f)
  <2> HIDE DEF F
  <2> QED BY <1>r, <1>1, <1>3, GrowthExists
<1>5. ASSUME NEW n \in 1..Rounds
      PROVE  f[n] = f[n - 1] \cup UNION {GateSteps(x) : x \in f[n - 1]}
  <2>1. f[n - 1] \in SUBSET Current
    BY <1>r, <1>4
  <2>2. \A x \in f[n - 1] : F[x] = GateSteps(x)
    BY <2>1
  <2>3. f[n] = f[n - 1] \cup UNION {F[x] : x \in f[n - 1]}
    BY <1>4 DEF Grows
  <2> HIDE DEF F
  <2> QED BY <2>2, <2>3
<1>6. Eq(f)
  <2>1. f[0] = start
    BY <1>4 DEF Grows
  <2>2. \A n \in 0..Rounds :
          f[n] = IF n = 0 THEN start ELSE f[n - 1] \cup UNION {GateSteps(x) : x \in f[n - 1]}
    BY <1>r, <1>5, <2>1
  <2>3. f = [n \in 0..Rounds |-> f[n]]
    BY <1>4
  <2> QED BY <2>2, <2>3
<1> DEFINE h == CHOOSE h : Eq(h)
<1>7. Eq(h)
  BY <1>6, Zenon
<1>8. PermitsReached = h[Rounds]
  BY DEF PermitsReached, Reachable, start
<1> HIDE DEF h
<1>9. \A n \in 0..Rounds :
        h[n] = IF n = 0 THEN start ELSE h[n - 1] \cup UNION {GateSteps(x) : x \in h[n - 1]}
  BY <1>7
<1> DEFINE P == {n \in 0..Rounds : h[n] \in SUBSET Current}
<1>10. 0 \in P
  <2>1. 0 \in 0..Rounds
    BY <1>r
  <2>2. h[0] = start
    BY <1>9, <2>1
  <2> QED BY <1>1, <2>1, <2>2
<1>11. ASSUME NEW n \in (0 + 1)..Rounds, n - 1 \in P PROVE n \in P
  <2>1. n \in 0..Rounds /\ n # 0 /\ h[n - 1] \in SUBSET Current
    BY <1>r, <1>11
  <2>2. h[n] = h[n - 1] \cup UNION {GateSteps(x) : x \in h[n - 1]}
    BY <1>9, <2>1
  <2>3. UNION {GateSteps(x) : x \in h[n - 1]} \subseteq Current
    BY <1>2, <2>1
  <2> QED BY <2>1, <2>2, <2>3
<1> HIDE DEF P
<1>12. Rounds \in P
  BY <1>r, <1>10, <1>11, OneByOne
<1> QED BY <1>8, <1>12 DEF P

LEMMA PurchasesHold == PurchaseInForce
<1>1. ASSUME NEW g \in PermitsReached, g.installed, g.whole
      PROVE  {s \in AllSpecies : Fails(g.scratch, s)} = ToSet(BlockedList(Blocked(g), g.known))
  <2>1. g \in Current
    BY GatesReached
  <2>2. /\ \A s : Fails(g.scratch, s) <=> s \in ToSet(BlockedList(Purchasable \ g.unlocked, g.known))
        /\ g.unlocked = Purchasable \ Blocked(g)
    BY <1>1, <2>1 DEF Current, InForce
  <2>3. Blocked(g) \subseteq Purchasable
    BY DEF Blocked, PurchaseBlocked
  <2>4. Purchasable \ g.unlocked = Blocked(g)
    BY <2>2, <2>3
  <2>5. ToSet(BlockedList(Blocked(g), g.known)) \subseteq AllSpecies
    BY <2>3, ListHolds DEF Purchasable
  <2> QED BY <2>2, <2>4, <2>5
<1>2. ASSUME NEW g \in PermitsReached, NEW h \in GateSteps(g),
             h.installed, ~g.installed \/ Blocked(h) # Blocked(g)
      PROVE  h.known = h.named
  <2>1. PICK e \in Events, io \in Allowed : h = Event(g, e, io)
    BY DEF GateSteps
  <2> QED BY <1>2, <2>1, GatesReached, EventIs
<1> QED BY <1>1, <1>2 DEF PurchaseInForce

-----------------------------------------------------------------------------
(* The research gate over any history                                      *)

\* What reconcile wrote last is in the list, and gated research that runs was
\* running in a loaded park or could not be stopped.
ResearchOK(p) ==
  /\ p.last # {} => p.installed
  /\ \A cats : p.whole /\ p.last = {cats} =>
       /\ p.gated = cats
       /\ \A r \in Projects : p.status[r] = Researching /\ p.cat[r] \in cats => r \in p.spared

ResearchParks(cat, facilities) ==
  {p \in [cat : {cat}, status : Statuses, facilities : {facilities}, received : SUBSET DOMAIN CategoryOf,
          installed : BOOLEAN, gated : SUBSET {3, 7}, last : SUBSET SUBSET {3, 7}, whole : BOOLEAN,
          spared : SUBSET Projects] :
     ResearchOK(p)}

LEMMA GatedIs ==
  ASSUME NEW facilities \in SUBSET DOMAIN CategoryOf, NEW received
  PROVE  GatedCategories(facilities, received) \in SUBSET {3, 7}
BY DEF GatedCategories, ResearchFacilities, CategoryOf

\* Starting research keeps the park in order: what is gated does not start.
LEMMA StartIs ==
  ASSUME NEW cat, NEW facilities, NEW p \in ResearchParks(cat, facilities), NEW r \in Projects
  PROVE  Start(p, r) \in ResearchParks(cat, facilities)
<1>1. CASE Start(p, r) = p
  BY <1>1
<1>2. CASE Start(p, r) # p
  <2> DEFINE q == [p EXCEPT !.status[r] = Researching]
  <2>1. Start(p, r) = q /\ p.cat[r] \notin p.gated
    BY <1>2 DEF Start
  <2>2. p.status \in Statuses
    BY DEF ResearchParks
  <2>3. [p.status EXCEPT ![r] = Researching] \in Statuses
    BY <2>2 DEF Statuses
  <2>4. q = [p EXCEPT !.status = [p.status EXCEPT ![r] = Researching]]
    OBVIOUS
  <2>5. /\ q.cat = p.cat /\ q.facilities = p.facilities /\ q.received = p.received
        /\ q.installed = p.installed /\ q.gated = p.gated /\ q.last = p.last
        /\ q.whole = p.whole /\ q.spared = p.spared
        /\ q.status = [p.status EXCEPT ![r] = Researching]
        /\ q = [cat |-> p.cat, status |-> q.status, facilities |-> p.facilities,
                received |-> p.received, installed |-> p.installed, gated |-> p.gated,
                last |-> p.last, whole |-> p.whole, spared |-> p.spared]
    BY <2>4 DEF ResearchParks
  <2> HIDE DEF q
  <2>6. ResearchOK(q)
    <3>0. q.last # {} => q.installed
      BY <2>5 DEF ResearchParks, ResearchOK
    <3> SUFFICES ASSUME NEW cats, q.whole, q.last = {cats}
                 PROVE  /\ q.gated = cats
                        /\ \A x \in Projects : q.status[x] = Researching /\ q.cat[x] \in cats => x \in q.spared
      BY <3>0 DEF ResearchOK
    <3>1. /\ p.gated = cats
          /\ \A x \in Projects : p.status[x] = Researching /\ p.cat[x] \in cats => x \in p.spared
      BY <2>5 DEF ResearchParks, ResearchOK
    <3>2. \A x \in Projects : q.status[x] = IF x = r THEN Researching ELSE p.status[x]
      BY <2>2, <2>5 DEF Statuses
    <3> QED BY <2>1, <2>5, <3>1, <3>2
  <2> QED BY <2>1, <2>3, <2>5, <2>6 DEF ResearchParks
<1> QED BY <1>1, <1>2

\* A park made of its fields.
GatePark(cat, status, facilities, received, installed, gated, last, whole, spared) ==
  [cat |-> cat, status |-> status, facilities |-> facilities, received |-> received,
   installed |-> installed, gated |-> gated, last |-> last, whole |-> whole, spared |-> spared]

\* A park with one field changed.
LEMMA InstalledIs ==
  ASSUME NEW c, NEW st, NEW fs, NEW re, NEW in, NEW ga, NEW la, NEW wh, NEW sp, NEW new,
         NEW p, p = GatePark(c, st, fs, re, in, ga, la, wh, sp)
  PROVE  [p EXCEPT !.installed = new] = GatePark(c, st, fs, re, new, ga, la, wh, sp)
BY DEF GatePark

LEMMA ListedIs ==
  ASSUME NEW c, NEW st, NEW fs, NEW re, NEW in, NEW ga, NEW la, NEW wh, NEW sp, NEW new,
         NEW p, p = GatePark(c, st, fs, re, in, ga, la, wh, sp)
  PROVE  [p EXCEPT !.gated = new] = GatePark(c, st, fs, re, in, new, la, wh, sp)
BY DEF GatePark

LEMMA WholeIs ==
  ASSUME NEW c, NEW st, NEW fs, NEW re, NEW in, NEW ga, NEW la, NEW wh, NEW sp, NEW new,
         NEW p, p = GatePark(c, st, fs, re, in, ga, la, wh, sp)
  PROVE  [p EXCEPT !.whole = new] = GatePark(c, st, fs, re, in, ga, la, new, sp)
BY DEF GatePark

LEMMA StatusIs ==
  ASSUME NEW c, NEW st, NEW fs, NEW re, NEW in, NEW ga, NEW la, NEW wh, NEW sp, NEW new,
         NEW p, p = GatePark(c, st, fs, re, in, ga, la, wh, sp)
  PROVE  [p EXCEPT !.status = new] = GatePark(c, new, fs, re, in, ga, la, wh, sp)
BY DEF GatePark

\* Truth values as terms.
Yes        == TRUE
Same(a, b) == a = b

LEMMA HookedIs ==
  ASSUME NEW c, NEW st, NEW fs, NEW re, NEW in, NEW ga, NEW la, NEW wh, NEW sp,
         NEW p, p = GatePark(c, st, fs, re, in, ga, la, wh, sp)
  PROVE  Hook(p) = GatePark(c, st, fs, re, Yes, ga, la, wh, sp)
<1>1. [p EXCEPT !.installed = Yes] = GatePark(c, st, fs, re, Yes, ga, la, wh, sp)
  BY InstalledIs
<1>2. Hook(p) = [p EXCEPT !.installed = Yes]
  BY Zenon DEF Hook, Yes
<1> QED BY <1>1, <1>2

LEMMA ShownIs ==
  ASSUME NEW c, NEW st, NEW fs, NEW re, NEW in, NEW ga, NEW la, NEW wh, NEW sp, NEW cats, NEW shown,
         NEW p, p = GatePark(c, st, fs, re, in, ga, la, wh, sp)
  PROVE  WriteShown(p, cats, shown) = GatePark(c, st, fs, re, in, shown, la, Same(shown, cats), sp)
<1> DEFINE g == WriteGated(p, shown)
<1>1. g = GatePark(c, st, fs, re, in, shown, la, wh, sp)
  <2>1. [p EXCEPT !.gated = shown] = GatePark(c, st, fs, re, in, shown, la, wh, sp)
    BY ListedIs
  <2> QED BY <2>1, Zenon DEF WriteGated
<1>2. WriteShown(p, cats, shown) = [g EXCEPT !.whole = Same(shown, cats)]
  BY Zenon DEF WriteShown, Same
<1> HIDE DEF g
<1>3. [g EXCEPT !.whole = Same(shown, cats)] = GatePark(c, st, fs, re, in, shown, la, Same(shown, cats), sp)
  BY <1>1, WholeIs
<1> QED BY <1>2, <1>3

LEMMA TickIs ==
  ASSUME NEW cat, NEW facilities \in SUBSET DOMAIN CategoryOf, NEW p \in ResearchParks(cat, facilities),
         NEW shown \in SUBSET (p.gated \cup GatedNow(p)), NEW started \in SUBSET Projects,
         NEW kept \in SUBSET Projects, NEW q, q = ReconcileResearch(Hook(p), shown, started, kept)
  PROVE  q \in ResearchParks(cat, facilities)
<1>0. p = GatePark(cat, p.status, facilities, p.received, p.installed, p.gated, p.last, p.whole, p.spared)
  BY DEF ResearchParks, GatePark
<1>p. /\ p.cat = cat /\ p.facilities = facilities /\ p.status \in Statuses
      /\ p.received \in SUBSET DOMAIN CategoryOf
      /\ p.gated \in SUBSET {3, 7} /\ p.last \in SUBSET SUBSET {3, 7} /\ p.whole \in BOOLEAN
      /\ p.spared \in SUBSET Projects /\ ResearchOK(p)
  BY DEF ResearchParks, GatePark
<1> DEFINE k    == Hook(p)
           cats == GatedNow(k)
           w    == WriteShown(k, cats, shown)
           st   == [r \in Projects |-> IF r \in started THEN Start(w, r).status[r] ELSE w.status[r]]
           end  == [r \in Projects |-> IF p.cat[r] \in cats /\ st[r] = Researching /\ r \notin kept
                                       THEN Researchable ELSE st[r]]
<1>1. k = GatePark(cat, p.status, facilities, p.received, Yes, p.gated, p.last, p.whole, p.spared)
  BY <1>0, HookedIs
<1>2. cats = GatedNow(p) /\ cats \in SUBSET {3, 7} /\ shown \in SUBSET {3, 7}
  <2>1. cats = GatedNow(p)
    <3>1. k.facilities = p.facilities /\ k.received = p.received
      BY <1>p, <1>1 DEF GatePark
    <3> QED BY <3>1 DEF GatedNow
  <2>2. GatedNow(p) \in SUBSET {3, 7}
    BY <1>p, GatedIs DEF GatedNow
  <2> QED BY <1>p, <2>1, <2>2
<1>3. k.last = p.last
  BY <1>1 DEF GatePark
<1>4. CASE p.last = {cats}
  <2>1. q = k
    BY <1>3, <1>4 DEF ReconcileResearch
  <2> HIDE DEF k
  <2>2. ResearchOK(k)
    BY <1>p, <1>1 DEF ResearchOK, GatePark, Yes
  <2>3. Yes \in BOOLEAN
    BY DEF Yes
  <2> QED BY <1>p, <1>1, <2>1, <2>2, <2>3 DEF ResearchParks, GatePark
<1>5. CASE p.last # {cats}
  <2> DEFINE whole == Same(shown, cats)
  <2>1. w = GatePark(cat, p.status, facilities, p.received, Yes, shown, p.last, whole, p.spared)
    <3> HIDE DEF k, cats
    <3> QED BY <1>1, ShownIs
  <2>2. \A r \in Projects : Start(w, r).status[r] \in {Researchable, Researching}
    <3> TAKE r \in Projects
    <3> HIDE DEF w, whole
    <3>1. w.status = p.status /\ p.status[r] \in {Researchable, Researching}
      BY <1>p, <2>1 DEF Statuses, GatePark
    <3>2. CASE Start(w, r) = w
      BY <3>1, <3>2
    <3>3. CASE Start(w, r) = [w EXCEPT !.status[r] = Researching]
      <4>1. Start(w, r).status = [p.status EXCEPT ![r] = Researching]
        BY <2>1, <3>3 DEF GatePark
      <4> QED BY <1>p, <4>1 DEF Statuses
    <3> QED BY <3>2, <3>3 DEF Start
  <2>3. st \in Statuses
    <3> HIDE DEF w, whole
    <3>1. \A r \in Projects : w.status[r] \in {Researchable, Researching}
      BY <1>p, <2>1 DEF Statuses, GatePark
    <3> QED BY <2>2, <3>1 DEF Statuses
  <2>4. end \in Statuses
    BY <2>3 DEF Statuses
  <2> DEFINE s == [w EXCEPT !.status = st]
             z == [s EXCEPT !.status = [r \in DOMAIN s.status |->
                    IF s.cat[r] \in cats /\ s.status[r] = Researching /\ r \notin kept
                    THEN Researchable ELSE s.status[r]]]
  <2>5. q = [z EXCEPT !.last = {cats}, !.spared = kept]
    BY <1>3, <1>5 DEF ReconcileResearch, StopInProgress
  <2> HIDE DEF k, cats
  <2>6. s = GatePark(cat, st, facilities, p.received, Yes, shown, p.last, whole, p.spared)
    <3> HIDE DEF st, w, whole
    <3> QED BY <2>1, StatusIs
  <2>7. DOMAIN st = Projects
    OBVIOUS
  <2> HIDE DEF st, s, w, whole
  <2>8. [r \in DOMAIN s.status |->
           IF s.cat[r] \in cats /\ s.status[r] = Researching /\ r \notin kept
           THEN Researchable ELSE s.status[r]] = end
    BY <1>p, <2>6, <2>7 DEF GatePark
  <2> HIDE DEF end
  <2>9. q = GatePark(cat, end, facilities, p.received, Yes, shown, {cats}, whole, kept)
    <3>1. z = GatePark(cat, end, facilities, p.received, Yes, shown, p.last, whole, p.spared)
      <4>1. z = [s EXCEPT !.status = end]
        BY <2>8, Zenon
      <4> QED BY <2>6, <4>1, StatusIs
    <3> HIDE DEF z
    <3> QED BY <2>5, <3>1 DEF GatePark
  <2>10. ResearchOK(q)
    <3>1. whole => shown = cats
      BY DEF whole, Same
    <3>2. \A r \in Projects : end[r] = Researching /\ p.cat[r] \in cats => r \in kept
      BY DEF end, Researching, Researchable
    <3>3. Yes
      BY DEF Yes
    <3>4. /\ q.cat = p.cat /\ q.status = end /\ q.installed = Yes /\ q.gated = shown
          /\ q.last = {cats} /\ q.whole = whole /\ q.spared = kept
      BY <1>p, <2>9 DEF GatePark
    <3> QED BY <3>1, <3>2, <3>3, <3>4 DEF ResearchOK
  <2>11. whole \in BOOLEAN /\ Yes \in BOOLEAN
    BY DEF whole, Same, Yes
  <2> QED BY <1>p, <1>2, <2>4, <2>9, <2>10, <2>11 DEF ResearchParks, GatePark
<1> QED BY <1>4, <1>5

LEMMA UnhookedIs ==
  ASSUME NEW cat, NEW facilities, NEW status \in Statuses, NEW q, q = Unhooked(cat, facilities, {}, status)
  PROVE  q \in ResearchParks(cat, facilities)
<1>1. q = [cat |-> cat, status |-> status, facilities |-> facilities,
           received |-> {}, installed |-> FALSE, gated |-> {}, last |-> {}, whole |-> TRUE, spared |-> {}]
  BY DEF Unhooked
<1>2. ResearchOK(q)
  BY <1>1 DEF ResearchOK
<1> DEFINE none == [cat |-> cat, status |-> status, facilities |-> facilities,
                    received |-> {}, installed |-> FALSE, gated |-> {}, last |-> {}, whole |-> TRUE, spared |-> {}]
<1>3. none \in [cat : {cat}, status : Statuses, facilities : {facilities}, received : SUBSET DOMAIN CategoryOf,
                installed : BOOLEAN, gated : SUBSET {3, 7}, last : SUBSET SUBSET {3, 7}, whole : BOOLEAN,
                spared : SUBSET Projects]
  <2>1. {} \in SUBSET DOMAIN CategoryOf /\ {} \in SUBSET {3, 7} /\ {} \in SUBSET SUBSET {3, 7} /\ {} \in SUBSET Projects
    OBVIOUS
  <2> QED BY <2>1
<1> QED BY <1>1, <1>2, <1>3 DEF ResearchParks

LEMMA ResearchStepIs ==
  ASSUME NEW cat, NEW facilities \in SUBSET DOMAIN CategoryOf, NEW p \in ResearchParks(cat, facilities)
  PROVE  ResearchSteps(p) \in SUBSET ResearchParks(cat, facilities)
<1> SUFFICES ASSUME NEW q \in ResearchSteps(p) PROVE q \in ResearchParks(cat, facilities)
  OBVIOUS
<1>p. /\ p = [cat |-> p.cat, status |-> p.status, facilities |-> p.facilities,
              received |-> p.received, installed |-> p.installed, gated |-> p.gated,
              last |-> p.last, whole |-> p.whole, spared |-> p.spared]
      /\ p.cat = cat /\ p.facilities = facilities /\ p.status \in Statuses
      /\ p.received \in SUBSET DOMAIN CategoryOf /\ p.installed \in BOOLEAN
      /\ p.gated \in SUBSET {3, 7} /\ p.last \in SUBSET SUBSET {3, 7} /\ p.whole \in BOOLEAN
      /\ p.spared \in SUBSET Projects /\ ResearchOK(p)
  BY DEF ResearchParks
<1>1. ASSUME NEW f \in DOMAIN CategoryOf, q = [p EXCEPT !.received = @ \cup {f}]
      PROVE  q \in ResearchParks(cat, facilities)
  <2>1. q = [cat |-> p.cat, status |-> p.status, facilities |-> p.facilities,
             received |-> p.received \cup {f}, installed |-> p.installed, gated |-> p.gated,
             last |-> p.last, whole |-> p.whole, spared |-> p.spared]
    BY <1>p, <1>1
  <2>2. ResearchOK(q)
    BY <1>p, <2>1 DEF ResearchOK
  <2> QED BY <1>p, <2>1, <2>2 DEF ResearchParks
<1>2. ASSUME q \in ResearchTicks(p) PROVE q \in ResearchParks(cat, facilities)
  BY <1>2, TickIs DEF ResearchTicks
<1>3. ASSUME NEW r \in Projects, q = Start(p, r) PROVE q \in ResearchParks(cat, facilities)
  BY <1>3, StartIs
<1>4. ASSUME NEW saved \in Statuses,
             q = [p EXCEPT !.status = saved, !.spared = {r \in Projects : saved[r] = Researching}]
      PROVE  q \in ResearchParks(cat, facilities)
  <2> DEFINE ran == {r \in Projects : saved[r] = Researching}
  <2>1. q = [cat |-> p.cat, status |-> saved, facilities |-> p.facilities,
             received |-> p.received, installed |-> p.installed, gated |-> p.gated,
             last |-> p.last, whole |-> p.whole, spared |-> ran]
    BY <1>p, <1>4
  <2>2. ResearchOK(q)
    BY <1>p, <2>1 DEF ResearchOK
  <2>3. ran \in SUBSET Projects
    OBVIOUS
  <2> HIDE DEF ran
  <2> QED BY <1>p, <2>1, <2>2, <2>3 DEF ResearchParks
<1>5. ASSUME q = Unhooked(p.cat, p.facilities, {}, p.status) PROVE q \in ResearchParks(cat, facilities)
  BY <1>p, <1>5, UnhookedIs
<1> QED BY <1>1, <1>2, <1>3, <1>4, <1>5 DEF ResearchSteps

LEMMA ParksReached ==
  ASSUME NEW cat, NEW facilities \in SUBSET DOMAIN CategoryOf
  PROVE  ResearchReached(cat, facilities) \subseteq ResearchParks(cat, facilities)
<1>r. Rounds \in Nat
  BY KeysTyped
<1> DEFINE W == ResearchParks(cat, facilities)
           start == {Unhooked(cat, facilities, {}, status) : status \in Statuses}
           F == [x \in W |-> ResearchSteps(x)]
           Eq(f) == f = [n \in 0..Rounds |->
                           IF n = 0 THEN start
                           ELSE LET before == f[n - 1] IN before \cup UNION {ResearchSteps(x) : x \in before}]
<1>1. start \in SUBSET W
  BY UnhookedIs
<1>2. \A x \in W : ResearchSteps(x) \in SUBSET W
  BY ResearchStepIs
<1> HIDE DEF W, start
<1>3. F \in [W -> SUBSET W]
  BY <1>2
<1>4. PICK f \in [0..Rounds -> SUBSET W] : Grows(F, start, Rounds, f)
  <2> HIDE DEF F
  <2> QED BY <1>r, <1>1, <1>3, GrowthExists
<1>5. ASSUME NEW n \in 1..Rounds
      PROVE  f[n] = f[n - 1] \cup UNION {ResearchSteps(x) : x \in f[n - 1]}
  <2>1. f[n - 1] \in SUBSET W
    BY <1>r, <1>4
  <2>2. \A x \in f[n - 1] : F[x] = ResearchSteps(x)
    BY <2>1
  <2>3. f[n] = f[n - 1] \cup UNION {F[x] : x \in f[n - 1]}
    BY <1>4 DEF Grows
  <2> HIDE DEF F
  <2> QED BY <2>2, <2>3
<1>6. Eq(f)
  <2>1. f[0] = start
    BY <1>4 DEF Grows
  <2>2. \A n \in 0..Rounds :
          f[n] = IF n = 0 THEN start ELSE f[n - 1] \cup UNION {ResearchSteps(x) : x \in f[n - 1]}
    BY <1>r, <1>5, <2>1
  <2>3. f = [n \in 0..Rounds |-> f[n]]
    BY <1>4
  <2> QED BY <2>2, <2>3
<1> DEFINE h == CHOOSE h : Eq(h)
<1>7. Eq(h)
  BY <1>6, Zenon
<1>8. ResearchReached(cat, facilities) = h[Rounds]
  BY DEF ResearchReached, Reachable, start
<1> HIDE DEF h
<1>9. \A n \in 0..Rounds :
        h[n] = IF n = 0 THEN start ELSE h[n - 1] \cup UNION {ResearchSteps(x) : x \in h[n - 1]}
  BY <1>7
<1> DEFINE P == {n \in 0..Rounds : h[n] \in SUBSET W}
<1>10. 0 \in P
  <2>1. 0 \in 0..Rounds
    BY <1>r
  <2>2. h[0] = start
    BY <1>9, <2>1
  <2> QED BY <1>1, <2>1, <2>2
<1>11. ASSUME NEW n \in (0 + 1)..Rounds, n - 1 \in P PROVE n \in P
  <2>1. n \in 0..Rounds /\ n # 0 /\ h[n - 1] \in SUBSET W
    BY <1>r, <1>11
  <2>2. h[n] = h[n - 1] \cup UNION {ResearchSteps(x) : x \in h[n - 1]}
    BY <1>9, <2>1
  <2>3. UNION {ResearchSteps(x) : x \in h[n - 1]} \subseteq W
    BY <1>2, <2>1
  <2> QED BY <2>1, <2>2, <2>3
<1> HIDE DEF P
<1>12. Rounds \in P
  BY <1>r, <1>10, <1>11, OneByOne
<1> QED BY <1>8, <1>12 DEF P, W

LEMMA ResearchHolds == ResearchHeld
<1> SUFFICES ASSUME NEW cat \in [Projects -> {3, 7}], NEW facilities \in SUBSET DOMAIN CategoryOf,
                    NEW p \in ResearchReached(cat, facilities),
                    p.installed, p.whole, p.last = {GatedNow(p)}
             PROVE  p.gated = GatedNow(p) /\ RunsGated(p) \subseteq p.spared
  BY DEF ResearchHeld
<1>1. ResearchOK(p)
  BY ParksReached DEF ResearchParks
<1> QED BY <1>1 DEF ResearchOK, RunsGated, Running

-----------------------------------------------------------------------------
(* The theorems about the gates                                            *)

\* For any species and gates, and room in the list: a walk of the game that
\* overlaps at most one write of any rewrite fails each purchase that is blocked
\* before and after and does not move down the list, and none that is blocked
\* neither before nor after (PermitGate._sync and the trampoline that reads its
\* list); none moves down while permits only arrive.  Where one moves down,
\* GrowsGapless is violated.
THEOREM WalksAreSound == ASSUME Overlap <= 1 PROVE Spec => []ScratchNeverGaps
<1>1. ScratchNeverGaps
  BY NoGapHolds, NoneMovesDownHolds, NoneElseHolds DEF ScratchNeverGaps, Applies, WalksSound
<1> QED BY <1>1, PTL

\* For any species and gates, and histories of any length, with species that
\* come and go, writes that fail, restarts and loads: a purchase gate that is
\* there blocks just what lacked a token and had a handle at its last rewrite,
\* and it is rewritten whenever the former changes; and no research of a gated
\* category runs but what ran in a loaded park or could not be stopped
\* (_apply_new_items, _reconcile_permits, ResearchGate.reconcile).
THEOREM GatesAlwaysHold == Spec => []GatesHold
<1>1. GatesHold
  BY PurchasesHold, ResearchHolds DEF GatesHold, Applies
<1> QED BY <1>1, PTL

-----------------------------------------------------------------------------
(* The age of a park, over any number of events                            *)

\* What n events lead to is a function of n.
AgesUpTo(m, f) ==
  f = [n \in 0..m |-> IF n = 0 THEN {NewReader}
                      ELSE f[n - 1] \cup UNION {AgeSteps(p) : p \in f[n - 1]}]

LEMMA AgesUpToExists == \A m \in 0..AgeRounds : \E f : AgesUpTo(m, f)
<1> DEFINE P == {m \in 0..AgeRounds : \E f : AgesUpTo(m, f)}
<1>1. AgeRounds \in Nat /\ 0 \in Nat
  BY AgeAssumption DEF AgeAssumption
<1>2. 0 \in P
  <2> DEFINE g == [n \in 0..0 |-> {NewReader}]
  <2>1. g = [n \in 0..0 |-> IF n = 0 THEN {NewReader}
                            ELSE g[n - 1] \cup UNION {AgeSteps(p) : p \in g[n - 1]}]
    OBVIOUS
  <2> HIDE DEF g
  <2>2. AgesUpTo(0, g)
    BY <2>1 DEF AgesUpTo
  <2> QED BY <1>1, <2>2
<1>3. ASSUME NEW m \in (0 + 1)..AgeRounds, m - 1 \in P PROVE m \in P
  <2>1. m \in 0..AgeRounds /\ m \in Nat /\ m # 0
    BY <1>1
  <2>2. PICK f : AgesUpTo(m - 1, f)
    BY <1>3
  <2> DEFINE Grown(S) == S \cup UNION {AgeSteps(p) : p \in S}
             g == [n \in 0..m |-> IF n = m THEN Grown(f[m - 1]) ELSE f[n]]
  <2>3. \A n \in 0..(m - 1) : f[n] = IF n = 0 THEN {NewReader} ELSE Grown(f[n - 1])
    BY <2>2 DEF AgesUpTo
  <2> HIDE DEF Grown
  <2>4. \A n \in 0..(m - 1) : g[n] = f[n]
    BY <2>1
  <2>5. g[m] = Grown(f[m - 1]) /\ m - 1 \in 0..(m - 1)
    BY <2>1
  <2>6. ASSUME NEW n \in 0..m
        PROVE  g[n] = IF n = 0 THEN {NewReader} ELSE Grown(g[n - 1])
    <3>1. CASE n = m
      BY <2>1, <2>4, <2>5, <3>1
    <3>2. CASE n # m
      <4>1. n \in 0..(m - 1) /\ (n # 0 => n - 1 \in 0..(m - 1))
        BY <2>1, <3>2
      <4>2. g[n] = f[n] /\ (n # 0 => g[n - 1] = f[n - 1])
        BY <2>4, <4>1
      <4> HIDE DEF g
      <4> QED BY <2>3, <4>1, <4>2
    <3> QED BY <3>1, <3>2
  <2>7. g = [n \in 0..m |-> IF n = 0 THEN {NewReader} ELSE Grown(g[n - 1])]
    <3>1. g = [n \in 0..m |-> g[n]]
      OBVIOUS
    <3> HIDE DEF g
    <3> QED BY <2>6, <3>1
  <2> HIDE DEF g
  <2>8. AgesUpTo(m, g)
    BY <2>7 DEF AgesUpTo, Grown
  <2> QED BY <2>1, <2>8
<1>4. \A m \in 0..AgeRounds : m \in P
  <2> HIDE DEF P
  <2> QED BY <1>1, <1>2, <1>3, OneByOne
<1> QED BY <1>4

LEMMA AgesUnfold ==
  \A n \in 0..AgeRounds :
    AgesAfter[n] = IF n = 0 THEN {NewReader}
                   ELSE AgesAfter[n - 1] \cup UNION {AgeSteps(p) : p \in AgesAfter[n - 1]}
<1>1. \E f : AgesUpTo(AgeRounds, f)
  BY AgesUpToExists, AgeAssumption DEF AgeAssumption
<1>2. AgesUpTo(AgeRounds, AgesAfter)
  BY <1>1 DEF AgesAfter, AgesUpTo
<1> QED BY <1>2 DEF AgesUpTo

-----------------------------------------------------------------------------
(* Every reader that a history leads to: the one instance that counts is   *)
(* the loaded park's; a cache holds the template and one place; and what   *)
(* was scanned a moment ago was scanned in this park.                      *)

ReaderOK(p) ==
  /\ p = [years |-> p.years, loaded |-> p.loaded, cached |-> p.cached,
          lastVal |-> p.lastVal, hot |-> p.hot]
  /\ p.years \in [{Template} \cup InstanceCells -> {NotThere} \cup (0..OldestPark)]
  /\ p.years[Template] = 0
  /\ p.loaded \in {Template} \cup InstanceCells
  /\ \A c \in InstanceCells : p.years[c] # NotThere <=> c = p.loaded
  /\ p.cached = {} \/ \E c \in InstanceCells : p.cached = {Template, c}
  /\ p.hot \in BOOLEAN
  /\ p.hot /\ p.loaded # Template => p.loaded \in p.cached

\* The largest of the template's years and a park's are the park's.
LEMMA LargestIs ==
  ASSUME NEW p, ReaderOK(p), NEW S, p.loaded # Template, S = {Template, p.loaded}
  PROVE  MaxYears(p, S) = p.years[p.loaded]
<1>1. p.years[p.loaded] \in 0..OldestPark /\ p.years[Template] = 0
  BY DEF ReaderOK
<1>2. YearsAt(p, S) = {0, p.years[p.loaded]}
  BY <1>1 DEF YearsAt, NotThere
<1>3. p.years[p.loaded] \in Nat
  BY <1>1 DEF OldestPark
<1>4. Max({0, p.years[p.loaded]}) = p.years[p.loaded]
  BY <1>3 DEF Max
<1> QED BY <1>2, <1>4 DEF MaxYears

\* A cache that is not stale is the loaded park's; so is what a scan finds.
LEMMA CacheIsOwn ==
  ASSUME NEW p, ReaderOK(p), p.loaded # Template
  PROVE  /\ ~AgeStale(p) => p.cached = {Template, p.loaded}
         /\ p.hot => ~AgeStale(p)
         /\ Rescan(p).cached = {Template, p.loaded}
         /\ Rescan(p).lastVal = p.years[p.loaded]
<1>1. DOMAIN p.years = {Template} \cup InstanceCells /\ p.years[Template] # NotThere
  BY DEF ReaderOK, NotThere
<1>2. p.loaded \in InstanceCells /\ p.years[p.loaded] # NotThere
  BY DEF ReaderOK
<1>3. ~AgeStale(p) => p.cached = {Template, p.loaded}
  BY <1>2 DEF ReaderOK, AgeStale
<1>4. p.hot => ~AgeStale(p)
  <2> SUFFICES ASSUME p.hot PROVE ~AgeStale(p)
    OBVIOUS
  <2>1. p.loaded \in p.cached
    BY DEF ReaderOK
  <2>2. p.cached = {Template, p.loaded}
    BY <1>2, <2>1 DEF ReaderOK, Template, InstanceCells
  <2> QED BY <1>1, <1>2, <2>2 DEF AgeStale
<1> DEFINE found == {c \in DOMAIN p.years : p.years[c] # NotThere}
<1>5. found = {Template, p.loaded}
  BY <1>1, <1>2 DEF ReaderOK
<1>6. Rescan(p).cached = found /\ Rescan(p).lastVal = MaxYears(p, found)
  <2> HIDE DEF found
  <2>1. p = [years |-> p.years, loaded |-> p.loaded, cached |-> p.cached,
             lastVal |-> p.lastVal, hot |-> p.hot]
    BY DEF ReaderOK
  <2>2. Rescan(p) = [p EXCEPT !.cached = found, !.lastVal = MaxYears(p, found), !.hot = TRUE]
    BY DEF Rescan, found
  <2> QED BY <2>1, <2>2
<1> QED BY <1>3, <1>4, <1>5, <1>6, LargestIs

\* Each event of the game and of the reader keeps it.
LEMMA ReaderKept ==
  ASSUME AgeRaces = {}, NEW p, ReaderOK(p), NEW q \in AgeSteps(p)
  PROVE  ReaderOK(q)
<1> DEFINE R(y, l, c, v, h) == [years |-> y, loaded |-> l, cached |-> c, lastVal |-> v, hot |-> h]
<1>p. p = R(p.years, p.loaded, p.cached, p.lastVal, p.hot)
  BY DEF ReaderOK
<1>0. NotThere = -1 /\ Template = 0 /\ InstanceCells = {1, 2} /\ OldestPark = 2
  BY DEF NotThere, Template, InstanceCells, OldestPark
<1>1. CASE q \in AgeLoads(p)
  <2>1. /\ p.loaded = Template /\ ~p.hot
        /\ \E c \in InstanceCells, y \in 0..OldestPark :
             q = [p EXCEPT !.years[c] = y, !.loaded = c]
    <3> DEFINE Entered(c, y) == [p EXCEPT !.years[c] = y, !.loaded = c]
               entered == {Entered(c, y) : c \in InstanceCells, y \in 0..OldestPark}
               barred == p.loaded # Template \/ (p.hot /\ "swift" \notin AgeRaces)
    <3>1. AgeLoads(p) = IF barred THEN {} ELSE entered
      BY DEF AgeLoads
    <3> HIDE DEF Entered
    <3>2. q \in entered => \E c \in InstanceCells, y \in 0..OldestPark : q = Entered(c, y)
      OBVIOUS
    <3> HIDE DEF entered
    <3>3. ~barred => p.loaded = Template /\ ~p.hot
      BY DEF ReaderOK
    <3> HIDE DEF barred
    <3>4. ~barred /\ q \in entered
      BY <1>1, <3>1
    <3> QED BY <3>2, <3>3, <3>4 DEF Entered
  <2>2. PICK c \in InstanceCells, y \in 0..OldestPark :
          q = [p EXCEPT !.years[c] = y, !.loaded = c]
    BY <2>1
  <2>3. q = R([p.years EXCEPT ![c] = y], c, p.cached, p.lastVal, p.hot)
    BY <1>p, <2>2
  <2> DEFINE yrs == [p.years EXCEPT ![c] = y]
  <2>4. /\ yrs \in [{Template} \cup InstanceCells -> {NotThere} \cup (0..OldestPark)]
        /\ yrs[Template] = 0
        /\ \A d \in InstanceCells : yrs[d] # NotThere <=> d = c
    BY <1>0, <2>1 DEF ReaderOK
  <2> HIDE DEF yrs
  <2>5. /\ q.years = yrs /\ q.loaded = c /\ q.cached = p.cached
        /\ q.lastVal = p.lastVal /\ q.hot = p.hot /\ q = R(yrs, c, p.cached, p.lastVal, p.hot)
    BY <2>3 DEF yrs
  <2> QED BY <2>1, <2>4, <2>5 DEF ReaderOK
<1>2. CASE q \in AgeUnloads(p)
  <2>1. p.loaded # Template /\ q = [p EXCEPT !.loaded = Template, !.years[p.loaded] = NotThere]
    BY <1>2 DEF AgeUnloads
  <2>2. q = R([p.years EXCEPT ![p.loaded] = NotThere], Template, p.cached, p.lastVal, p.hot)
    BY <1>p, <2>1
  <2> DEFINE yrs == [p.years EXCEPT ![p.loaded] = NotThere]
  <2>4. /\ yrs \in [{Template} \cup InstanceCells -> {NotThere} \cup (0..OldestPark)]
        /\ yrs[Template] = 0
        /\ \A d \in InstanceCells : yrs[d] # NotThere <=> d = Template
    BY <1>0, <2>1 DEF ReaderOK
  <2> HIDE DEF yrs
  <2>5. /\ q.years = yrs /\ q.loaded = Template /\ q.cached = p.cached
        /\ q.lastVal = p.lastVal /\ q.hot = p.hot
        /\ q = R(yrs, Template, p.cached, p.lastVal, p.hot)
    BY <2>2 DEF yrs
  <2> QED BY <2>4, <2>5 DEF ReaderOK
<1>3. CASE q \in YearEnded(p)
  <2>1. /\ p.loaded # Template /\ p.years[p.loaded] # OldestPark
        /\ q = [p EXCEPT !.years[p.loaded] = @ + 1]
    BY <1>3 DEF YearEnded
  <2>2. q = R([p.years EXCEPT ![p.loaded] = @ + 1], p.loaded, p.cached, p.lastVal, p.hot)
    BY <1>p, <2>1
  <2>3. p.years[p.loaded] + 1 \in 0..OldestPark /\ p.loaded \in InstanceCells
    BY <1>0, <2>1 DEF ReaderOK
  <2> QED BY <1>0, <2>1, <2>2, <2>3 DEF ReaderOK
<1>4. CASE q \in CooledDown(p)
  <2>1. q = R(p.years, p.loaded, p.cached, p.lastVal, FALSE)
    BY <1>4, <1>p DEF CooledDown
  <2> QED BY <2>1 DEF ReaderOK
<1>5. CASE q \in AgeReads(p)
  <2>1. p.loaded # Template /\ q = ReadYears(p).reader
    BY <1>5 DEF AgeReads
  <2>2. q = p \/ q = Rescan(p)
    BY <2>1 DEF ReadYears
  <2>3. CASE q = Rescan(p)
    <3> DEFINE found == {c \in DOMAIN p.years : p.years[c] # NotThere}
    <3>1. q = [p EXCEPT !.cached = found, !.lastVal = MaxYears(p, found), !.hot = TRUE]
      BY <2>3 DEF Rescan
    <3> HIDE DEF found
    <3>2. q = R(p.years, p.loaded, found, MaxYears(p, found), TRUE)
      BY <1>p, <3>1
    <3>3. q.cached = {Template, p.loaded}
      BY <2>1, <2>3, CacheIsOwn
    <3>4. p.loaded \in InstanceCells
      BY <2>1 DEF ReaderOK
    <3> QED BY <3>2, <3>3, <3>4 DEF ReaderOK
  <2> QED BY <2>2, <2>3
<1> QED BY <1>1, <1>2, <1>3, <1>4, <1>5 DEF AgeSteps

LEMMA ReadersOK ==
  ASSUME AgeRaces = {}
  PROVE  \A n \in 0..AgeRounds : \A p \in AgesAfter[n] : ReaderOK(p)
<1> DEFINE P == {n \in 0..AgeRounds : \A p \in AgesAfter[n] : ReaderOK(p)}
<1>1. AgeRounds \in Nat /\ 0 \in Nat
  BY AgeAssumption DEF AgeAssumption
<1>2. 0 \in P
  <2>1. AgesAfter[0] = {NewReader}
    <3>1. 0 \in 0..AgeRounds
      BY <1>1
    <3> QED BY <3>1, AgesUnfold
  <2>2. ReaderOK(NewReader)
    BY DEF ReaderOK, NewReader, Template, InstanceCells, NotThere, OldestPark
  <2> QED BY <1>1, <2>1, <2>2
<1>3. ASSUME NEW n \in (0 + 1)..AgeRounds, n - 1 \in P PROVE n \in P
  <2>1. n \in 0..AgeRounds /\ n # 0 /\ \A p \in AgesAfter[n - 1] : ReaderOK(p)
    BY <1>1, <1>3
  <2>2. AgesAfter[n] = AgesAfter[n - 1] \cup UNION {AgeSteps(p) : p \in AgesAfter[n - 1]}
    BY <2>1, AgesUnfold
  <2> QED BY <2>1, <2>2, ReaderKept
<1>4. \A n \in 0..AgeRounds : n \in P
  <2> HIDE DEF P
  <2> QED BY <1>1, <1>2, <1>3, OneByOne
<1> QED BY <1>4

LEMMA AgesFollow == ASSUME AgeRaces = {} PROVE AgeFollows
<1> SUFFICES ASSUME NEW p \in AgesAfter[AgeRounds], p.loaded # Template
             PROVE  /\ ReadYears(p).age = p.years[p.loaded]
                    /\ FreshAge(ReadYears(p).age) <=> p.years[p.loaded] = 0
  BY DEF AgeFollows
<1>1. ReaderOK(p)
  BY ReadersOK, AgeAssumption DEF AgeAssumption
<1>2. ReadYears(p).age = p.years[p.loaded]
  BY <1>1, CacheIsOwn, LargestIs DEF ReadYears
<1>3. p.years[p.loaded] \in 0..2
  BY <1>1 DEF ReaderOK, OldestPark
<1> QED BY <1>2, <1>3 DEF FreshAge, NotThere

\* Of the run's AgeKnown: when no instance outlives its park, none is read
\* while no park is loaded, and no park is loaded within the pause of a scan,
\* every tick reads the age of the park it is in, after any number of parks.
\* ParkAgeReader.read and is_fresh of zoodate.py.
THEOREM AgeIsKnown == ASSUME AgeRaces = {} PROVE Spec => []AgeKnown
<1>1. AgeKnown
  BY AgesFollow DEF AgeKnown, Applies
<1> QED BY <1>1, PTL
-----------------------------------------------------------------------------
(* The patched functions (BytePatches): worlds that events lead to         *)

\* What a window of code can hold, what a client remembers, and the worlds.
Windows == {NoCopy, Original} \cup {Patched(v) : v \in 0..MaxLevel}

PatchClients == [addrs : SUBSET Copies, orig : BOOLEAN, applied : Windows,
                 cooldown : 0..FindCooldown, first : BOOLEAN]
PatchWorlds  == [heap : [Copies -> Windows], here : 0..MaxCopies, torn : SUBSET Copies, count : Nat,
                 client : PatchClients]

\* Where all the copies that the client knows are there, the one that runs is
\* among them, and what was applied is in it unless a write to it failed.
Placed(w) ==
  /\ IF w.here \in Copies THEN w.here \in Intact(w) ELSE Intact(w) = {}
  /\ CacheValid(w) => w.here \in w.client.addrs
  /\ CacheValid(w) /\ w.client.applied # NoCopy =>
       w.heap[w.here] = w.client.applied \/ w.here \in w.torn
  /\ w.client.first => w.client.cooldown = 0

\* What is patched can be put back: the client knows it, and what was there.
Undoable(w) ==
  w.here \in Copies => w.heap[w.here] = Original \/ (CacheValid(w) /\ w.client.orig)

TierWorlds    == {w \in PatchWorlds : Placed(w)}
TerrainWorlds == {w \in TierWorlds : Undoable(w)}

\* No two contents of a window are the same.
LEMMA WindowsDiffer ==
  /\ NoCopy # Original
  /\ \A v \in Int : Patched(v) # NoCopy /\ Patched(v) # Original
<1>1. Len(NoCopy) = 0 /\ Len(Original) = 1 /\ \A v : Len(Patched(v)) = 2
  BY DEF NoCopy, Original, Patched
<1> QED BY <1>1

LEMMA PatchConstants ==
  /\ MaxCopies \in Nat /\ FindCooldown \in Nat /\ PatchRounds \in Nat
  /\ Copies = 1..MaxCopies /\ MaxLevel = 3
  /\ NoCopy \in Windows /\ Original \in Windows /\ \A v \in 0..3 : Patched(v) \in Windows
<1>1. MaxCopies \in Nat /\ FindCooldown \in Nat /\ PatchRounds \in Nat
  BY PatchesAssumption DEF PatchesAssumption
<1>2. Copies = 1..MaxCopies /\ MaxLevel = 3
  BY DEF Copies, MaxLevel
<1>3. NoCopy \in Windows /\ Original \in Windows /\ \A v \in 0..MaxLevel : Patched(v) \in Windows
  BY DEF Windows
<1> QED BY <1>1, <1>2, <1>3

LEMMA TierWorldIs ==
  ASSUME NEW w \in TierWorlds
  PROVE  /\ w \in PatchWorlds /\ w.client \in PatchClients
         /\ w.heap \in [Copies -> Windows] /\ w.here \in 0..MaxCopies /\ w.count \in Nat
         /\ w.torn \in SUBSET Copies
         /\ w.client.addrs \in SUBSET Copies /\ w.client.orig \in BOOLEAN
         /\ w.client.applied \in Windows /\ w.client.cooldown \in 0..FindCooldown
         /\ w.client.first \in BOOLEAN
         /\ Placed(w) /\ Intact(w) \in SUBSET Copies
         /\ CacheValid(w) => w.here \in Copies
<1>1. w \in PatchWorlds /\ Placed(w)
  BY DEF TierWorlds
<1>2. w.client \in PatchClients
  BY <1>1 DEF PatchWorlds
<1>3. Intact(w) \in SUBSET Copies
  BY DEF Intact
<1>4. w.client.addrs \in SUBSET Copies
  BY <1>2 DEF PatchClients
<1>5. CacheValid(w) => w.here \in Copies
  BY <1>1, <1>4 DEF Placed
<1> QED BY <1>1, <1>2, <1>3, <1>5 DEF PatchWorlds, PatchClients

\* What is there, and whether the cache is valid, depends on the heap and on the
\* copies known.
LEMMA SameCache ==
  ASSUME NEW w, NEW x, x.heap = w.heap
  PROVE  /\ Intact(x) = Intact(w)
         /\ x.client.addrs = w.client.addrs => (CacheValid(x) <=> CacheValid(w))
BY DEF Intact, CacheValid

LEMMA ClientSet ==
  ASSUME NEW w \in PatchWorlds, NEW c \in PatchClients, NEW v, v = [w EXCEPT !.client = c]
  PROVE  /\ v \in PatchWorlds /\ v.client = c
         /\ v.heap = w.heap /\ v.here = w.here /\ v.count = w.count /\ v.torn = w.torn
BY DEF PatchWorlds

\* A scan changes what the client knows, and where it succeeds the client
\* knows the copy that runs.
LEMMA LocatedIs ==
  ASSUME NEW w \in TierWorlds, NEW found \in SUBSET Intact(w), NEW l, l = EnsureLocated(w, found),
         w.here \in Copies /\ ~CacheValid(w) => w.here \in found
  PROVE  /\ l.w \in TierWorlds /\ l.ok \in BOOLEAN
         /\ l.w.heap = w.heap /\ l.w.here = w.here /\ l.w.count = w.count /\ l.w.torn = w.torn
         /\ l.ok => CacheValid(l.w)
         /\ l.w = w \/ ~CacheValid(w)
         /\ ~l.ok => /\ ~CacheValid(w) /\ ~l.w.client.first
                     /\ IF w.client.first THEN l.w.client.cooldown = 0
                        ELSE IF w.client.cooldown > 0
                             THEN l.w.client.cooldown = w.client.cooldown - 1
                        ELSE found = {}
<1> USE PatchConstants
<1> DEFINE k == w.client
<1>t. /\ w \in PatchWorlds /\ k \in PatchClients
      /\ w.heap \in [Copies -> Windows] /\ w.here \in 0..MaxCopies /\ w.count \in Nat
      /\ k.addrs \in SUBSET Copies /\ k.orig \in BOOLEAN
      /\ k.applied \in Windows /\ k.cooldown \in 0..FindCooldown /\ k.first \in BOOLEAN
      /\ Placed(w) /\ Intact(w) \in SUBSET Copies
  BY TierWorldIs
<1>2. CASE CacheValid(w)
  BY <1>2 DEF EnsureLocated
<1>3. CASE ~CacheValid(w) /\ k.first
  <2> DEFINE c == [k EXCEPT !.first = FALSE]
  <2>1. l = [w |-> [w EXCEPT !.client = c], ok |-> FALSE]
    BY <1>3 DEF EnsureLocated
  <2>2. /\ c \in PatchClients
        /\ c.addrs = k.addrs /\ c.applied = k.applied /\ c.cooldown = k.cooldown /\ c.first = FALSE
    BY <1>t DEF PatchClients
  <2> HIDE DEF c
  <2>3. /\ l.w \in PatchWorlds /\ l.w.client = c /\ l.w.torn = w.torn
        /\ l.w.heap = w.heap /\ l.w.here = w.here /\ l.w.count = w.count
    BY <2>1, <2>2, <1>t, ClientSet
  <2>4. Intact(l.w) = Intact(w) /\ ~CacheValid(l.w)
    BY <1>3, <2>2, <2>3, SameCache
  <2>5. Placed(l.w)
    BY <2>2, <2>3, <2>4, <1>t DEF Placed
  <2>6. k.cooldown = 0
    BY <1>3, <1>t DEF Placed
  <2>7. l.w \in TierWorlds
    BY <2>3, <2>5 DEF TierWorlds
  <2> QED BY <1>3, <2>1, <2>2, <2>3, <2>6, <2>7
<1>4. CASE ~CacheValid(w) /\ ~k.first /\ k.cooldown > 0
  <2> DEFINE c == [k EXCEPT !.cooldown = @ - 1]
  <2>1. l = [w |-> [w EXCEPT !.client = c], ok |-> FALSE]
    BY <1>4 DEF EnsureLocated
  <2>2. /\ c \in PatchClients
        /\ c.addrs = k.addrs /\ c.applied = k.applied /\ c.first = k.first
        /\ c.cooldown = k.cooldown - 1
    BY <1>4, <1>t DEF PatchClients
  <2> HIDE DEF c
  <2>3. /\ l.w \in PatchWorlds /\ l.w.client = c /\ l.w.torn = w.torn
        /\ l.w.heap = w.heap /\ l.w.here = w.here /\ l.w.count = w.count
    BY <2>1, <2>2, <1>t, ClientSet
  <2>4. Intact(l.w) = Intact(w) /\ ~CacheValid(l.w)
    BY <1>4, <2>2, <2>3, SameCache
  <2>5. Placed(l.w)
    BY <1>4, <2>2, <2>3, <2>4, <1>t DEF Placed
  <2>7. l.w \in TierWorlds
    BY <2>3, <2>5 DEF TierWorlds
  <2> QED BY <1>4, <2>1, <2>2, <2>3, <2>7
<1>5. CASE ~CacheValid(w) /\ ~k.first /\ ~(k.cooldown > 0)
  <2> DEFINE c == [addrs |-> found, orig |-> FALSE, applied |-> NoCopy, first |-> FALSE,
                   cooldown |-> IF found = {} THEN FindCooldown ELSE 0]
  <2>1. l = [w |-> [w EXCEPT !.client = c], ok |-> found # {}]
    BY <1>5 DEF EnsureLocated
  <2>2. found \in SUBSET Copies
    BY <1>t
  <2>4. c \in PatchClients
    BY <2>2 DEF PatchClients
  <2>5. c.addrs = found /\ c.applied = NoCopy /\ ~c.first
    OBVIOUS
  <2> HIDE DEF c
  <2>6. /\ l.w \in PatchWorlds /\ l.w.client = c /\ l.ok = (found # {}) /\ l.w.torn = w.torn
        /\ l.w.heap = w.heap /\ l.w.here = w.here /\ l.w.count = w.count
    BY <2>1, <2>4, <1>t, ClientSet
  <2>7. Intact(l.w) = Intact(w) /\ (found # {} => CacheValid(l.w))
    <3>1. Intact(l.w) = Intact(w)
      BY <2>6, SameCache
    <3> QED BY <2>5, <2>6, <3>1 DEF CacheValid
  <2>8. found # {} => w.here \in found
    BY <1>5, <1>t DEF Placed
  <2>9. Placed(l.w)
    <3>1. CacheValid(l.w) => l.w.here \in l.w.client.addrs
      BY <2>5, <2>6, <2>8 DEF CacheValid
    <3> QED BY <2>5, <2>6, <2>7, <3>1, <1>t DEF Placed
  <2>10. l.w \in TierWorlds
    BY <2>6, <2>9 DEF TierWorlds
  <2>11. l.ok \in BOOLEAN
    BY <2>6
  <2>14. l.ok <=> found # {}
    BY <2>6
  <2>12. ~(k.cooldown > 0) /\ ~k.first /\ ~l.w.client.first
    BY <1>5, <2>5, <2>6
  <2> HIDE DEF k
  <2>13. ~l.w.client.first /\ ~CacheValid(w)
    BY <1>5, <2>12
  <2>15. ~l.ok => found = {}
    BY <2>14
  <2>16. l.ok => CacheValid(l.w)
    BY <2>7, <2>14
  <2>17. ~w.client.first /\ ~(w.client.cooldown > 0)
    BY <2>12 DEF k
  <2>18. l.w.heap = w.heap /\ l.w.here = w.here /\ l.w.count = w.count /\ l.w.torn = w.torn
    BY <2>6
  <2>19. l.ok => CacheValid(l.w)
    BY <2>13, <2>16
  <2>20. ~l.ok => IF w.client.first THEN l.w.client.cooldown = 0
                  ELSE IF w.client.cooldown > 0 THEN l.w.client.cooldown = w.client.cooldown - 1
                  ELSE found = {}
    BY <2>15, <2>17
  <2> QED BY <2>10, <2>11, <2>13, <2>18, <2>19, <2>20
<1> QED BY <1>2, <1>3, <1>4, <1>5

\* The client writes all copies that it knows, when those are there, and
\* remembers c.
Put(w, value, lost, c) == [WriteAll(w, value, lost) EXCEPT !.client = c]

LEMMA WriteAllIs ==
  ASSUME NEW w \in TierWorlds, CacheValid(w), NEW value \in Windows, value # NoCopy, NEW lost,
         NEW c \in PatchClients, NEW x, x = Put(w, value, lost, c),
         \/ c.addrs = w.client.addrs /\ c.applied = value /\ (c.first => c.cooldown = 0)
         \/ c.addrs = {} /\ c.cooldown = 0
  PROVE  /\ x \in TierWorlds /\ x.client = c /\ x.here = w.here /\ x.count = w.count
         /\ Intact(x) = Intact(w)
         /\ lost = {} => x.heap[x.here] = value
<1> USE PatchConstants
<1>1. /\ w \in PatchWorlds /\ w.heap \in [Copies -> Windows] /\ Placed(w) /\ w.torn \in SUBSET Copies
      /\ w.here \in w.client.addrs /\ w.client.addrs \subseteq Intact(w)
      /\ w.client.addrs \in SUBSET Copies /\ w.here \in Copies
  BY TierWorldIs DEF Placed, CacheValid
<1> DEFINE h == [a \in Copies |-> IF a \in w.client.addrs \ lost THEN value ELSE w.heap[a]]
           t == (w.torn \ w.client.addrs) \cup (w.client.addrs \cap lost)
<1>2. h \in [Copies -> Windows] /\ (w.here \notin lost => h[w.here] = value)
  BY <1>1
<1>3. \A a \in Copies : h[a] # NoCopy <=> w.heap[a] # NoCopy
  BY <1>1 DEF Intact
<1>4. WriteAll(w, value, lost) = [w EXCEPT !.heap = h, !.torn = t]
  BY DEF WriteAll
<1>5. t \in SUBSET Copies /\ (w.here \in lost => w.here \in t)
  BY <1>1
<1> HIDE DEF h, t
<1>6. /\ x \in PatchWorlds /\ x.client = c /\ x.heap = h /\ x.torn = t
      /\ x.here = w.here /\ x.count = w.count
  BY <1>1, <1>2, <1>4, <1>5 DEF PatchWorlds, Put
<1>7. Intact(x) = Intact(w)
  BY <1>3, <1>6 DEF Intact
<1>8. Placed(x)
  <2>1. CacheValid(x) => x.client.addrs = w.client.addrs /\ x.client.applied = value
    BY <1>6 DEF CacheValid
  <2>2. x.client.first => x.client.cooldown = 0
    BY <1>6
  <2> QED BY <1>1, <1>2, <1>5, <1>6, <1>7, <2>1, <2>2 DEF Placed
<1> QED BY <1>2, <1>6, <1>7, <1>8 DEF TierWorlds

\* The client knows the copy that runs, and counts v as applied.
InPlace(x, v) == CacheValid(x) /\ x.client.applied = v

\* From w to x the copy that runs was patched to v, or the client came closer
\* to finding it.
Ticked(w, x, v) ==
  /\ x.here = w.here /\ x.count = w.count
  /\ w.here \in Copies =>
       \/ InPlace(x, v)
       \/ /\ ~CacheValid(w) /\ ~x.client.first
          /\ IF w.client.first THEN x.client.cooldown = 0
             ELSE w.client.cooldown > 0 /\ x.client.cooldown = w.client.cooldown - 1

\* A tick of either gate keeps its worlds, and does its part where its writes
\* are made.
LEMMA TierTick ==
  ASSUME NEW w \in TierWorlds, NEW lost, NEW x, x = ReconcileTiers(w, lost)
  PROVE  x \in TierWorlds /\ Ticked(w, x, Patched(Tier(w.count)))
<1> USE PatchConstants
<1> DEFINE found == FindTiers(w)
           l == EnsureLocated(w, found)
           y == l.w
           v == Patched(Tier(w.count))
           c == [y.client EXCEPT !.applied = v]
<1>1. /\ w \in PatchWorlds /\ w.client \in PatchClients /\ w.count \in Nat /\ Placed(w)
      /\ Intact(w) \in SUBSET Copies
  BY TierWorldIs
<1>2. found \in SUBSET Intact(w) /\ (w.here \in Copies => w.here \in found)
  BY <1>1 DEF FindTiers, Placed
<1>3. /\ y \in TierWorlds /\ l.ok \in BOOLEAN
      /\ y.heap = w.heap /\ y.here = w.here /\ y.count = w.count
      /\ l.ok => CacheValid(y)
      /\ ~l.ok => /\ ~CacheValid(w) /\ ~y.client.first
                  /\ IF w.client.first THEN y.client.cooldown = 0
                     ELSE IF w.client.cooldown > 0 THEN y.client.cooldown = w.client.cooldown - 1
                     ELSE found = {}
  BY <1>2, LocatedIs
<1> HIDE DEF found
<1>4. x = IF ~l.ok \/ y.client.applied = v THEN y
          ELSE [WriteAll(y, v, lost) EXCEPT !.client.applied = v]
  <2>1. y.count = w.count
    BY <1>3
  <2> QED BY <2>1 DEF ReconcileTiers, found
<1>5. v \in Windows /\ v # NoCopy
  <2>1. Tier(w.count) \in 0..3
    BY <1>1 DEF Tier
  <2> QED BY <2>1, WindowsDiffer
<1> HIDE DEF l, y, v
<1>6. CASE ~l.ok
  BY <1>2, <1>3, <1>4, <1>6 DEF Ticked, v
<1>7. CASE l.ok /\ y.client.applied = v
  BY <1>3, <1>4, <1>7 DEF Ticked, InPlace, v
<1>8. CASE l.ok /\ y.client.applied # v
  <2>1. y \in PatchWorlds /\ y.client \in PatchClients /\ Placed(y)
    BY <1>3, TierWorldIs
  <2>2. /\ c \in PatchClients /\ c.addrs = y.client.addrs /\ c.applied = v
        /\ c.first = y.client.first /\ c.cooldown = y.client.cooldown
    BY <1>5, <2>1 DEF PatchClients
  <2>3. WriteAll(y, v, lost).client = y.client
    BY <2>1 DEF WriteAll, PatchWorlds
  <2>4. x = Put(y, v, lost, c)
    BY <1>4, <1>8, <2>3 DEF Put
  <2> HIDE DEF c
  <2>5. c.first => c.cooldown = 0
    BY <2>1, <2>2 DEF Placed
  <2>6. x \in TierWorlds /\ x.client = c /\ x.here = y.here /\ x.count = y.count /\ Intact(x) = Intact(y)
    BY <1>3, <1>5, <1>8, <2>2, <2>4, <2>5, WriteAllIs
  <2>7. InPlace(x, v)
    BY <1>3, <1>8, <2>2, <2>6 DEF InPlace, CacheValid
  <2> QED BY <1>3, <2>6, <2>7 DEF Ticked, v
<1> QED BY <1>3, <1>6, <1>7, <1>8

LEMMA TerrainTick ==
  ASSUME NEW w \in TerrainWorlds, NEW lost, NEW x, x = ReconcileTerrain(w, lost)
  PROVE  x \in TerrainWorlds /\ Ticked(w, x, Patched(Greyed(w)))
<1> USE PatchConstants
<1> DEFINE found == FindTerrain(w)
           l == EnsureLocated(w, found)
           y == l.w
           v == Patched(Greyed(w))
           c == [y.client EXCEPT !.orig = TRUE, !.applied = v]
<1>1. /\ w \in TierWorlds /\ w \in PatchWorlds /\ w.client \in PatchClients /\ w.count \in Nat
      /\ Placed(w) /\ Undoable(w) /\ Intact(w) \in SUBSET Copies
  BY TierWorldIs DEF TerrainWorlds
<1>2. /\ found \in SUBSET Intact(w)
      /\ w.here \in Copies /\ ~CacheValid(w) => w.here \in found
  <2>1. found \subseteq Intact(w)
    BY WindowsDiffer DEF FindTerrain, Intact
  <2> QED BY <1>1, <2>1 DEF Undoable, FindTerrain
<1>3. /\ y \in TierWorlds /\ l.ok \in BOOLEAN
      /\ y.heap = w.heap /\ y.here = w.here /\ y.count = w.count
      /\ l.ok => CacheValid(y)
      /\ y = w \/ ~CacheValid(w)
      /\ ~l.ok => /\ ~CacheValid(w) /\ ~y.client.first
                  /\ IF w.client.first THEN y.client.cooldown = 0
                     ELSE IF w.client.cooldown > 0 THEN y.client.cooldown = w.client.cooldown - 1
                     ELSE found = {}
  BY <1>1, <1>2, LocatedIs
<1> HIDE DEF found
<1>4. x = IF ~l.ok \/ y.client.applied = v THEN y
          ELSE [WriteAll(y, v, lost) EXCEPT !.client.orig = TRUE, !.client.applied = v]
  BY DEF ReconcileTerrain, found
<1>5. v \in Windows /\ v # NoCopy
  <2>1. Greyed(w) \in 0..3
    BY DEF Greyed
  <2> QED BY <2>1, WindowsDiffer
<1> HIDE DEF l, y, v
<1>6. Undoable(y)
  BY <1>1, <1>3 DEF Undoable
<1>7. CASE ~l.ok
  BY <1>2, <1>3, <1>4, <1>6, <1>7 DEF Ticked, v, TerrainWorlds
<1>8. CASE l.ok /\ y.client.applied = v
  BY <1>3, <1>4, <1>6, <1>8 DEF Ticked, InPlace, v, TerrainWorlds
<1>9. CASE l.ok /\ y.client.applied # v
  <2>1. y \in PatchWorlds /\ y.client \in PatchClients /\ Placed(y)
    BY <1>3, TierWorldIs
  <2>2. /\ c \in PatchClients /\ c.addrs = y.client.addrs /\ c.applied = v
        /\ c.first = y.client.first /\ c.cooldown = y.client.cooldown /\ c.orig
    BY <1>5, <2>1 DEF PatchClients
  <2>3. WriteAll(y, v, lost).client = y.client
    BY <2>1 DEF WriteAll, PatchWorlds
  <2>4. x = Put(y, v, lost, c)
    BY <1>4, <1>9, <2>3 DEF Put
  <2> HIDE DEF c
  <2>5. c.first => c.cooldown = 0
    BY <2>1, <2>2 DEF Placed
  <2>6. x \in TierWorlds /\ x.client = c /\ x.here = y.here /\ x.count = y.count /\ Intact(x) = Intact(y)
    BY <1>3, <1>5, <1>9, <2>2, <2>4, <2>5, WriteAllIs
  <2>7. InPlace(x, v)
    BY <1>3, <1>9, <2>2, <2>6 DEF InPlace, CacheValid
  <2>8. Undoable(x)
    BY <2>2, <2>6, <2>7 DEF InPlace, Undoable
  <2> QED BY <1>3, <2>6, <2>7, <2>8 DEF Ticked, v, TerrainWorlds
<1> QED BY <1>3, <1>7, <1>8, <1>9

\* What the other events do: a client that starts, a load, an item, an exit.
LEMMA CleanIs ==
  /\ Clean \in PatchClients /\ Clean.addrs = {} /\ Clean.applied = NoCopy
  /\ Clean.cooldown = 0
BY PatchConstants DEF Clean, PatchClients

\* A client that starts again finds the heap as it is.
LEMMA CleanStartIs ==
  ASSUME NEW w \in TierWorlds, NEW x, x = [w EXCEPT !.client = Clean]
  PROVE  x \in TierWorlds /\ x.heap = w.heap /\ x.here = w.here
<1>1. w \in PatchWorlds /\ Placed(w)
  BY TierWorldIs
<1>2. /\ x \in PatchWorlds /\ x.client = Clean /\ x.heap = w.heap /\ x.here = w.here
  BY <1>1, CleanIs, ClientSet
<1>3. Intact(x) = Intact(w) /\ ~CacheValid(x)
  BY <1>2, CleanIs, SameCache DEF CacheValid
<1>4. Placed(x)
  BY <1>1, <1>2, <1>3, CleanIs DEF Placed
<1> QED BY <1>2, <1>4 DEF TierWorlds

\* After a load the copies that the client knows are not all there.
LEMMA LoadIs ==
  ASSUME PatchRaces = {}, NEW w \in TierWorlds, NEW x \in Loads(w)
  PROVE  x \in TierWorlds /\ Undoable(x)
<1> USE PatchConstants
<1>0. PICK new \in SUBSET (Copies \ w.client.addrs) :
        \E to \in new, left \in SUBSET (Intact(w) \ {w.here}) : x = LoadCopy(w, new, to, left)
  BY DEF Loads
<1>1. PICK to \in new, left \in SUBSET (Intact(w) \ {w.here}) : x = LoadCopy(w, new, to, left)
  BY <1>0
<1>2. /\ w \in PatchWorlds /\ w.here \in 0..MaxCopies /\ Placed(w) /\ w.heap \in [Copies -> Windows]
      /\ w.torn \in SUBSET Copies
  BY TierWorldIs
<1> DEFINE h == [c \in Copies |-> IF c \in new THEN Original ELSE IF c \in left THEN w.heap[c] ELSE NoCopy]
           t == w.torn \cap (left \ new)
<1>3. h \in [Copies -> Windows] /\ t \in SUBSET Copies /\ to \in Copies /\ to \in 0..MaxCopies
  BY <1>2
<1>4. \A c \in Copies : h[c] = IF c \in new THEN Original ELSE IF c \in left THEN w.heap[c] ELSE NoCopy
  OBVIOUS
<1>5. x = [w EXCEPT !.heap = h, !.here = to, !.torn = t]
  BY <1>1 DEF LoadCopy
<1> HIDE DEF h, t
<1>6. x \in PatchWorlds /\ x.heap = h /\ x.here = to /\ x.client = w.client
  BY <1>2, <1>3, <1>5 DEF PatchWorlds
<1>7. to \in Intact(x) /\ Intact(x) \subseteq new \cup left
  BY <1>3, <1>4, <1>6, WindowsDiffer DEF Intact
<1>8. ~CacheValid(x)
  <2> SUFFICES ASSUME CacheValid(x) PROVE FALSE
    OBVIOUS
  <2>1. w.client.addrs # {} /\ w.client.addrs \subseteq left
    BY <1>6, <1>7, TierWorldIs DEF CacheValid
  <2>2. CacheValid(w) /\ w.here \notin w.client.addrs
    BY <2>1 DEF CacheValid
  <2> QED BY <1>2, <2>2 DEF Placed
<1>9. Placed(x)
  BY <1>2, <1>3, <1>6, <1>7, <1>8 DEF Placed
<1>10. Undoable(x)
  BY <1>3, <1>4, <1>6 DEF Undoable
<1> QED BY <1>6, <1>9, <1>10 DEF TierWorlds

LEMMA ItemIs ==
  ASSUME NEW w \in TierWorlds, NEW x, x = [w EXCEPT !.count = @ + 1]
  PROVE  x \in TierWorlds /\ (Undoable(w) => Undoable(x))
<1>1. w \in PatchWorlds /\ Placed(w) /\ w.count \in Nat
  BY TierWorldIs
<1>2. x \in PatchWorlds /\ x.heap = w.heap /\ x.here = w.here /\ x.client = w.client /\ x.torn = w.torn
  BY <1>1 DEF PatchWorlds
<1>3. Intact(x) = Intact(w) /\ (CacheValid(x) <=> CacheValid(w))
  BY <1>2, SameCache
<1>4. Placed(x) /\ (Undoable(w) => Undoable(x))
  BY <1>1, <1>2, <1>3 DEF Placed, Undoable
<1> QED BY <1>2, <1>4 DEF TierWorlds

\* A copy that goes away is not the one that runs.
LEMMA FreedIs ==
  ASSUME NEW w \in TierWorlds, NEW c \in Intact(w) \ {w.here}
  PROVE  Freed(w, c) \in TierWorlds
<1> USE PatchConstants
<1> DEFINE h == [w.heap EXCEPT ![c] = NoCopy]
           x == Freed(w, c)
<1>1. /\ w \in PatchWorlds /\ Placed(w) /\ w.heap \in [Copies -> Windows] /\ w.torn \in SUBSET Copies
      /\ c \in Copies
  BY TierWorldIs
<1>2. h \in [Copies -> Windows] /\ \A a \in Copies : h[a] = IF a = c THEN NoCopy ELSE w.heap[a]
  BY <1>1
<1>3. x = [w EXCEPT !.heap = h, !.torn = w.torn \ {c}]
  BY <1>1 DEF Freed, PatchWorlds
<1> HIDE DEF h, x
<1>4. x \in PatchWorlds /\ x.heap = h /\ x.here = w.here /\ x.client = w.client /\ x.torn = w.torn \ {c}
  BY <1>1, <1>2, <1>3 DEF PatchWorlds
<1>5. Intact(x) = Intact(w) \ {c}
  BY <1>1, <1>2, <1>4 DEF Intact
<1>6. CacheValid(x) => CacheValid(w)
  BY <1>4, <1>5 DEF CacheValid
<1>7. w.here \in Copies => x.heap[w.here] = w.heap[w.here]
  BY <1>2, <1>4
<1>8. Placed(x)
  BY <1>1, <1>4, <1>5, <1>6, <1>7, TierWorldIs DEF Placed
<1> QED BY <1>4, <1>8 DEF TierWorlds, x

\* A copy that the client has patched is put back by its shutdown.
LEMMA TierExit ==
  ASSUME NEW w \in TierWorlds, NEW lost
  PROVE  /\ [ShutdownTiers(w, lost) EXCEPT !.client = Clean] \in TierWorlds
         /\ CacheValid(w) /\ lost = {} => ShutdownTiers(w, lost).heap[w.here] = Original
<1> USE PatchConstants
<1> DEFINE x == [ShutdownTiers(w, lost) EXCEPT !.client = Clean]
<1>1. w \in PatchWorlds /\ w.heap \in [Copies -> Windows]
  BY TierWorldIs
<1>2. CASE CacheValid(w)
  <2>1. x = Put(w, Original, lost, Clean) /\ ShutdownTiers(w, lost).heap = x.heap
    BY <1>1, <1>2 DEF ShutdownTiers, Put, WriteAll, PatchWorlds
  <2> HIDE DEF x
  <2>2. x \in TierWorlds /\ x.here = w.here /\ (lost = {} => x.heap[x.here] = Original)
    BY <1>2, <2>1, CleanIs, WindowsDiffer, WriteAllIs
  <2> QED BY <2>1, <2>2 DEF x
<1>3. CASE ~CacheValid(w)
  <2>1. x = [w EXCEPT !.client = Clean]
    BY <1>1, <1>3 DEF ShutdownTiers, PatchWorlds
  <2> QED BY <1>3, <2>1, CleanStartIs
<1> QED BY <1>2, <1>3

LEMMA TerrainExit ==
  ASSUME NEW w \in TerrainWorlds
  PROVE  /\ [ShutdownTerrain(w, {}) EXCEPT !.client = Clean] \in TerrainWorlds
         /\ w.here \in Copies => ShutdownTerrain(w, {}).heap[w.here] = Original
<1> USE PatchConstants
<1> DEFINE x == [ShutdownTerrain(w, {}) EXCEPT !.client = Clean]
<1>1. /\ w \in TierWorlds /\ w \in PatchWorlds /\ w.heap \in [Copies -> Windows] /\ Undoable(w)
  BY TierWorldIs DEF TerrainWorlds
<1>2. CASE CacheValid(w) /\ w.client.orig
  <2>1. x = Put(w, Original, {}, Clean) /\ ShutdownTerrain(w, {}).heap = x.heap
    BY <1>1, <1>2 DEF ShutdownTerrain, Put, WriteAll, PatchWorlds
  <2> HIDE DEF x
  <2>2. x \in TierWorlds /\ x.here = w.here /\ x.heap[x.here] = Original
    BY <1>1, <1>2, <2>1, CleanIs, WindowsDiffer, WriteAllIs
  <2>3. Undoable(x)
    BY <2>2 DEF Undoable
  <2> QED BY <2>1, <2>2, <2>3 DEF TerrainWorlds, x
<1>3. CASE ~(CacheValid(w) /\ w.client.orig)
  <2>1. x = [w EXCEPT !.client = Clean] /\ ShutdownTerrain(w, {}).heap = w.heap
    BY <1>1, <1>3 DEF ShutdownTerrain, PatchWorlds
  <2> HIDE DEF x
  <2>2. w.here \in Copies => w.heap[w.here] = Original
    BY <1>1, <1>3 DEF Undoable
  <2>3. x \in TierWorlds /\ x.heap = w.heap /\ x.here = w.here
    BY <1>1, <2>1, CleanStartIs
  <2>4. Undoable(x)
    BY <2>2, <2>3 DEF Undoable
  <2> QED BY <2>1, <2>2, <2>3, <2>4 DEF TerrainWorlds, x
<1> QED BY <1>2, <1>3

\* Every event leads from a world to a world.
LEMMA TierEvent ==
  ASSUME PatchRaces = {}, NEW w \in TierWorlds, NEW x \in TierSteps(w)
  PROVE  x \in TierWorlds
<1>1. CASE \E lost \in SUBSET Copies : x = ReconcileTiers(w, lost)
  BY <1>1, TierTick
<1>2. CASE \E lost \in SUBSET Copies : x = [ShutdownTiers(w, lost) EXCEPT !.client = Clean]
  BY <1>2, TierExit
<1>3. CASE x = [w EXCEPT !.count = @ + 1]
  BY <1>3, ItemIs
<1>4. CASE x \in Loads(w)
  BY <1>4, LoadIs
<1>5. CASE x = Killed(w)
  BY <1>5, CleanStartIs DEF Killed
<1>6. CASE \E c \in Intact(w) \ {w.here} : x = Freed(w, c)
  BY <1>6, FreedIs
<1>7. \/ \E lost \in SUBSET Copies : x = ReconcileTiers(w, lost)
      \/ \E lost \in SUBSET Copies : x = [ShutdownTiers(w, lost) EXCEPT !.client = Clean]
      \/ x = [w EXCEPT !.count = @ + 1]
      \/ x \in Loads(w)
      \/ x = Killed(w)
      \/ \E c \in Intact(w) \ {w.here} : x = Freed(w, c)
  BY DEF TierSteps, PatchSteps
<1> QED BY <1>1, <1>2, <1>3, <1>4, <1>5, <1>6, <1>7

LEMMA TerrainEvent ==
  ASSUME PatchRaces = {}, NEW w \in TerrainWorlds, NEW x \in TerrainSteps(w)
  PROVE  x \in TerrainWorlds
<1>w. w \in TierWorlds /\ Undoable(w)
  BY DEF TerrainWorlds
<1>1. CASE \E lost \in SUBSET Copies : x = ReconcileTerrain(w, lost)
  BY <1>1, TerrainTick
<1>2. CASE x = [ShutdownTerrain(w, {}) EXCEPT !.client = Clean]
  BY <1>2, TerrainExit
<1>3. CASE x = [w EXCEPT !.count = @ + 1]
  BY <1>w, <1>3, ItemIs DEF TerrainWorlds
<1>4. CASE x \in Loads(w)
  BY <1>w, <1>4, LoadIs DEF TerrainWorlds
<1>5. \/ \E lost \in SUBSET Copies : x = ReconcileTerrain(w, lost)
      \/ x = [ShutdownTerrain(w, {}) EXCEPT !.client = Clean]
      \/ x = [w EXCEPT !.count = @ + 1]
      \/ x \in Loads(w)
  BY DEF TerrainSteps, PatchSteps
<1> QED BY <1>1, <1>2, <1>3, <1>4, <1>5

\* As many ticks as a deferred first scan and a pause need, and what runs is
\* patched.
LEMMA TicksSettle ==
  ASSUME NEW h, NEW V, NEW N, N = FindCooldown + 3, \A n \in 0..N : h[n] \in TierWorlds,
         \A n \in 1..N : Ticked(h[n - 1], h[n], V[h[n - 1].count])
  PROVE  /\ h[N].here = h[0].here /\ h[N].count = h[0].count
         /\ h[0].here \in Copies => InPlace(h[N], V[h[0].count])
<1> USE PatchConstants
<1> DEFINE v == V[h[0].count]
           P == {n \in 0..N : /\ h[n].here = h[0].here /\ h[n].count = h[0].count
                              /\ h[0].here \in Copies =>
                                   \/ n = 0 \/ InPlace(h[n], v)
                                   \/ /\ ~h[n].client.first
                                      /\ h[n].client.cooldown <= FindCooldown + 1 - n}
<1>1. N \in Nat /\ 0 \in Nat /\ 0 \in 0..N /\ N \in 0..N /\ N # 0 /\ FindCooldown + 1 - N < 0
  OBVIOUS
<1>2. \A n \in 0..N : h[n].client.cooldown \in 0..FindCooldown
  BY TierWorldIs
<1>3. 0 \in P
  BY <1>1
<1>4. ASSUME NEW n \in (0 + 1)..N, n - 1 \in P PROVE n \in P
  <2>1. n \in 1..N /\ n \in 0..N /\ n - 1 \in 0..N
    BY <1>1
  <2>2. Ticked(h[n - 1], h[n], v)
    BY <1>4, <2>1
  <2> HIDE DEF v
  <2>3. h[n].here = h[0].here /\ h[n].count = h[0].count
    BY <1>4, <2>2 DEF Ticked
  <2>4. ASSUME h[0].here \in Copies, ~InPlace(h[n], v)
        PROVE  ~h[n].client.first /\ h[n].client.cooldown <= FindCooldown + 1 - n
    <3>1. /\ ~CacheValid(h[n - 1]) /\ ~h[n].client.first
          /\ IF h[n - 1].client.first THEN h[n].client.cooldown = 0
             ELSE /\ h[n - 1].client.cooldown > 0
                  /\ h[n].client.cooldown = h[n - 1].client.cooldown - 1
      BY <1>4, <2>2, <2>4 DEF Ticked
    <3>2. ~InPlace(h[n - 1], v)
      BY <3>1 DEF InPlace
    <3>3. CASE n - 1 = 0
      BY <1>2, <2>1, <3>1, <3>3
    <3>4. CASE n - 1 # 0
      <4>1. ~h[n - 1].client.first /\ h[n - 1].client.cooldown <= FindCooldown + 1 - (n - 1)
        BY <1>4, <2>4, <3>2, <3>4
      <4> QED BY <1>2, <2>1, <3>1, <4>1
    <3> QED BY <3>3, <3>4
  <2> QED BY <2>1, <2>3, <2>4
<1> HIDE DEF P
<1>5. \A n \in 0..N : n \in P
  BY <1>1, <1>3, <1>4, OneByOne
<1>6. N \in P
  BY <1>1, <1>5
<1>7. h[N].client.cooldown >= 0 /\ h[N].client.cooldown \in Int
  BY <1>1, <1>2
<1> QED BY <1>1, <1>6, <1>7 DEF P

\* So the ticks that follow a history settle, for either gate.
LEMMA TierSettle ==
  ASSUME NEW w \in TierWorlds
  PROVE  /\ Settled(w, ReconcileTiers) \in TierWorlds /\ Settled(w, ReconcileTiers).count = w.count
         /\ Settled(w, ReconcileTiers).here = w.here
         /\ w.here \in Copies => InPlace(Settled(w, ReconcileTiers), Patched(Tier(w.count)))
<1> USE PatchConstants
<1> DEFINE N == FindCooldown + 3
           F == [n \in 1..N |-> [x \in TierWorlds |-> ReconcileTiers(x, {})]]
           V == [n \in Nat |-> Patched(Tier(n))]
           Eq(h) == h = [n \in 0..(FindCooldown + 3) |-> IF n = 0 THEN w ELSE ReconcileTiers(h[n - 1], {})]
<1>1. N \in Nat /\ 0 \in Nat /\ 0 <= N /\ 0 + 1 = 1
  OBVIOUS
<1>2. ASSUME NEW x \in TierWorlds
      PROVE  x.count \in Nat /\ ReconcileTiers(x, {}) \in TierWorlds /\ Ticked(x, ReconcileTiers(x, {}), V[x.count])
  <2>1. x.count \in Nat
    BY TierWorldIs DEF TerrainWorlds
  <2>2. V[x.count] = Patched(Tier(x.count))
    BY <2>1 DEF Greyed
  <2> QED BY <2>1, <2>2, TierTick
<1> HIDE DEF N, V
<1>3. F \in [(0 + 1)..N -> [TierWorlds -> TierWorlds]]
  BY <1>1, <1>2
<1>4. PICK f \in [0..N -> TierWorlds] : RunOf(F, w, 0, N, f)
  <2> HIDE DEF F
  <2> QED BY <1>1, <1>3, RunExists
<1>5. /\ f[0] = w
      /\ \A n \in (0 + 1)..N : f[n] = F[n][f[n - 1]]
  BY <1>4, Zenon DEF RunOf
<1>6. ASSUME NEW n \in 1..N PROVE f[n] = ReconcileTiers(f[n - 1], {})
  <2>1. f[n - 1] \in TierWorlds
    BY <1>1, <1>4
  <2>2. F[n][f[n - 1]] = ReconcileTiers(f[n - 1], {})
    BY <2>1
  <2> QED BY <1>1, <1>5, <2>2
<1>7. Eq(f)
  <2>1. \A n \in 0..N : f[n] = IF n = 0 THEN w ELSE ReconcileTiers(f[n - 1], {})
    BY <1>1, <1>5, <1>6
  <2>2. f = [n \in 0..N |-> f[n]]
    BY <1>4
  <2>3. f = [n \in 0..N |-> IF n = 0 THEN w ELSE ReconcileTiers(f[n - 1], {})]
    BY <2>1, <2>2
  <2> QED BY <2>3 DEF N
<1> DEFINE h == CHOOSE h : Eq(h)
<1>8. Eq(h)
  BY <1>7
<1>9. Settled(w, ReconcileTiers) = h[N]
  BY DEF Settled, N
<1> HIDE DEF h
<1>10. \A n \in 0..N : h[n] = IF n = 0 THEN w ELSE ReconcileTiers(h[n - 1], {})
  BY <1>8 DEF N
<1> DEFINE P == {n \in 0..N : h[n] \in TierWorlds}
<1>11. 0 \in P
  BY <1>1, <1>10
<1>12. ASSUME NEW n \in (0 + 1)..N, n - 1 \in P PROVE n \in P
  <2>1. n \in 0..N /\ n # 0 /\ h[n - 1] \in TierWorlds
    BY <1>1, <1>12
  <2> QED BY <1>2, <1>10, <2>1
<1> HIDE DEF P
<1>13. \A n \in 0..N : n \in P
  BY <1>1, <1>11, <1>12, OneByOne
<1>14. \A n \in 0..N : h[n] \in TierWorlds /\ h[n] \in TierWorlds
  BY <1>13 DEF P, TerrainWorlds
<1>15. \A n \in 1..N : Ticked(h[n - 1], h[n], V[h[n - 1].count])
  <2> TAKE n \in 1..N
  <2>1. n \in 0..N /\ n - 1 \in 0..N /\ n # 0
    BY <1>1
  <2> QED BY <1>2, <1>10, <1>14, <2>1
<1>16. h[0] = w /\ N \in 0..N
  BY <1>1, <1>10
<1>17. /\ h[N].here = w.here /\ h[N].count = w.count
       /\ w.here \in Copies => InPlace(h[N], V[w.count])
  BY <1>14, <1>15, <1>16, TicksSettle DEF N
<1>18. V[w.count] = Patched(Tier(w.count))
  <2>1. w.count \in Nat
    BY <1>2
  <2> QED BY <2>1 DEF V, Greyed
<1> QED BY <1>9, <1>14, <1>16, <1>17, <1>18

LEMMA TerrainSettle ==
  ASSUME NEW w \in TerrainWorlds
  PROVE  /\ Settled(w, ReconcileTerrain) \in TerrainWorlds /\ Settled(w, ReconcileTerrain).count = w.count
         /\ Settled(w, ReconcileTerrain).here = w.here
         /\ w.here \in Copies => InPlace(Settled(w, ReconcileTerrain), Patched(Greyed(w)))
<1> USE PatchConstants
<1> DEFINE N == FindCooldown + 3
           F == [n \in 1..N |-> [x \in TerrainWorlds |-> ReconcileTerrain(x, {})]]
           V == [n \in Nat |-> Patched(IF n > 0 THEN 0 ELSE 1)]
           Eq(h) == h = [n \in 0..(FindCooldown + 3) |-> IF n = 0 THEN w ELSE ReconcileTerrain(h[n - 1], {})]
<1>1. N \in Nat /\ 0 \in Nat /\ 0 <= N /\ 0 + 1 = 1
  OBVIOUS
<1>2. ASSUME NEW x \in TerrainWorlds
      PROVE  x.count \in Nat /\ ReconcileTerrain(x, {}) \in TerrainWorlds /\ Ticked(x, ReconcileTerrain(x, {}), V[x.count])
  <2>1. x.count \in Nat
    BY TierWorldIs DEF TerrainWorlds
  <2>2. V[x.count] = Patched(Greyed(x))
    BY <2>1 DEF Greyed
  <2> QED BY <2>1, <2>2, TerrainTick
<1> HIDE DEF N, V
<1>3. F \in [(0 + 1)..N -> [TerrainWorlds -> TerrainWorlds]]
  BY <1>1, <1>2
<1>4. PICK f \in [0..N -> TerrainWorlds] : RunOf(F, w, 0, N, f)
  <2> HIDE DEF F
  <2> QED BY <1>1, <1>3, RunExists
<1>5. /\ f[0] = w
      /\ \A n \in (0 + 1)..N : f[n] = F[n][f[n - 1]]
  BY <1>4, Zenon DEF RunOf
<1>6. ASSUME NEW n \in 1..N PROVE f[n] = ReconcileTerrain(f[n - 1], {})
  <2>1. f[n - 1] \in TerrainWorlds
    BY <1>1, <1>4
  <2>2. F[n][f[n - 1]] = ReconcileTerrain(f[n - 1], {})
    BY <2>1
  <2> QED BY <1>1, <1>5, <2>2
<1>7. Eq(f)
  <2>1. \A n \in 0..N : f[n] = IF n = 0 THEN w ELSE ReconcileTerrain(f[n - 1], {})
    BY <1>1, <1>5, <1>6
  <2>2. f = [n \in 0..N |-> f[n]]
    BY <1>4
  <2>3. f = [n \in 0..N |-> IF n = 0 THEN w ELSE ReconcileTerrain(f[n - 1], {})]
    BY <2>1, <2>2
  <2> QED BY <2>3 DEF N
<1> DEFINE h == CHOOSE h : Eq(h)
<1>8. Eq(h)
  BY <1>7
<1>9. Settled(w, ReconcileTerrain) = h[N]
  BY DEF Settled, N
<1> HIDE DEF h
<1>10. \A n \in 0..N : h[n] = IF n = 0 THEN w ELSE ReconcileTerrain(h[n - 1], {})
  BY <1>8 DEF N
<1> DEFINE P == {n \in 0..N : h[n] \in TerrainWorlds}
<1>11. 0 \in P
  BY <1>1, <1>10
<1>12. ASSUME NEW n \in (0 + 1)..N, n - 1 \in P PROVE n \in P
  <2>1. n \in 0..N /\ n # 0 /\ h[n - 1] \in TerrainWorlds
    BY <1>1, <1>12
  <2> QED BY <1>2, <1>10, <2>1
<1> HIDE DEF P
<1>13. \A n \in 0..N : n \in P
  BY <1>1, <1>11, <1>12, OneByOne
<1>14. \A n \in 0..N : h[n] \in TerrainWorlds /\ h[n] \in TierWorlds
  BY <1>13 DEF P, TerrainWorlds
<1>15. \A n \in 1..N : Ticked(h[n - 1], h[n], V[h[n - 1].count])
  <2> TAKE n \in 1..N
  <2>1. n \in 0..N /\ n - 1 \in 0..N /\ n # 0
    BY <1>1
  <2> QED BY <1>2, <1>10, <1>14, <2>1
<1>16. h[0] = w /\ N \in 0..N
  BY <1>1, <1>10
<1>17. /\ h[N].here = w.here /\ h[N].count = w.count
       /\ w.here \in Copies => InPlace(h[N], V[w.count])
  BY <1>14, <1>15, <1>16, TicksSettle DEF N
<1>18. V[w.count] = Patched(Greyed(w))
  <2>1. w.count \in Nat
    BY <1>2
  <2> QED BY <2>1 DEF V, Greyed
<1> QED BY <1>9, <1>14, <1>16, <1>17, <1>18

LEMMA GroundIs == Ground \in TierWorlds /\ Ground \in TerrainWorlds
<1> USE PatchConstants
<1>1. Ground \in PatchWorlds /\ Ground.client = Clean /\ Ground.here = 0
  BY CleanIs DEF Ground, PatchWorlds
<1>2. \A c \in Copies : Ground.heap[c] = NoCopy /\ c # Ground.here
  BY DEF Ground
<1>3. Intact(Ground) = {} /\ ~CacheValid(Ground) /\ Ground.here \notin Copies
  BY <1>1, <1>2, CleanIs DEF Intact, CacheValid
<1>4. Placed(Ground) /\ Undoable(Ground)
  BY <1>1, <1>3, CleanIs DEF Placed, Undoable
<1> QED BY <1>1, <1>4 DEF TierWorlds, TerrainWorlds

\* Histories of any length lead to worlds.
LEMMA TierHistory == ASSUME PatchRaces = {} PROVE TiersReached \subseteq TierWorlds
<1>r. PatchRounds \in Nat
  BY PatchConstants
<1> DEFINE W == TierWorlds
           start == {Ground}
           F == [x \in W |-> TierSteps(x)]
           Eq(f) == f = [n \in 0..PatchRounds |->
                           IF n = 0 THEN start
                           ELSE LET before == f[n - 1] IN before \cup UNION {TierSteps(x) : x \in before}]
<1>1. start \in SUBSET W
  BY GroundIs
<1>2. \A x \in W : TierSteps(x) \in SUBSET W
  BY TierEvent
<1> HIDE DEF W, start
<1>3. F \in [W -> SUBSET W]
  BY <1>2
<1>4. PICK f \in [0..PatchRounds -> SUBSET W] : Grows(F, start, PatchRounds, f)
  <2> HIDE DEF F
  <2> QED BY <1>r, <1>1, <1>3, GrowthExists
<1>5. ASSUME NEW n \in 1..PatchRounds
      PROVE  f[n] = f[n - 1] \cup UNION {TierSteps(x) : x \in f[n - 1]}
  <2>1. f[n - 1] \in SUBSET W
    BY <1>r, <1>4
  <2>2. \A x \in f[n - 1] : F[x] = TierSteps(x)
    BY <2>1
  <2>3. f[n] = f[n - 1] \cup UNION {F[x] : x \in f[n - 1]}
    BY <1>4 DEF Grows
  <2> HIDE DEF F
  <2> QED BY <2>2, <2>3
<1>6. Eq(f)
  <2>1. f[0] = start
    BY <1>4 DEF Grows
  <2>2. \A n \in 0..PatchRounds :
          f[n] = IF n = 0 THEN start ELSE f[n - 1] \cup UNION {TierSteps(x) : x \in f[n - 1]}
    BY <1>r, <1>5, <2>1
  <2>3. f = [n \in 0..PatchRounds |-> f[n]]
    BY <1>4
  <2> QED BY <2>2, <2>3
<1> DEFINE h == CHOOSE h : Eq(h)
<1>7. Eq(h)
  BY <1>6, Zenon
<1>8. TiersReached = h[PatchRounds]
  BY DEF TiersReached, Reachable, start
<1> HIDE DEF h
<1>9. \A n \in 0..PatchRounds :
        h[n] = IF n = 0 THEN start ELSE h[n - 1] \cup UNION {TierSteps(x) : x \in h[n - 1]}
  BY <1>7
<1> DEFINE P == {n \in 0..PatchRounds : h[n] \in SUBSET W}
<1>10. 0 \in P
  <2>1. 0 \in 0..PatchRounds
    BY <1>r
  <2>2. h[0] = start
    BY <1>9, <2>1
  <2> QED BY <1>1, <2>1, <2>2
<1>11. ASSUME NEW n \in (0 + 1)..PatchRounds, n - 1 \in P PROVE n \in P
  <2>1. n \in 0..PatchRounds /\ n # 0 /\ h[n - 1] \in SUBSET W
    BY <1>r, <1>11
  <2>2. h[n] = h[n - 1] \cup UNION {TierSteps(x) : x \in h[n - 1]}
    BY <1>9, <2>1
  <2>3. UNION {TierSteps(x) : x \in h[n - 1]} \subseteq W
    BY <1>2, <2>1
  <2> QED BY <2>1, <2>2, <2>3
<1> HIDE DEF P
<1>12. PatchRounds \in P
  BY <1>r, <1>10, <1>11, OneByOne
<1> QED BY <1>8, <1>12 DEF P, W

LEMMA TerrainHistory == ASSUME PatchRaces = {} PROVE TerrainReached \subseteq TerrainWorlds
<1>r. PatchRounds \in Nat
  BY PatchConstants
<1> DEFINE W == TerrainWorlds
           start == {Ground}
           F == [x \in W |-> TerrainSteps(x)]
           Eq(f) == f = [n \in 0..PatchRounds |->
                           IF n = 0 THEN start
                           ELSE LET before == f[n - 1] IN before \cup UNION {TerrainSteps(x) : x \in before}]
<1>1. start \in SUBSET W
  BY GroundIs
<1>2. \A x \in W : TerrainSteps(x) \in SUBSET W
  BY TerrainEvent
<1> HIDE DEF W, start
<1>3. F \in [W -> SUBSET W]
  BY <1>2
<1>4. PICK f \in [0..PatchRounds -> SUBSET W] : Grows(F, start, PatchRounds, f)
  <2> HIDE DEF F
  <2> QED BY <1>r, <1>1, <1>3, GrowthExists
<1>5. ASSUME NEW n \in 1..PatchRounds
      PROVE  f[n] = f[n - 1] \cup UNION {TerrainSteps(x) : x \in f[n - 1]}
  <2>1. f[n - 1] \in SUBSET W
    BY <1>r, <1>4
  <2>2. \A x \in f[n - 1] : F[x] = TerrainSteps(x)
    BY <2>1
  <2>3. f[n] = f[n - 1] \cup UNION {F[x] : x \in f[n - 1]}
    BY <1>4 DEF Grows
  <2> HIDE DEF F
  <2> QED BY <2>2, <2>3
<1>6. Eq(f)
  <2>1. f[0] = start
    BY <1>4 DEF Grows
  <2>2. \A n \in 0..PatchRounds :
          f[n] = IF n = 0 THEN start ELSE f[n - 1] \cup UNION {TerrainSteps(x) : x \in f[n - 1]}
    BY <1>r, <1>5, <2>1
  <2>3. f = [n \in 0..PatchRounds |-> f[n]]
    BY <1>4
  <2> QED BY <2>2, <2>3
<1> DEFINE h == CHOOSE h : Eq(h)
<1>7. Eq(h)
  BY <1>6, Zenon
<1>8. TerrainReached = h[PatchRounds]
  BY DEF TerrainReached, Reachable, start
<1> HIDE DEF h
<1>9. \A n \in 0..PatchRounds :
        h[n] = IF n = 0 THEN start ELSE h[n - 1] \cup UNION {TerrainSteps(x) : x \in h[n - 1]}
  BY <1>7
<1> DEFINE P == {n \in 0..PatchRounds : h[n] \in SUBSET W}
<1>10. 0 \in P
  <2>1. 0 \in 0..PatchRounds
    BY <1>r
  <2>2. h[0] = start
    BY <1>9, <2>1
  <2> QED BY <1>1, <2>1, <2>2
<1>11. ASSUME NEW n \in (0 + 1)..PatchRounds, n - 1 \in P PROVE n \in P
  <2>1. n \in 0..PatchRounds /\ n # 0 /\ h[n - 1] \in SUBSET W
    BY <1>r, <1>11
  <2>2. h[n] = h[n - 1] \cup UNION {TerrainSteps(x) : x \in h[n - 1]}
    BY <1>9, <2>1
  <2>3. UNION {TerrainSteps(x) : x \in h[n - 1]} \subseteq W
    BY <1>2, <2>1
  <2> QED BY <2>1, <2>2, <2>3
<1> HIDE DEF P
<1>12. PatchRounds \in P
  BY <1>r, <1>10, <1>11, OneByOne
<1> QED BY <1>8, <1>12 DEF P, W

\* Together: both gates follow the items, after any history.
LEMMA TiersHold == ASSUME PatchRaces = {} PROVE TiersFollow
<1> USE PatchConstants
<1> SUFFICES ASSUME NEW before \in TiersReached, NEW w, w = Settled(before, ReconcileTiers), w.here # 0,
                    w.here \notin w.torn
             PROVE  /\ w.heap[w.here] = Patched(Tier(w.count))
                    /\ ShutdownTiers(w, {}).heap[w.here] = Original
  BY DEF TiersFollow
<1>1. before \in TierWorlds
  BY TierHistory
<1>2. /\ w \in TierWorlds /\ w.count = before.count /\ w.here = before.here
      /\ before.here \in Copies => InPlace(w, Patched(Tier(before.count)))
  BY <1>1, TierSettle
<1>3. w \in TierWorlds
  BY <1>2
<1>4. w.here \in Copies
  BY <1>3, TierWorldIs
<1>5. Patched(Tier(before.count)) = Patched(Tier(w.count)) /\ Patched(Tier(w.count)) # NoCopy
  <2>1. w.count \in Nat
    BY <1>3, TierWorldIs
  <2> QED BY <1>2, <2>1, WindowsDiffer DEF Tier, Greyed
<1>6. w.heap[w.here] = Patched(Tier(w.count))
  BY <1>2, <1>3, <1>4, <1>5, TierWorldIs DEF InPlace, Placed
<1> QED BY <1>2, <1>4, <1>6, TierExit DEF InPlace

LEMMA ToolsHold == ASSUME PatchRaces = {} PROVE ToolsFollow
<1> USE PatchConstants
<1> SUFFICES ASSUME NEW before \in TerrainReached, NEW w, w = Settled(before, ReconcileTerrain), w.here # 0,
                    w.here \notin w.torn
             PROVE  /\ w.heap[w.here] = Patched(Greyed(w))
                    /\ ShutdownTerrain(w, {}).heap[w.here] = Original
  BY DEF ToolsFollow
<1>1. before \in TerrainWorlds
  BY TerrainHistory
<1>2. /\ w \in TerrainWorlds /\ w.count = before.count /\ w.here = before.here
      /\ before.here \in Copies => InPlace(w, Patched(Greyed(before)))
  BY <1>1, TerrainSettle
<1>3. w \in TierWorlds
  BY <1>2 DEF TerrainWorlds
<1>4. w.here \in Copies
  BY <1>3, TierWorldIs
<1>5. Patched(Greyed(before)) = Patched(Greyed(w)) /\ Patched(Greyed(w)) # NoCopy
  <2>1. w.count \in Nat
    BY <1>3, TierWorldIs
  <2> QED BY <1>2, <2>1, WindowsDiffer DEF Tier, Greyed
<1>6. w.heap[w.here] = Patched(Greyed(w))
  BY <1>2, <1>3, <1>4, <1>5, TierWorldIs DEF InPlace, Placed
<1> QED BY <1>2, <1>4, <1>6, TerrainExit DEF InPlace

-----------------------------------------------------------------------------
(* The replacements, executed                                              *)

\* The four registers they use, with the level l in two of them, and a
\* machine at pc.
Four(l, a, b) == [r \in {7, 8, 14, 15} |-> IF r \in {7, 14} THEN l ELSE IF r = 8 THEN a ELSE b]
Machine(l, a, b, pc) == [reg |-> Four(l, a, b), pc |-> pc]
Machines(l) == {Machine(l, m[1], m[2], m[3]) : m \in Int \X Int \X Int}

\* What the replacements are made of.
Instructions ==
  {LoadBool(8, m[1], m[2]) : m \in Int \X Int} \cup {LoadK(15, x) : x \in Int}
  \cup {AddOnes(8), AddOnes(15), EqOne(1, 7), Le(1, 7, 8), Le(0, 14, 15)}
  \cup {Jmp(d) : d \in Int}

LEMMA FourIs ==
  ASSUME NEW l \in Int, NEW a \in Int, NEW b \in Int
  PROVE  /\ Four(l, a, b) \in [{7, 8, 14, 15} -> Int]
         /\ Four(l, a, b)[7] = l /\ Four(l, a, b)[8] = a
         /\ Four(l, a, b)[14] = l /\ Four(l, a, b)[15] = b
BY DEF Four

LEMMA FourFrom ==
  ASSUME NEW l \in Int, NEW a \in Int, NEW b \in Int, NEW R \in [{7, 8, 14, 15} -> Int],
         R[7] = l, R[8] = a, R[14] = l, R[15] = b
  PROVE  R = Four(l, a, b)
<1>1. R = [r \in {7, 8, 14, 15} |-> R[r]]
  OBVIOUS
<1>2. \A r \in {7, 8, 14, 15} :
        R[r] = IF r \in {7, 14} THEN l ELSE IF r = 8 THEN a ELSE b
  OBVIOUS
<1> QED BY <1>1, <1>2 DEF Four

\* What each instruction does to a machine.
LEMMA ExecLoads ==
  ASSUME NEW l \in Int, NEW a \in Int, NEW b \in Int, NEW pc \in Int, NEW x \in Int, NEW k \in Int
  PROVE  Exec(LoadBool(8, x, k), pc, Four(l, a, b)) = Machine(l, x, b, pc + 1 + k)
<1> DEFINE R == Four(l, a, b)
<1>0. R \in [{7, 8, 14, 15} -> Int] /\ R[7] = l /\ R[8] = a /\ R[14] = l /\ R[15] = b
  BY FourIs
<1> HIDE DEF R
<1>1. Exec(LoadBool(8, x, k), pc, R) = Machine(l, x, b, pc + 1 + k)
  <2> DEFINE Q == [R EXCEPT ![8] = x]
  <2>1. Exec(LoadBool(8, x, k), pc, R) = [reg |-> Q, pc |-> pc + 1 + k]
    BY DEF Exec, LoadBool
  <2>2. Q \in [{7, 8, 14, 15} -> Int] /\ Q[7] = l /\ Q[8] = x /\ Q[14] = l /\ Q[15] = b
    BY <1>0
  <2> HIDE DEF Q
  <2>3. Q = Four(l, x, b)
    BY <2>2, FourFrom
  <2> QED BY <2>1, <2>3 DEF Machine
<1> QED BY <1>1 DEF R

LEMMA ExecPuts ==
  ASSUME NEW l \in Int, NEW a \in Int, NEW b \in Int, NEW pc \in Int, NEW x \in Int
  PROVE  /\ Exec(LoadK(15, x), pc, Four(l, a, b)) = Machine(l, a, x, pc + 1)
         /\ Exec(Jmp(x), pc, Four(l, a, b)) = Machine(l, a, b, pc + 1 + x)
<1> DEFINE R == Four(l, a, b)
<1>0. R \in [{7, 8, 14, 15} -> Int] /\ R[7] = l /\ R[8] = a /\ R[14] = l /\ R[15] = b
  BY FourIs
<1> HIDE DEF R
<1>1. Exec(LoadK(15, x), pc, R) = Machine(l, a, x, pc + 1)
  <2> DEFINE Q == [R EXCEPT ![15] = x]
  <2>1. Exec(LoadK(15, x), pc, R) = [reg |-> Q, pc |-> pc + 1]
    BY DEF Exec, LoadK
  <2>2. Q \in [{7, 8, 14, 15} -> Int] /\ Q[7] = l /\ Q[8] = a /\ Q[14] = l /\ Q[15] = x
    BY <1>0
  <2> HIDE DEF Q
  <2>3. Q = Four(l, a, x)
    BY <2>2, FourFrom
  <2> QED BY <2>1, <2>3 DEF Machine
<1>2. Exec(Jmp(x), pc, R) = Machine(l, a, b, pc + 1 + x)
  BY DEF Exec, Jmp, Machine, R
<1> QED BY <1>1, <1>2 DEF R

LEMMA ExecCompares ==
  ASSUME NEW l \in Int, NEW a \in Int, NEW b \in Int, NEW pc \in Int
  PROVE  /\ Exec(AddOnes(8), pc, Four(l, a, b)) = Machine(l, 2, b, pc + 1)
         /\ Exec(AddOnes(15), pc, Four(l, a, b)) = Machine(l, a, 2, pc + 1)
         /\ Exec(EqOne(1, 7), pc, Four(l, a, b)) = (IF l = 1 THEN Machine(l, a, b, pc + 1) ELSE Machine(l, a, b, pc + 2))
         /\ Exec(Le(1, 7, 8), pc, Four(l, a, b)) = (IF l <= a THEN Machine(l, a, b, pc + 1) ELSE Machine(l, a, b, pc + 2))
         /\ Exec(Le(0, 14, 15), pc, Four(l, a, b)) = (IF l <= b THEN Machine(l, a, b, pc + 2) ELSE Machine(l, a, b, pc + 1))
<1> DEFINE R == Four(l, a, b)
<1>0. R \in [{7, 8, 14, 15} -> Int] /\ R[7] = l /\ R[8] = a /\ R[14] = l /\ R[15] = b
  BY FourIs
<1> HIDE DEF R
<1>1. Exec(AddOnes(8), pc, R) = Machine(l, 2, b, pc + 1)
  <2> DEFINE Q == [R EXCEPT ![8] = 1 + 1]
  <2>1. Exec(AddOnes(8), pc, R) = [reg |-> Q, pc |-> pc + 1]
    BY DEF Exec, AddOnes
  <2>2. Q \in [{7, 8, 14, 15} -> Int] /\ Q[7] = l /\ Q[8] = 2 /\ Q[14] = l /\ Q[15] = b
    BY <1>0
  <2> HIDE DEF Q
  <2>3. Q = Four(l, 2, b)
    BY <2>2, FourFrom
  <2> QED BY <2>1, <2>3 DEF Machine
<1>2. Exec(AddOnes(15), pc, R) = Machine(l, a, 2, pc + 1)
  <2> DEFINE Q == [R EXCEPT ![15] = 1 + 1]
  <2>1. Exec(AddOnes(15), pc, R) = [reg |-> Q, pc |-> pc + 1]
    BY DEF Exec, AddOnes
  <2>2. Q \in [{7, 8, 14, 15} -> Int] /\ Q[7] = l /\ Q[8] = a /\ Q[14] = l /\ Q[15] = 2
    BY <1>0
  <2> HIDE DEF Q
  <2>3. Q = Four(l, a, 2)
    BY <2>2, FourFrom
  <2> QED BY <2>1, <2>3 DEF Machine
<1>3. Exec(EqOne(1, 7), pc, R) = IF l = 1 THEN Machine(l, a, b, pc + 1) ELSE Machine(l, a, b, pc + 2)
  <2>1. Exec(EqOne(1, 7), pc, R) = [reg |-> R, pc |-> pc + Skip(Bit(R[7] = 1) # 1)]
    BY DEF Exec, EqOne
  <2> QED BY <1>0, <2>1 DEF Machine, Skip, Bit, R
<1>4. Exec(Le(1, 7, 8), pc, R) = IF l <= a THEN Machine(l, a, b, pc + 1) ELSE Machine(l, a, b, pc + 2)
  <2>1. Exec(Le(1, 7, 8), pc, R) = [reg |-> R, pc |-> pc + Skip(Bit(R[7] <= R[8]) # 1)]
    BY DEF Exec, Le
  <2> QED BY <1>0, <2>1 DEF Machine, Skip, Bit, R
<1>5. Exec(Le(0, 14, 15), pc, R) = IF l <= b THEN Machine(l, a, b, pc + 2) ELSE Machine(l, a, b, pc + 1)
  <2>1. Exec(Le(0, 14, 15), pc, R) = [reg |-> R, pc |-> pc + Skip(Bit(R[14] <= R[15]) # 0)]
    BY DEF Exec, Le
  <2> QED BY <1>0, <2>1 DEF Machine, Skip, Bit, R
<1> QED BY <1>1, <1>2, <1>3, <1>4, <1>5 DEF R

\* One step in a window of code, and none outside it.
Onward(code, from, s) ==
  IF s.pc >= from /\ s.pc < from + Len(code) THEN Exec(code[s.pc - from + 1], s.pc, s.reg) ELSE s

LEMMA OnwardIs ==
  ASSUME NEW l \in Int, NEW a \in Int, NEW b \in Int, NEW pc \in Int, NEW code, NEW from
  PROVE  Onward(code, from, Machine(l, a, b, pc)) =
           IF pc >= from /\ pc < from + Len(code)
           THEN Exec(code[pc - from + 1], pc, Four(l, a, b)) ELSE Machine(l, a, b, pc)
BY DEF Onward, Machine

LEMMA MachineIn ==
  ASSUME NEW l \in Int, NEW a \in Int, NEW b \in Int, NEW pc \in Int
  PROVE  Machine(l, a, b, pc) \in Machines(l)
<1>1. <<a, b, pc>> \in Int \X Int \X Int /\ <<a, b, pc>>[1] = a /\ <<a, b, pc>>[2] = b /\ <<a, b, pc>>[3] = pc
  OBVIOUS
<1> QED BY <1>1 DEF Machines

LEMMA OnwardStays ==
  ASSUME NEW l \in Int, NEW code \in Seq(Instructions), NEW from \in Int, NEW s \in Machines(l)
  PROVE  Onward(code, from, s) \in Machines(l)
<1>1. PICK a \in Int, b \in Int, pc \in Int : s = Machine(l, a, b, pc)
  BY DEF Machines
<1>2. CASE ~(pc >= from /\ pc < from + Len(code))
  BY <1>1, <1>2, OnwardIs
<1>3. CASE pc >= from /\ pc < from + Len(code)
  <2> DEFINE i == code[pc - from + 1]
  <2>1. i \in Instructions
    <3>1. pc - from + 1 \in 1..Len(code)
      BY <1>3
    <3> QED BY <3>1
  <2> HIDE DEF i
  <2>2. Onward(code, from, s) = Exec(i, pc, Four(l, a, b))
    BY <1>1, <1>3, OnwardIs DEF i
  <2>3. CASE \E x, k \in Int : i = LoadBool(8, x, k)
    <3>1. PICK x \in Int, k \in Int : i = LoadBool(8, x, k)
      BY <2>3
    <3>2. Exec(i, pc, Four(l, a, b)) = Machine(l, x, b, pc + 1 + k)
      BY <1>1, <3>1, ExecLoads, SMTT(60)
    <3>3. pc + 1 + k \in Int
      OBVIOUS
    <3> QED BY <2>2, <3>2, <3>3, MachineIn, <1>1
  <2>4. CASE \E x \in Int : i = LoadK(15, x)
    <3>1. PICK x \in Int : i = LoadK(15, x)
      BY <2>4
    <3>2. Exec(i, pc, Four(l, a, b)) = Machine(l, a, x, pc + 1)
      BY <1>1, <3>1, ExecPuts
    <3>3. pc + 1 \in Int
      OBVIOUS
    <3> QED BY <2>2, <3>2, <3>3, MachineIn, <1>1
  <2>5. CASE i \in {AddOnes(8), AddOnes(15)}
    <3>1. Exec(i, pc, Four(l, a, b)) \in {Machine(l, 2, b, pc + 1), Machine(l, a, 2, pc + 1)}
      <4>1. CASE i = AddOnes(8)
        BY <4>1, <1>1, ExecCompares
      <4>2. CASE i = AddOnes(15)
        BY <4>2, <1>1, ExecCompares
      <4> QED BY <2>5, <4>1, <4>2
    <3>2. pc + 1 \in Int /\ 2 \in Int
      OBVIOUS
    <3> QED BY <2>2, <3>1, <3>2, MachineIn, <1>1
  <2>6. CASE i \in {EqOne(1, 7), Le(1, 7, 8), Le(0, 14, 15)}
    <3>1. Exec(i, pc, Four(l, a, b)) \in {Machine(l, a, b, pc + 1), Machine(l, a, b, pc + 2)}
      <4>1. CASE i = EqOne(1, 7)
        BY <4>1, <1>1, ExecCompares
      <4>2. CASE i = Le(1, 7, 8)
        BY <4>2, <1>1, ExecCompares
      <4>3. CASE i = Le(0, 14, 15)
        BY <4>3, <1>1, ExecCompares
      <4> QED BY <2>6, <4>1, <4>2, <4>3
    <3>2. pc + 1 \in Int /\ pc + 2 \in Int
      OBVIOUS
    <3> QED BY <2>2, <3>1, <3>2, MachineIn, <1>1
  <2>7. CASE \E d \in Int : i = Jmp(d)
    <3>1. PICK d \in Int : i = Jmp(d)
      BY <2>7
    <3>2. Exec(i, pc, Four(l, a, b)) = Machine(l, a, b, pc + 1 + d)
      BY <1>1, <3>1, ExecPuts
    <3>3. pc + 1 + d \in Int
      OBVIOUS
    <3> QED BY <2>2, <3>2, <3>3, MachineIn, <1>1
  <2>8. \/ \E x, k \in Int : i = LoadBool(8, x, k)
        \/ \E x \in Int : i = LoadK(15, x)
        \/ i \in {AddOnes(8), AddOnes(15)}
        \/ i \in {EqOne(1, 7), Le(1, 7, 8), Le(0, 14, 15)}
        \/ \E d \in Int : i = Jmp(d)
    BY <2>1 DEF Instructions
  <2> QED BY <2>3, <2>4, <2>5, <2>6, <2>7, <2>8
<1> QED BY <1>2, <1>3

\* A run is a sequence of steps from the first machine.
LEMMA RunIs ==
  ASSUME NEW l \in Int, NEW code \in Seq(Instructions), NEW from \in Int
  PROVE  \E s \in [0..Len(code) -> Machines(l)] :
           /\ s[0] = Machine(l, -1, -1, from)
           /\ \A n \in 1..Len(code) : s[n] = Onward(code, from, s[n - 1])
           /\ Run(code, from, Registers(l)) = s[Len(code)]
<1> DEFINE N == Len(code)
           a == Machine(l, -1, -1, from)
           F == [n \in 1..N |-> [x \in Machines(l) |-> Onward(code, from, x)]]
           Eq(h) == h = [n \in 0..Len(code) |->
                          IF n = 0 THEN [reg |-> Registers(l), pc |-> from]
                          ELSE IF h[n - 1].pc >= from /\ h[n - 1].pc < from + Len(code)
                               THEN Exec(code[h[n - 1].pc - from + 1], h[n - 1].pc, h[n - 1].reg)
                               ELSE h[n - 1]]
<1>1. N \in Nat /\ 0 \in Nat /\ 0 <= N /\ 0 + 1 = 1 /\ -1 \in Int
  OBVIOUS
<1>2. a \in Machines(l)
  BY <1>1, MachineIn
<1>3. a = [reg |-> Registers(l), pc |-> from]
  BY DEF Machine, Four, Registers
<1> HIDE DEF a
<1>4. F \in [(0 + 1)..N -> [Machines(l) -> Machines(l)]]
  BY <1>1, OnwardStays
<1>5. PICK f \in [0..N -> Machines(l)] : RunOf(F, a, 0, N, f)
  <2> HIDE DEF F
  <2> QED BY <1>1, <1>2, <1>4, RunExists
<1>6. /\ f[0] = a
      /\ \A n \in (0 + 1)..N : f[n] = F[n][f[n - 1]]
  BY <1>5, Zenon DEF RunOf
<1>7. ASSUME NEW n \in 1..N PROVE f[n] = Onward(code, from, f[n - 1])
  <2>1. f[n - 1] \in Machines(l)
    BY <1>1, <1>5, SMTT(30)
  <2>2. F[n][f[n - 1]] = Onward(code, from, f[n - 1])
    BY <2>1
  <2> QED BY <1>1, <1>6, <2>2
<1>8. Eq(f)
  <2>1. \A n \in 0..N : f[n] = IF n = 0 THEN a ELSE Onward(code, from, f[n - 1])
    BY <1>1, <1>6, <1>7
  <2>2. f = [n \in 0..N |-> f[n]]
    BY <1>5
  <2>3. f = [n \in 0..N |-> IF n = 0 THEN a ELSE Onward(code, from, f[n - 1])]
    BY <2>1, <2>2
  <2> QED BY <1>3, <2>3 DEF Onward
<1> DEFINE h == CHOOSE h : Eq(h)
<1>9. Eq(h)
  BY <1>8, Zenon
<1>10. Run(code, from, Registers(l)) = h[N]
  BY SMTT(30) DEF Run
<1> HIDE DEF h
<1>11. h = [n \in 0..N |-> IF n = 0 THEN a ELSE Onward(code, from, h[n - 1])]
  BY <1>3, <1>9 DEF Onward
<1>12. \A n \in 0..N : h[n] = IF n = 0 THEN a ELSE Onward(code, from, h[n - 1])
  <2> HIDE DEF Eq
  <2> QED BY <1>11
<1> HIDE DEF Eq
<1> DEFINE P == {n \in 0..N : h[n] \in Machines(l)}
<1>13. 0 \in P
  BY <1>1, <1>2, <1>12
<1>14. ASSUME NEW n \in (0 + 1)..N, n - 1 \in P PROVE n \in P
  <2>1. n \in 0..N /\ n \in 1..N /\ n # 0 /\ h[n - 1] \in Machines(l)
    BY <1>1, <1>14
  <2> QED BY <1>12, <2>1, OnwardStays
<1> HIDE DEF P
<1>15. \A n \in 0..N : n \in P
  BY <1>1, <1>13, <1>14, OneByOne
<1>16. \A n \in 0..N : h[n] \in Machines(l)
  BY <1>15 DEF P
<1>17. h = [n \in 0..N |-> h[n]]
  BY <1>11, <1>12
<1>18. h \in [0..N -> Machines(l)]
  BY <1>16, <1>17
<1>19. h[0] = a /\ \A n \in 1..N : h[n] = Onward(code, from, h[n - 1])
  BY <1>1, <1>12
<1> QED BY <1>10, <1>18, <1>19 DEF a

LEMMA FiveOf ==
  ASSUME NEW a \in Instructions, NEW b \in Instructions, NEW c \in Instructions,
         NEW d \in Instructions, NEW e \in Instructions, NEW code, code = <<a, b, c, d, e>>
  PROVE  /\ code \in Seq(Instructions) /\ Len(code) = 5
         /\ code[1] = a /\ code[2] = b /\ code[3] = c /\ code[4] = d /\ code[5] = e
OBVIOUS

LEMMA ThreeOf ==
  ASSUME NEW a \in Instructions, NEW b \in Instructions, NEW c \in Instructions,
         NEW code, code = <<a, b, c>>
  PROVE  /\ code \in Seq(Instructions) /\ Len(code) = 3
         /\ code[1] = a /\ code[2] = b /\ code[3] = c
OBVIOUS

LEMMA InstructionsAre ==
  /\ \A x, k \in Int : LoadBool(8, x, k) \in Instructions
  /\ \A x \in Int : LoadK(15, x) \in Instructions /\ Jmp(x) \in Instructions
  /\ AddOnes(8) \in Instructions /\ AddOnes(15) \in Instructions
  /\ EqOne(1, 7) \in Instructions /\ Le(1, 7, 8) \in Instructions /\ Le(0, 14, 15) \in Instructions
<1>1. \A x, k \in Int : <<x, k>> \in Int \X Int /\ <<x, k>>[1] = x /\ <<x, k>>[2] = k
  OBVIOUS
<1> QED BY <1>1 DEF Instructions

\* The machine after the instruction it stands at, in a window of code.
LEMMA OnLoadBool ==
  ASSUME NEW l \in Int, NEW a \in Int, NEW b \in Int, NEW pc \in Int, NEW from \in Int, NEW code,
         NEW x \in Int, NEW k \in Int
  PROVE  pc >= from /\ pc < from + Len(code) /\ code[pc - from + 1] = LoadBool(8, x, k)
           => Onward(code, from, Machine(l, a, b, pc)) = Machine(l, x, b, pc + 1 + k)
<1>1. Exec(LoadBool(8, x, k), pc, Four(l, a, b)) = Machine(l, x, b, pc + 1 + k)
  BY ExecLoads, SMTT(30)
<1>2. HAVE pc >= from /\ pc < from + Len(code) /\ code[pc - from + 1] = LoadBool(8, x, k)
<1>3. Onward(code, from, Machine(l, a, b, pc)) = Exec(LoadBool(8, x, k), pc, Four(l, a, b))
  BY <1>2, OnwardIs
<1> QED BY <1>1, <1>3

LEMMA OnLoadK ==
  ASSUME NEW l \in Int, NEW a \in Int, NEW b \in Int, NEW pc \in Int, NEW from \in Int, NEW code,
         NEW x \in Int, pc >= from, pc < from + Len(code), code[pc - from + 1] = LoadK(15, x)
  PROVE  Onward(code, from, Machine(l, a, b, pc)) = Machine(l, a, x, pc + 1)
<1>1. Onward(code, from, Machine(l, a, b, pc)) = Exec(LoadK(15, x), pc, Four(l, a, b))
  BY OnwardIs
<1> QED BY <1>1, ExecPuts

LEMMA OnJmp ==
  ASSUME NEW l \in Int, NEW a \in Int, NEW b \in Int, NEW pc \in Int, NEW from \in Int, NEW code,
         NEW x \in Int, pc >= from, pc < from + Len(code), code[pc - from + 1] = Jmp(x)
  PROVE  Onward(code, from, Machine(l, a, b, pc)) = Machine(l, a, b, pc + 1 + x)
<1>1. Onward(code, from, Machine(l, a, b, pc)) = Exec(Jmp(x), pc, Four(l, a, b))
  BY OnwardIs
<1> QED BY <1>1, ExecPuts

LEMMA OnOthers ==
  ASSUME NEW l \in Int, NEW a \in Int, NEW b \in Int, NEW pc \in Int, NEW from \in Int, NEW code,
         NEW i, pc >= from, pc < from + Len(code), code[pc - from + 1] = i,
         NEW m, m = Onward(code, from, Machine(l, a, b, pc))
  PROVE  /\ i = AddOnes(8) => m = Machine(l, 2, b, pc + 1)
         /\ i = AddOnes(15) => m = Machine(l, a, 2, pc + 1)
         /\ i = EqOne(1, 7) => m = IF l = 1 THEN Machine(l, a, b, pc + 1) ELSE Machine(l, a, b, pc + 2)
         /\ i = Le(1, 7, 8) => m = IF l <= a THEN Machine(l, a, b, pc + 1) ELSE Machine(l, a, b, pc + 2)
         /\ i = Le(0, 14, 15) => m = IF l <= b THEN Machine(l, a, b, pc + 2) ELSE Machine(l, a, b, pc + 1)
<1>1. m = Exec(i, pc, Four(l, a, b))
  BY OnwardIs
<1>2. i = AddOnes(8) => m = Machine(l, 2, b, pc + 1)
  BY <1>1, ExecCompares
<1>3. i = AddOnes(15) => m = Machine(l, a, 2, pc + 1)
  BY <1>1, ExecCompares
<1>4. i = EqOne(1, 7) => m = IF l = 1 THEN Machine(l, a, b, pc + 1) ELSE Machine(l, a, b, pc + 2)
  BY <1>1, ExecCompares
<1>5. i = Le(1, 7, 8) => m = IF l <= a THEN Machine(l, a, b, pc + 1) ELSE Machine(l, a, b, pc + 2)
  BY <1>1, ExecCompares
<1>6. i = Le(0, 14, 15) => m = IF l <= b THEN Machine(l, a, b, pc + 2) ELSE Machine(l, a, b, pc + 1)
  BY <1>1, ExecCompares
<1> QED BY <1>2, <1>3, <1>4, <1>5, <1>6

\* The windows have five instructions or three.
LEMMA RunFive ==
  ASSUME NEW l \in Int, NEW code \in Seq(Instructions), NEW from \in Int, Len(code) = 5
  PROVE  \E p, q, r, s, t :
           /\ p = Onward(code, from, Machine(l, -1, -1, from)) /\ q = Onward(code, from, p)
           /\ r = Onward(code, from, q) /\ s = Onward(code, from, r)
           /\ t = Onward(code, from, s) /\ Run(code, from, Registers(l)) = t
<1>1. PICK s \in [0..Len(code) -> Machines(l)] :
        /\ s[0] = Machine(l, -1, -1, from)
        /\ \A n \in 1..Len(code) : s[n] = Onward(code, from, s[n - 1])
        /\ Run(code, from, Registers(l)) = s[Len(code)]
  BY RunIs
<1>2. /\ s[1] = Onward(code, from, s[0]) /\ s[2] = Onward(code, from, s[1])
      /\ s[3] = Onward(code, from, s[2]) /\ s[4] = Onward(code, from, s[3])
      /\ s[5] = Onward(code, from, s[4])
  BY <1>1
<1> QED BY <1>1, <1>2

LEMMA RunThree ==
  ASSUME NEW l \in Int, NEW code \in Seq(Instructions), NEW from \in Int, Len(code) = 3
  PROVE  \E p, q, r :
           /\ p = Onward(code, from, Machine(l, -1, -1, from)) /\ q = Onward(code, from, p)
           /\ r = Onward(code, from, q) /\ Run(code, from, Registers(l)) = r
<1>1. PICK s \in [0..Len(code) -> Machines(l)] :
        /\ s[0] = Machine(l, -1, -1, from)
        /\ \A n \in 1..Len(code) : s[n] = Onward(code, from, s[n - 1])
        /\ Run(code, from, Registers(l)) = s[Len(code)]
  BY RunIs
<1>2. /\ s[1] = Onward(code, from, s[0]) /\ s[2] = Onward(code, from, s[1])
      /\ s[3] = Onward(code, from, s[2])
  BY <1>1
<1> QED BY <1>1, <1>2

\* The eight windows, one after the other: what they compute at any level.
LEMMA TierSite0 ==
  ASSUME NEW l \in 1..3
  PROVE  Run(Variant54(0), 44, Registers(l)) = Machine(l, Bit(l <= 0), -1, 49)
<1> DEFINE code == Variant54(0)
<1>1. code = <<LoadBool(8, 0, 0), Jmp(0), Jmp(0), Jmp(0), Jmp(0)>>
  BY DEF Variant54
<1> HIDE DEF code
<1>2. /\ code \in Seq(Instructions) /\ Len(code) = 5
      /\ code[1] = LoadBool(8, 0, 0) /\ code[2] = Jmp(0) /\ code[3] = Jmp(0) /\ code[4] = Jmp(0) /\ code[5] = Jmp(0)
  BY <1>1, InstructionsAre, FiveOf
<1>3. PICK p, q, r, s, t :
        /\ p = Onward(code, 44, Machine(l, -1, -1, 44)) /\ q = Onward(code, 44, p)
        /\ r = Onward(code, 44, q) /\ s = Onward(code, 44, r)
        /\ t = Onward(code, 44, s) /\ Run(code, 44, Registers(l)) = t
  BY <1>2, RunFive
<1>4. p = Machine(l, 0, -1, 45)
  BY <1>2, <1>3, OnLoadBool
<1>5. q = Machine(l, 0, -1, 46)
  BY <1>2, <1>3, <1>4, OnJmp
<1>6. r = Machine(l, 0, -1, 47)
  BY <1>2, <1>3, <1>5, OnJmp
<1>7. s = Machine(l, 0, -1, 48)
  BY <1>2, <1>3, <1>6, OnJmp
<1>8. t = Machine(l, 0, -1, 49)
  BY <1>2, <1>3, <1>7, OnJmp
<1> QED BY <1>3, <1>8 DEF Bit, code

LEMMA TierSite1 ==
  ASSUME NEW l \in 1..3
  PROVE  Run(Variant54(1), 44, Registers(l)) = Machine(l, Bit(l <= 1), -1, 49)
<1> DEFINE code == Variant54(1)
<1>1. code = <<EqOne(1, 7), Jmp(1), LoadBool(8, 0, 1), LoadBool(8, 1, 0), Jmp(0)>>
  BY DEF Variant54
<1> HIDE DEF code
<1>2. /\ code \in Seq(Instructions) /\ Len(code) = 5
      /\ code[1] = EqOne(1, 7) /\ code[2] = Jmp(1) /\ code[3] = LoadBool(8, 0, 1) /\ code[4] = LoadBool(8, 1, 0) /\ code[5] = Jmp(0)
  BY <1>1, InstructionsAre, FiveOf
<1>3. PICK p, q, r, s, t :
        /\ p = Onward(code, 44, Machine(l, -1, -1, 44)) /\ q = Onward(code, 44, p)
        /\ r = Onward(code, 44, q) /\ s = Onward(code, 44, r)
        /\ t = Onward(code, 44, s) /\ Run(code, 44, Registers(l)) = t
  BY <1>2, RunFive
<1>4. CASE l = 1
  <2>1. p = Machine(l, -1, -1, 45)
    BY <1>2, <1>3, <1>4, OnOthers
  <2>2. q = Machine(l, -1, -1, 47)
    BY <1>2, <1>3, <2>1, <1>4, OnJmp
  <2>3. r = Machine(l, 1, -1, 48)
    BY <1>2, <1>3, <2>2, <1>4, OnLoadBool
  <2>4. s = Machine(l, 1, -1, 49)
    BY <1>2, <1>3, <2>3, <1>4, OnJmp
  <2>5. t = Machine(l, 1, -1, 49)
    <3>1. Onward(code, 44, Machine(l, 1, -1, 49)) = Machine(l, 1, -1, 49)
      BY <1>2, <1>4 DEF Onward, Machine
    <3> QED BY <1>3, <2>4, <3>1
  <2> QED BY <1>3, <2>5, <1>4 DEF Bit, code
<1>5. CASE l # 1
  <2>1. p = Machine(l, -1, -1, 46)
    BY <1>2, <1>3, <1>5, OnOthers
  <2>2. q = Machine(l, 0, -1, 48)
    BY <1>2, <1>3, <2>1, <1>5, OnLoadBool
  <2>3. r = Machine(l, 0, -1, 49)
    BY <1>2, <1>3, <2>2, <1>5, OnJmp
  <2>4. s = Machine(l, 0, -1, 49)
    <3>1. Onward(code, 44, Machine(l, 0, -1, 49)) = Machine(l, 0, -1, 49)
      BY <1>2, <1>5 DEF Onward, Machine
    <3> QED BY <1>3, <2>3, <3>1
  <2>5. t = Machine(l, 0, -1, 49)
    <3>1. Onward(code, 44, Machine(l, 0, -1, 49)) = Machine(l, 0, -1, 49)
      BY <1>2, <1>5 DEF Onward, Machine
    <3> QED BY <1>3, <2>4, <3>1
  <2> QED BY <1>3, <2>5, <1>5 DEF Bit, code
<1> QED BY <1>4, <1>5

LEMMA TierSite2 ==
  ASSUME NEW l \in 1..3
  PROVE  Run(Variant54(2), 44, Registers(l)) = Machine(l, Bit(l <= 2), -1, 49)
<1> DEFINE code == Variant54(2)
<1>1. code = <<AddOnes(8), Le(1, 7, 8), Jmp(1), LoadBool(8, 0, 1), LoadBool(8, 1, 0)>>
  BY DEF Variant54
<1> HIDE DEF code
<1>2. /\ code \in Seq(Instructions) /\ Len(code) = 5
      /\ code[1] = AddOnes(8) /\ code[2] = Le(1, 7, 8) /\ code[3] = Jmp(1) /\ code[4] = LoadBool(8, 0, 1) /\ code[5] = LoadBool(8, 1, 0)
  BY <1>1, InstructionsAre, FiveOf
<1>3. PICK p, q, r, s, t :
        /\ p = Onward(code, 44, Machine(l, -1, -1, 44)) /\ q = Onward(code, 44, p)
        /\ r = Onward(code, 44, q) /\ s = Onward(code, 44, r)
        /\ t = Onward(code, 44, s) /\ Run(code, 44, Registers(l)) = t
  BY <1>2, RunFive
<1>4. CASE l <= 2
  <2>1. p = Machine(l, 2, -1, 45)
    BY <1>2, <1>3, <1>4, OnOthers
  <2>2. q = Machine(l, 2, -1, 46)
    <3>1. Onward(code, 44, Machine(l, 2, -1, 45)) = Machine(l, 2, -1, 46)
      BY <1>2, <1>4, OnOthers
    <3> QED BY <1>3, <2>1, <3>1
  <2>3. r = Machine(l, 2, -1, 48)
    BY <1>2, <1>3, <2>2, <1>4, OnJmp
  <2>4. s = Machine(l, 1, -1, 49)
    BY <1>2, <1>3, <2>3, <1>4, OnLoadBool
  <2>5. t = Machine(l, 1, -1, 49)
    <3>1. Onward(code, 44, Machine(l, 1, -1, 49)) = Machine(l, 1, -1, 49)
      BY <1>2, <1>4 DEF Onward, Machine
    <3> QED BY <1>3, <2>4, <3>1
  <2> QED BY <1>3, <2>5, <1>4 DEF Bit, code
<1>5. CASE ~ (l <= 2)
  <2>1. p = Machine(l, 2, -1, 45)
    BY <1>2, <1>3, <1>5, OnOthers
  <2>2. q = Machine(l, 2, -1, 47)
    <3>1. Onward(code, 44, Machine(l, 2, -1, 45)) = Machine(l, 2, -1, 47)
      BY <1>2, <1>5, OnOthers
    <3> QED BY <1>3, <2>1, <3>1
  <2>3. r = Machine(l, 0, -1, 49)
    BY <1>2, <1>3, <2>2, <1>5, OnLoadBool
  <2>4. s = Machine(l, 0, -1, 49)
    <3>1. Onward(code, 44, Machine(l, 0, -1, 49)) = Machine(l, 0, -1, 49)
      BY <1>2, <1>5 DEF Onward, Machine
    <3> QED BY <1>3, <2>3, <3>1
  <2>5. t = Machine(l, 0, -1, 49)
    <3>1. Onward(code, 44, Machine(l, 0, -1, 49)) = Machine(l, 0, -1, 49)
      BY <1>2, <1>5 DEF Onward, Machine
    <3> QED BY <1>3, <2>4, <3>1
  <2> QED BY <1>3, <2>5, <1>5 DEF Bit, code
<1> QED BY <1>4, <1>5

LEMMA TierSite3 ==
  ASSUME NEW l \in 1..3
  PROVE  Run(Variant54(3), 44, Registers(l)) = Machine(l, Bit(l <= 3), -1, 49)
<1> DEFINE code == Variant54(3)
<1>1. code = <<LoadBool(8, 1, 0), Jmp(0), Jmp(0), Jmp(0), Jmp(0)>>
  BY DEF Variant54
<1> HIDE DEF code
<1>2. /\ code \in Seq(Instructions) /\ Len(code) = 5
      /\ code[1] = LoadBool(8, 1, 0) /\ code[2] = Jmp(0) /\ code[3] = Jmp(0) /\ code[4] = Jmp(0) /\ code[5] = Jmp(0)
  BY <1>1, InstructionsAre, FiveOf
<1>3. PICK p, q, r, s, t :
        /\ p = Onward(code, 44, Machine(l, -1, -1, 44)) /\ q = Onward(code, 44, p)
        /\ r = Onward(code, 44, q) /\ s = Onward(code, 44, r)
        /\ t = Onward(code, 44, s) /\ Run(code, 44, Registers(l)) = t
  BY <1>2, RunFive
<1>4. p = Machine(l, 1, -1, 45)
  BY <1>2, <1>3, OnLoadBool
<1>5. q = Machine(l, 1, -1, 46)
  BY <1>2, <1>3, <1>4, OnJmp
<1>6. r = Machine(l, 1, -1, 47)
  BY <1>2, <1>3, <1>5, OnJmp
<1>7. s = Machine(l, 1, -1, 48)
  BY <1>2, <1>3, <1>6, OnJmp
<1>8. t = Machine(l, 1, -1, 49)
  BY <1>2, <1>3, <1>7, OnJmp
<1> QED BY <1>3, <1>8 DEF Bit, code

LEMMA GridSite0 ==
  ASSUME NEW l \in 1..3
  PROVE  Run(Variant32(0), 86, Registers(l)) = Machine(l, -1, -1, IF l <= 0 THEN 89 ELSE 132)
<1> DEFINE code == Variant32(0)
<1>1. code = <<Jmp(45), Jmp(0), Jmp(0)>>
  BY DEF Variant32
<1> HIDE DEF code
<1>2. /\ code \in Seq(Instructions) /\ Len(code) = 3
      /\ code[1] = Jmp(45) /\ code[2] = Jmp(0) /\ code[3] = Jmp(0)
  BY <1>1, InstructionsAre, ThreeOf
<1>3. PICK p, q, r :
        /\ p = Onward(code, 86, Machine(l, -1, -1, 86)) /\ q = Onward(code, 86, p)
        /\ r = Onward(code, 86, q) /\ Run(code, 86, Registers(l)) = r
  BY <1>2, RunThree
<1>4. p = Machine(l, -1, -1, 132)
  BY <1>2, <1>3, OnJmp
<1>5. q = Machine(l, -1, -1, 132)
  BY <1>2, <1>3, <1>4 DEF Onward, Machine
<1>6. r = Machine(l, -1, -1, 132)
  BY <1>2, <1>3, <1>5 DEF Onward, Machine
<1> QED BY <1>3, <1>6 DEF Bit, code

LEMMA GridSite1 ==
  ASSUME NEW l \in 1..3
  PROVE  Run(Variant32(1), 86, Registers(l)) = Machine(l, -1, 1, IF l <= 1 THEN 89 ELSE 132)
<1> DEFINE code == Variant32(1)
<1>1. code = <<LoadK(15, 1), Le(0, 14, 15), Jmp(43)>>
  BY DEF Variant32
<1> HIDE DEF code
<1>2. /\ code \in Seq(Instructions) /\ Len(code) = 3
      /\ code[1] = LoadK(15, 1) /\ code[2] = Le(0, 14, 15) /\ code[3] = Jmp(43)
  BY <1>1, InstructionsAre, ThreeOf
<1>3. PICK p, q, r :
        /\ p = Onward(code, 86, Machine(l, -1, -1, 86)) /\ q = Onward(code, 86, p)
        /\ r = Onward(code, 86, q) /\ Run(code, 86, Registers(l)) = r
  BY <1>2, RunThree
<1>4. CASE l = 1
  <2>1. p = Machine(l, -1, 1, 87)
    BY <1>2, <1>3, <1>4, OnLoadK
  <2>2. q = Machine(l, -1, 1, 89)
    BY <1>2, <1>3, <2>1, <1>4, OnOthers
  <2>3. r = Machine(l, -1, 1, 89)
    BY <1>2, <1>3, <2>2, <1>4 DEF Onward, Machine
  <2> QED BY <1>3, <2>3, <1>4 DEF Bit, code
<1>5. CASE l # 1
  <2>1. p = Machine(l, -1, 1, 87)
    BY <1>2, <1>3, <1>5, OnLoadK
  <2>2. q = Machine(l, -1, 1, 88)
    BY <1>2, <1>3, <2>1, <1>5, OnOthers
  <2>3. r = Machine(l, -1, 1, 132)
    BY <1>2, <1>3, <2>2, <1>5, OnJmp
  <2> QED BY <1>3, <2>3, <1>5 DEF Bit, code
<1> QED BY <1>4, <1>5

LEMMA GridSite2 ==
  ASSUME NEW l \in 1..3
  PROVE  Run(Variant32(2), 86, Registers(l)) = Machine(l, -1, 2, IF l <= 2 THEN 89 ELSE 132)
<1> DEFINE code == Variant32(2)
<1>1. code = <<AddOnes(15), Le(0, 14, 15), Jmp(43)>>
  BY DEF Variant32
<1> HIDE DEF code
<1>2. /\ code \in Seq(Instructions) /\ Len(code) = 3
      /\ code[1] = AddOnes(15) /\ code[2] = Le(0, 14, 15) /\ code[3] = Jmp(43)
  BY <1>1, InstructionsAre, ThreeOf
<1>3. PICK p, q, r :
        /\ p = Onward(code, 86, Machine(l, -1, -1, 86)) /\ q = Onward(code, 86, p)
        /\ r = Onward(code, 86, q) /\ Run(code, 86, Registers(l)) = r
  BY <1>2, RunThree
<1>4. CASE l <= 2
  <2>1. p = Machine(l, -1, 2, 87)
    BY <1>2, <1>3, <1>4, OnOthers
  <2>2. q = Machine(l, -1, 2, 89)
    BY <1>2, <1>3, <2>1, <1>4, OnOthers
  <2>3. r = Machine(l, -1, 2, 89)
    BY <1>2, <1>3, <2>2, <1>4 DEF Onward, Machine
  <2> QED BY <1>3, <2>3, <1>4 DEF Bit, code
<1>5. CASE ~ (l <= 2)
  <2>1. p = Machine(l, -1, 2, 87)
    BY <1>2, <1>3, <1>5, OnOthers
  <2>2. q = Machine(l, -1, 2, 88)
    BY <1>2, <1>3, <2>1, <1>5, OnOthers
  <2>3. r = Machine(l, -1, 2, 132)
    BY <1>2, <1>3, <2>2, <1>5, OnJmp
  <2> QED BY <1>3, <2>3, <1>5 DEF Bit, code
<1> QED BY <1>4, <1>5

LEMMA GridSite3 ==
  ASSUME NEW l \in 1..3
  PROVE  Run(Variant32(3), 86, Registers(l)) = Machine(l, -1, -1, IF l <= 3 THEN 89 ELSE 132)
<1> DEFINE code == Variant32(3)
<1>1. code = <<Jmp(2), Jmp(0), Jmp(0)>>
  BY DEF Variant32
<1> HIDE DEF code
<1>2. /\ code \in Seq(Instructions) /\ Len(code) = 3
      /\ code[1] = Jmp(2) /\ code[2] = Jmp(0) /\ code[3] = Jmp(0)
  BY <1>1, InstructionsAre, ThreeOf
<1>3. PICK p, q, r :
        /\ p = Onward(code, 86, Machine(l, -1, -1, 86)) /\ q = Onward(code, 86, p)
        /\ r = Onward(code, 86, q) /\ Run(code, 86, Registers(l)) = r
  BY <1>2, RunThree
<1>4. p = Machine(l, -1, -1, 89)
  BY <1>2, <1>3, OnJmp
<1>5. q = Machine(l, -1, -1, 89)
  BY <1>2, <1>3, <1>4 DEF Onward, Machine
<1>6. r = Machine(l, -1, -1, 89)
  BY <1>2, <1>3, <1>5 DEF Onward, Machine
<1> QED BY <1>3, <1>6 DEF Bit, code

LEMMA MachineIs ==
  ASSUME NEW l \in Int, NEW a \in Int, NEW b \in Int, NEW pc
  PROVE  /\ Machine(l, a, b, pc).pc = pc /\ Machine(l, a, b, pc).reg[7] = l
         /\ Machine(l, a, b, pc).reg[8] = a /\ Machine(l, a, b, pc).reg[14] = l
BY FourIs DEF Machine

LEMMA VariantsHold == VariantsCompute
<1> SUFFICES ASSUME NEW n \in 0..4, NEW level \in 1..3
             PROVE  LET a == Run(Variant54(n), 44, Registers(level))
                        b == Run(Variant32(n), 86, Registers(level))
                    IN  /\ a.pc = 49 /\ a.reg[8] = Bit(level <= n) /\ a.reg[7] = level
                        /\ b.pc = (IF level <= n THEN 89 ELSE 132) /\ b.reg[14] = level
  BY DEF VariantsCompute, MaxLevel
<1> DEFINE a == Run(Variant54(n), 44, Registers(level))
           b == Run(Variant32(n), 86, Registers(level))
           k == IF n = 4 THEN 3 ELSE n
<1>1. Variant54(n) = Variant54(k) /\ Variant32(n) = Variant32(k)
  BY DEF Variant54, Variant32
<1>2. k \in 0..3 /\ (level <= n <=> level <= k)
  OBVIOUS
<1> HIDE DEF k
<1>3. a = Machine(level, Bit(level <= k), -1, 49)
  BY <1>1, <1>2, TierSite0, TierSite1, TierSite2, TierSite3
<1>4. \E x \in Int : b = Machine(level, -1, x, IF level <= k THEN 89 ELSE 132)
  <2>1. -1 \in Int
    OBVIOUS
  <2> QED BY <1>1, <1>2, <2>1, GridSite0, GridSite1, GridSite2, GridSite3
<1>5. a.pc = 49 /\ a.reg[8] = Bit(level <= n) /\ a.reg[7] = level
  <2>1. Bit(level <= k) \in Int /\ -1 \in Int /\ Bit(level <= k) = Bit(level <= n)
    BY <1>2 DEF Bit
  <2> HIDE DEF a
  <2> QED BY <1>3, <2>1, MachineIs
<1>6. b.pc = (IF level <= n THEN 89 ELSE 132) /\ b.reg[14] = level
  <2>1. -1 \in Int
    OBVIOUS
  <2> HIDE DEF b
  <2>2. PICK x \in Int : b = Machine(level, -1, x, IF level <= k THEN 89 ELSE 132)
    BY <1>4
  <2> DEFINE pc == IF level <= k THEN 89 ELSE 132
  <2>3. b = Machine(level, -1, x, pc)
    BY <2>2
  <2> HIDE DEF pc
  <2>4. b.pc = pc /\ b.reg[14] = level
    BY <2>1, <2>3, MachineIs
  <2> QED BY <1>2, <2>4 DEF pc
<1> QED BY <1>5, <1>6

-----------------------------------------------------------------------------
(* The theorem about the patched functions                                 *)

\* For any number of places in the heap, any pause between two scans and
\* histories of any length, with copies left over from earlier loads and writes
\* that fail: the replaced instructions compute what the items say; some ticks
\* later the code that runs is the replaced one, unless the last write to it
\* failed, and a regular exit leaves it as it was loaded; for the terrain tools
\* as long as no client ends without putting the code back and no copy is freed
\* while another runs (TerrainGate.reconcile, ExhibitEnrichmentGate.reconcile
\* and their shutdown).  It is assumed that a load overwrites the copy that ran
\* and reuses none of the places that the client knows.
THEOREM PatchesAlwaysHold == ASSUME PatchRaces = {} PROVE Spec => []PatchesHold
<1>1. PatchesHold
  BY TiersHold, ToolsHold, VariantsHold DEF PatchesHold, Applies
<1> QED BY <1>1, PTL
-----------------------------------------------------------------------------
(* The rewards (ContentRewards): parks that events lead to                 *)

\* What a park and the client can hold of contents, and the whole as a record.
ParkRecords ==
  [interned : SUBSET Contents, map : SUBSET Contents, byte : SUBSET Contents,
   counter : Nat, rate : [Animals -> Nat], tiers : [Animals -> Nat],
   panel : [Animals -> Nat], done : SUBSET Contents, index : SUBSET Contents,
   count : Nat, named : SUBSET Contents, copies : [Families -> Nat]]

ParkOf(i, m, b, k, r, t, l, d, x, n, s, o) ==
  [interned |-> i, map |-> m, byte |-> b, counter |-> k, rate |-> r, tiers |-> t,
   panel |-> l, done |-> d, index |-> x, count |-> n, named |-> s, copies |-> o]

\* A snapshot with the names x, made at n records of a map that now is m, is of
\* another client or has all names if the map is no larger than it was.
Counted(n, m, x) == \/ n = Cardinality(Contents) + 1
                    \/ n <= Cardinality(m) /\ (n = Cardinality(m) => x = m)

Parks ==
  {p \in ParkRecords :
     /\ p.interned = p.map /\ p.index \subseteq p.map
     /\ Counted(p.count, p.map, p.index)}

\* What the proofs need of the constants; every set of contents is finite.
LEMMA RewardConstants ==
  /\ IsFiniteSet(Contents) /\ RewardRounds \in Nat /\ Late \subseteq Contents
  /\ FamilyOf \in [Contents -> Families \cup {"named", "free"}]
  /\ LevelOf \in [Contents -> Nat] /\ \A c \in Contents : AnimalOf[c] \in Animals
BY RewardsAssumption DEF RewardsAssumption, Animals

LEMMA ContentsFinite ==
  \A S \in SUBSET Contents :
    /\ IsFiniteSet(S) /\ Cardinality(S) \in Nat
    /\ Cardinality(S) < Cardinality(Contents) + 1
<1> SUFFICES ASSUME NEW S \in SUBSET Contents
             PROVE  /\ IsFiniteSet(S) /\ Cardinality(S) \in Nat
                    /\ Cardinality(S) < Cardinality(Contents) + 1
  OBVIOUS
<1>1. IsFiniteSet(Contents)
  BY RewardConstants
<1>2. IsFiniteSet(S) /\ Cardinality(S) <= Cardinality(Contents)
  BY <1>1, FS_Subset
<1>3. Cardinality(S) \in Nat /\ Cardinality(Contents) \in Nat
  BY <1>1, <1>2, FS_CardinalityType
<1> QED BY <1>2, <1>3

\* A bounded set of numbers has a largest.
LEMMA LargestOf ==
  ASSUME NEW S \in SUBSET Nat, S # {}, NEW b \in Nat, \A n \in S : n <= b
  PROVE  Max(S) \in S /\ \A n \in S : n <= Max(S)
<1> DEFINE U == {u \in Nat : \A n \in S : n <= u}
<1>1. U \in SUBSET Nat /\ U # {}
  OBVIOUS
<1>2. PICK u \in U : \A v \in U : u <= v
  <2> HIDE DEF U
  <2> QED BY <1>1, FirstNumber
<1>3. u \in Nat /\ \A n \in S : n <= u /\ n \in Nat
  BY <1>2
<1>4. u \in S
  <2>1. CASE u = 0
    <3>1. PICK n : n \in S
      OBVIOUS
    <3> QED BY <1>3, <2>1, <3>1
  <2>2. CASE u # 0
    <3>1. u - 1 \in Nat /\ u - 1 \notin U
      BY <1>2, <1>3, <2>2
    <3>2. PICK n \in S : ~(n <= u - 1)
      BY <3>1
    <3>3. n = u
      BY <1>3, <3>1, <3>2
    <3> QED BY <3>3
  <2> QED BY <2>1, <2>2
<1>5. \E x \in S : \A y \in S : x >= y
  BY <1>3, <1>4
<1>6. Max(S) \in S /\ \A y \in S : Max(S) >= y
  BY <1>5 DEF Max
<1> QED BY <1>3, <1>6

LEMMA LevelsBounded == \E b \in Nat : \A c \in Contents : LevelOf[c] <= b
<1> DEFINE N == Cardinality(Contents)
<1>1. N \in Nat /\ 0 \in Nat /\ ExistsBijection(1..N, Contents)
  BY RewardConstants, FS_CardinalityType
<1>2. PICK f \in [1..N -> Contents] : \A c \in Contents : \E n \in 1..N : f[n] = c
  BY <1>1 DEF ExistsBijection, Bijection, Surjection
<1> HIDE DEF N
<1> DEFINE P == {n \in 0..N : \E b \in Nat : \A i \in 1..n : LevelOf[f[i]] <= b}
<1>3. 0 \in P
  BY <1>1
<1>4. ASSUME NEW n \in (0 + 1)..N, n - 1 \in P PROVE n \in P
  <2>1. PICK b \in Nat : \A i \in 1..(n - 1) : LevelOf[f[i]] <= b
    BY <1>4
  <2>2. n \in 1..N /\ n \in 0..N /\ \A i \in 1..N : LevelOf[f[i]] \in Nat
    BY <1>1, <1>2, RewardConstants
  <2>3. \A i \in 1..n : i \in 1..(n - 1) \/ i = n
    BY <1>1
  <2> DEFINE b2 == IF LevelOf[f[n]] <= b THEN b ELSE LevelOf[f[n]]
  <2>4. b2 \in Nat /\ b <= b2 /\ LevelOf[f[n]] <= b2
    BY <2>2
  <2>5. ASSUME NEW i \in 1..n PROVE LevelOf[f[i]] <= b2
    <3>1. CASE i = n
      BY <2>4, <3>1
    <3>2. CASE i \in 1..(n - 1)
      <4>1. LevelOf[f[i]] <= b /\ LevelOf[f[i]] \in Nat
        BY <1>1, <2>1, <2>2, <3>2
      <4> HIDE DEF b2
      <4> QED BY <2>4, <4>1
    <3> QED BY <2>3, <3>1, <3>2
  <2> QED BY <2>2, <2>4, <2>5
<1> HIDE DEF P
<1>5. N \in P
  <2>1. \A n \in 0..N : n \in P
    BY <1>1, <1>3, <1>4, OneByOne
  <2> QED BY <1>1, <2>1
<1> QED BY <1>2, <1>5 DEF P

-----------------------------------------------------------------------------
(* The rewards: what unlocking changes                                     *)

\* What stays when bytes change.
Untouched(p, q) ==
  /\ q.interned = p.interned /\ q.map = p.map /\ q.panel = p.panel /\ q.done = p.done
  /\ q.index = p.index /\ q.count = p.count /\ q.named = p.named /\ q.copies = p.copies

LEMMA UntouchedPark ==
  ASSUME NEW p \in Parks, NEW q \in ParkRecords, Untouched(p, q)
  PROVE  q \in Parks
BY DEF Parks, Counted, Untouched

\* The best level that a set of contents brings to a species.
LEMMA BestIs ==
  ASSUME NEW S \in SUBSET Contents
  PROVE  /\ Max({0} \cup {15 * LevelOf[c] : c \in S}) \in Nat
         /\ S = {} => Max({0} \cup {15 * LevelOf[c] : c \in S}) = 0
<1> DEFINE T == {0} \cup {15 * LevelOf[c] : c \in S}
<1>1. PICK b \in Nat : \A c \in Contents : LevelOf[c] <= b
  BY LevelsBounded
<1>2. \A c \in S : LevelOf[c] \in Nat /\ LevelOf[c] <= b
  BY <1>1, RewardConstants
<1>3. \A n \in T : n \in Nat /\ n <= 15 * b
  BY <1>2
<1>4. 0 \in T /\ 15 * b \in Nat /\ (S = {} => T = {0})
  OBVIOUS
<1> HIDE DEF T
<1>5. Max(T) \in T
  BY <1>3, <1>4, LargestOf
<1> QED BY <1>3, <1>4, <1>5 DEF T

\* What the bookkeeping touches.
LEMMA BookkeepIs ==
  ASSUME NEW p \in ParkRecords, NEW set \in SUBSET Contents, NEW q, q = Bookkeep(p, set)
  PROVE  /\ q \in ParkRecords /\ Untouched(p, q) /\ q.byte = p.byte
         /\ Of("education", set) = {} => q.counter = p.counter
         /\ \A a \in Animals :
              /\ (\A c \in Of("supplement", set) : AnimalOf[c] # a) => q.tiers[a] = p.tiers[a]
              /\ (\A c \in Of("breeding", set) : AnimalOf[c] # a) => q.rate[a] = p.rate[a]
<1> DEFINE k == Cardinality(Of("education", set))
           T(a) == {c \in Of("supplement", set) : AnimalOf[c] = a}
           B(a) == {d \in Of("breeding", set) : AnimalOf[d] = a}
           best(a) == Max({0} \cup {15 * LevelOf[c] : c \in B(a)})
           t == [a \in Animals |-> p.tiers[a] + Cardinality(T(a))]
           r == [a \in Animals |-> GreaterOf(p.rate[a], best(a))]
<1>1. k \in Nat /\ (Of("education", set) = {} => k = 0)
  <2>1. Of("education", set) \in SUBSET Contents
    BY DEF Of
  <2> QED BY <2>1, ContentsFinite, FS_EmptySet
<1>2. \A a \in Animals : /\ Cardinality(T(a)) \in Nat
                         /\ T(a) = {} => Cardinality(T(a)) = 0
  <2>1. \A a \in Animals : T(a) \in SUBSET Contents
    BY DEF Of
  <2> HIDE DEF T
  <2> QED BY <2>1, ContentsFinite, FS_EmptySet
<1>3. \A a \in Animals : best(a) \in Nat /\ (B(a) = {} => best(a) = 0)
  <2>1. \A a \in Animals : B(a) \in SUBSET Contents
    BY DEF Of
  <2> HIDE DEF B
  <2> QED BY <2>1, BestIs
<1>4. /\ p.counter \in Nat /\ p.tiers \in [Animals -> Nat] /\ p.rate \in [Animals -> Nat]
      /\ p.panel \in [Animals -> Nat] /\ p.copies \in [Families -> Nat] /\ p.count \in Nat
      /\ p.interned \in SUBSET Contents /\ p.map \in SUBSET Contents
      /\ p.byte \in SUBSET Contents /\ p.done \in SUBSET Contents
      /\ p.index \in SUBSET Contents /\ p.named \in SUBSET Contents
  BY DEF ParkRecords
<1>5. q = [p EXCEPT !.counter = p.counter + k, !.tiers = t, !.rate = r]
  BY Zenon DEF Bookkeep
<1>6. /\ t \in [Animals -> Nat]
      /\ \A a \in Animals : T(a) = {} => t[a] = p.tiers[a]
  <2> HIDE DEF T
  <2>1. \A a \in Animals : p.tiers[a] + Cardinality(T(a)) \in Nat
    BY <1>2, <1>4
  <2> QED BY <1>2, <1>4, <2>1
<1>7. /\ r \in [Animals -> Nat]
      /\ \A a \in Animals : B(a) = {} => r[a] = p.rate[a]
  <2> HIDE DEF best, B
  <2>1. \A a \in Animals : /\ GreaterOf(p.rate[a], best(a)) \in Nat
                           /\ best(a) = 0 => GreaterOf(p.rate[a], best(a)) = p.rate[a]
    BY <1>3, <1>4 DEF GreaterOf
  <2> QED BY <1>3, <1>4, <2>1
<1> HIDE DEF k, t, r
<1>8. /\ q.counter = p.counter + k /\ q.tiers = t /\ q.rate = r /\ q.byte = p.byte
      /\ Untouched(p, q)
  BY <1>5 DEF ParkRecords, Untouched
<1>9. q \in ParkRecords
  <2>1. p.counter + k \in Nat
    BY <1>1, <1>4
  <2>2. p = ParkOf(p.interned, p.map, p.byte, p.counter, p.rate, p.tiers, p.panel, p.done,
                   p.index, p.count, p.named, p.copies)
    BY DEF ParkRecords, ParkOf
  <2>3. q = ParkOf(p.interned, p.map, p.byte, p.counter + k, r, t, p.panel, p.done,
                   p.index, p.count, p.named, p.copies)
    BY <1>5, <2>2 DEF ParkOf
  <2> QED BY <1>4, <1>6, <1>7, <2>1, <2>3 DEF ParkRecords, ParkOf
<1> QED BY <1>1, <1>4, <1>6, <1>7, <1>8, <1>9

\* The effects that have nothing to do with a set of contents stay.
Spared(p, q, S) ==
  /\ Of("education", S) = {} => q.counter = p.counter
  /\ \A a \in Animals :
       /\ (\A c \in Of("supplement", S) : AnimalOf[c] # a) => q.tiers[a] = p.tiers[a]
       /\ (\A c \in Of("breeding", S) : AnimalOf[c] # a) => q.rate[a] = p.rate[a]

LEMMA SparedMore ==
  ASSUME NEW p, NEW q, NEW S, NEW T, S \subseteq T, Spared(p, q, S)
  PROVE  Spared(p, q, T)
<1>1. \A family : Of(family, S) \subseteq Of(family, T)
  BY DEF Of
<1>2. Of("education", T) = {} => Of("education", S) = {}
  BY <1>1
<1>3. \A c : /\ c \in Of("supplement", S) => c \in Of("supplement", T)
             /\ c \in Of("breeding", S) => c \in Of("breeding", T)
  BY <1>1
<1> QED BY <1>2, <1>3, Zenon DEF Spared

\* A byte of a park is set to another value, or its index.
LEMMA ByteSet ==
  ASSUME NEW p \in ParkRecords, NEW b \in SUBSET Contents, NEW q, q = [p EXCEPT !.byte = b]
  PROVE  /\ q \in ParkRecords /\ Untouched(p, q) /\ q.byte = b
         /\ q.counter = p.counter /\ q.tiers = p.tiers /\ q.rate = p.rate
<1>1. p = ParkOf(p.interned, p.map, p.byte, p.counter, p.rate, p.tiers, p.panel, p.done,
                 p.index, p.count, p.named, p.copies)
  BY DEF ParkRecords, ParkOf
<1>2. q = ParkOf(p.interned, p.map, b, p.counter, p.rate, p.tiers, p.panel, p.done,
                 p.index, p.count, p.named, p.copies)
  BY <1>1 DEF ParkOf
<1>3. /\ q.counter = p.counter /\ q.tiers = p.tiers /\ q.rate = p.rate /\ q.byte = b
      /\ Untouched(p, q)
  BY <1>2 DEF ParkOf, Untouched
<1> QED BY <1>2, <1>3 DEF ParkRecords, ParkOf

\* Flipping, and the gate of a set of records of the map.
LEMMA FlipIs ==
  ASSUME NEW p \in Parks, NEW set \in SUBSET Contents, NEW q, q = Flip(p, set)
  PROVE  /\ q \in Parks /\ Untouched(p, q) /\ q.byte = p.byte \cup (set \cap p.map)
         /\ Spared(p, q, set \cap p.map)
<1> DEFINE new == (set \cap p.map) \ p.byte
           r == Bookkeep(p, new)
<1>1. p \in ParkRecords /\ p.byte \in SUBSET Contents /\ new \in SUBSET Contents
      /\ new \subseteq set \cap p.map
  BY DEF Parks, Counted, ParkRecords
<1>2. /\ r \in ParkRecords /\ Untouched(p, r) /\ r.byte = p.byte
      /\ Spared(p, r, new)
  <2> HIDE DEF new
  <2> QED BY <1>1, BookkeepIs DEF Spared
<1>3. q = [r EXCEPT !.byte = r.byte \cup new]
  BY DEF Flip
<1>4. r.byte \cup new = p.byte \cup (set \cap p.map) /\ r.byte \cup new \in SUBSET Contents
  BY <1>1, <1>2
<1> HIDE DEF r, new
<1>5. /\ q \in ParkRecords /\ Untouched(r, q) /\ q.byte = r.byte \cup new
      /\ q.counter = r.counter /\ q.tiers = r.tiers /\ q.rate = r.rate
  BY <1>2, <1>3, <1>4, ByteSet
<1>6. Untouched(p, q)
  BY <1>2, <1>5 DEF Untouched
<1>7. Spared(p, q, new)
  BY <1>2, <1>5 DEF Spared
<1> QED BY <1>1, <1>4, <1>5, <1>6, <1>7, SparedMore, UntouchedPark

LEMMA GateIs ==
  ASSUME NEW p \in Parks, NEW gated \in SUBSET p.map, NEW wanted \in SUBSET Contents,
         NEW q, q = ApplyRewardGate(p, gated, wanted)
  PROVE  /\ q \in Parks /\ Untouched(p, q)
         /\ q.byte = (p.byte \ gated) \cup (gated \cap wanted)
         /\ Spared(p, q, gated)
<1> DEFINE r == Flip(p, gated \cap wanted)
<1>1. gated \cap wanted \in SUBSET Contents /\ (gated \cap wanted) \cap p.map = gated \cap wanted
  OBVIOUS
<1>2. /\ r \in Parks /\ Untouched(p, r) /\ r.byte = p.byte \cup (gated \cap wanted)
      /\ Spared(p, r, gated \cap wanted)
  <2>1. /\ r \in Parks /\ Untouched(p, r)
        /\ r.byte = p.byte \cup ((gated \cap wanted) \cap p.map)
        /\ Spared(p, r, (gated \cap wanted) \cap p.map)
    BY <1>1, FlipIs
  <2> HIDE DEF r
  <2> QED BY <1>1, <2>1
<1>3. q = [r EXCEPT !.byte = r.byte \ (gated \ wanted)]
  BY DEF ApplyRewardGate
<1> HIDE DEF r
<1>4. r \in ParkRecords /\ r.byte \in SUBSET Contents
  BY <1>2 DEF Parks, Counted, ParkRecords
<1>5. /\ q \in ParkRecords /\ Untouched(r, q) /\ q.byte = r.byte \ (gated \ wanted)
      /\ q.counter = r.counter /\ q.tiers = r.tiers /\ q.rate = r.rate
  <2>1. r.byte \ (gated \ wanted) \in SUBSET Contents
    BY <1>4
  <2> QED BY <1>3, <1>4, <2>1, ByteSet
<1>6. Untouched(p, q)
  BY <1>2, <1>5 DEF Untouched
<1>7. Spared(p, q, gated)
  <2>1. Spared(p, q, gated \cap wanted)
    BY <1>2, <1>5 DEF Spared
  <2> QED BY <2>1, SparedMore
<1>8. q.byte = (p.byte \ gated) \cup (gated \cap wanted)
  BY <1>2, <1>5
<1> QED BY <1>2, <1>5, <1>6, <1>7, <1>8, UntouchedPark

\* A park whose names the client has all seen.
Seen(p) == p \in Parks /\ p.index = p.map /\ p.count = Cardinality(p.map)

\* What a tick never touches.
Kept(p, q) == q.map = p.map /\ q.done = p.done /\ q.named = p.named /\ q.copies = p.copies

\* The parts of a park.
LEMMA ParkIs ==
  ASSUME NEW p \in Parks
  PROVE  /\ p \in ParkRecords /\ p.interned = p.map /\ p.index \subseteq p.map
         /\ p.map \in SUBSET Contents /\ p.byte \in SUBSET Contents /\ p.count \in Nat
         /\ p.index \in SUBSET Contents /\ p.named \in SUBSET Contents
         /\ p.done \in SUBSET Contents /\ p.copies \in [Families -> Nat] /\ p.counter \in Nat
         /\ p.rate \in [Animals -> Nat] /\ p.tiers \in [Animals -> Nat]
         /\ p.panel \in [Animals -> Nat]
         /\ p = ParkOf(p.map, p.map, p.byte, p.counter, p.rate, p.tiers, p.panel, p.done,
                       p.index, p.count, p.named, p.copies)
<1>1. p \in ParkRecords /\ p.interned = p.map
  BY DEF Parks, Counted
<1> QED BY <1>1 DEF Parks, Counted, ParkRecords, ParkOf

\* After a refresh the client has seen all names.
LEMMA RefreshIs ==
  ASSUME NEW p \in Parks, NEW q, q = MaybeRefresh(p)
  PROVE  /\ Seen(q) /\ Kept(p, q) /\ q.byte = p.byte /\ q.panel = p.panel
         /\ q.counter = p.counter /\ q.tiers = p.tiers /\ q.rate = p.rate
<1>1. Cardinality(p.map) \in Nat /\ Cardinality(p.map) < Cardinality(Contents) + 1
  BY ParkIs, ContentsFinite
<1>2. q = ParkOf(p.map, p.map, p.byte, p.counter, p.rate, p.tiers, p.panel, p.done,
                 p.map, Cardinality(p.map), p.named, p.copies)
  <2>1. CASE Cardinality(p.map) # p.count
    <3>1. q = [[p EXCEPT !.index = p.interned] EXCEPT !.count = Cardinality(p.map)]
      BY <2>1 DEF MaybeRefresh, Snapshot
    <3> QED BY <3>1, ParkIs, ZenonT(60) DEF ParkOf
  <2>2. CASE Cardinality(p.map) = p.count
    <3>1. q = p /\ p.index = p.map
      BY <1>1, <2>2 DEF MaybeRefresh, Parks, Counted
    <3>2. q = ParkOf(p.map, p.map, p.byte, p.counter, p.rate, p.tiers, p.panel, p.done,
                     p.index, p.count, p.named, p.copies)
      BY <3>1, ParkIs
    <3> QED BY <2>2, <3>1, <3>2
  <2> QED BY <2>1, <2>2
<1>3. /\ q.index = p.map /\ q.count = Cardinality(p.map) /\ q.map = p.map /\ q.interned = p.map
      /\ q.done = p.done /\ q.named = p.named /\ q.copies = p.copies
      /\ q.byte = p.byte /\ q.panel = p.panel
      /\ q.counter = p.counter /\ q.tiers = p.tiers /\ q.rate = p.rate
  BY <1>2 DEF ParkOf
<1>4. q \in ParkRecords
  BY <1>1, <1>2, ParkIs DEF ParkRecords, ParkOf
<1>5. q \in Parks
  BY <1>1, <1>3, <1>4 DEF Parks, Counted
<1> QED BY <1>3, <1>5 DEF Seen, Kept

-----------------------------------------------------------------------------
(* The rewards: the stages of a tick                                       *)

\* The bytes of a family, and what the levels received unlock of it.
LevelBytes(p, family) ==
  LET L == Of(family, p.map)
  IN  (p.byte \ L) \cup {c \in L : LevelOf[c] <= p.copies[family]}

\* The contents that have items of their own.
LEMMA NamedStage ==
  ASSUME NEW p \in Parks, NEW q, q = ReconcileNamed(p)
  PROVE  /\ Seen(q) /\ Kept(p, q) /\ q.panel = p.panel
         /\ q.byte = (p.byte \ Of("named", p.map)) \cup (Of("named", p.map) \cap p.named)
         /\ q.counter = p.counter /\ q.tiers = p.tiers /\ q.rate = p.rate
<1> DEFINE r == MaybeRefresh(p)
           gated == Of("named", p.map)
<1>1. /\ Seen(r) /\ Kept(p, r) /\ r.byte = p.byte /\ r.panel = p.panel
      /\ r.counter = p.counter /\ r.tiers = p.tiers /\ r.rate = p.rate
  BY RefreshIs
<1>2. q = ApplyRewardGate(r, Of("named", r.index), p.named)
  BY DEF ReconcileNamed
<1> HIDE DEF r
<1>3. r \in Parks /\ r.map = p.map /\ r.index = r.map /\ p.named \in SUBSET Contents
  BY <1>1, ParkIs DEF Seen, Kept
<1>4. gated \in SUBSET r.map /\ Of("named", r.index) = gated
  BY <1>3 DEF Of
<1>5. /\ Of("education", gated) = {} /\ Of("supplement", gated) = {}
      /\ Of("breeding", gated) = {}
  BY DEF Of
<1> HIDE DEF gated
<1>6. /\ q \in Parks /\ Untouched(r, q) /\ Spared(r, q, gated)
      /\ q.byte = (r.byte \ gated) \cup (gated \cap p.named)
  <2>1. q = ApplyRewardGate(r, gated, p.named)
    BY <1>2, <1>4
  <2> QED BY <1>3, <1>4, <2>1, GateIs
<1>7. /\ q.counter = r.counter
      /\ \A a \in Animals : q.tiers[a] = r.tiers[a] /\ q.rate[a] = r.rate[a]
  BY <1>5, <1>6 DEF Spared
<1>8. q.tiers = r.tiers /\ q.rate = r.rate
  <2>1. /\ q.tiers \in [Animals -> Nat] /\ q.rate \in [Animals -> Nat]
        /\ r.tiers \in [Animals -> Nat] /\ r.rate \in [Animals -> Nat]
    BY <1>3, <1>6, ParkIs
  <2> QED BY <1>7, <2>1
<1> QED BY <1>1, <1>6, <1>7, <1>8 DEF Seen, Kept, Untouched, gated

\* The gate of a family.
LEMMA LevelGate ==
  ASSUME NEW p, Seen(p), NEW family \in Families, NEW L, L = Of(family, p.map),
         NEW r, r = ApplyRewardGate(p, L, {c \in L : LevelOf[c] <= p.copies[family]})
  PROVE  /\ r \in Parks /\ Untouched(p, r) /\ r.byte = LevelBytes(p, family) /\ Spared(p, r, L)
<1> DEFINE wanted == {c \in L : LevelOf[c] <= p.copies[family]}
<1>1. p \in Parks /\ p.map \in SUBSET Contents
  BY ParkIs DEF Seen
<1>2. L \in SUBSET p.map /\ wanted \in SUBSET Contents /\ L \cap wanted = wanted
  BY <1>1 DEF Of
<1>3. LevelBytes(p, family) = (p.byte \ L) \cup wanted
  BY DEF LevelBytes
<1>4. r = ApplyRewardGate(p, L, wanted)
  OBVIOUS
<1>5. PICK w : w = wanted
  OBVIOUS
<1>6. r = ApplyRewardGate(p, L, w) /\ w \in SUBSET Contents
  BY <1>2, <1>4, <1>5
<1> HIDE DEF wanted
<1>7. /\ r \in Parks /\ Untouched(p, r) /\ r.byte = (p.byte \ L) \cup (L \cap w)
      /\ Spared(p, r, L)
  <2>1. \A g \in SUBSET p.map : \A x : x = ApplyRewardGate(p, g, w) =>
          /\ x \in Parks /\ Untouched(p, x) /\ x.byte = (p.byte \ g) \cup (g \cap w)
          /\ Spared(p, x, g)
    BY <1>1, <1>6, GateIs
  <2> QED BY <1>2, <1>6, <2>1
<1> QED BY <1>2, <1>3, <1>5, <1>7

\* What a stage does: the gate and the effects, if there is a level at all.
Gated(p, family) ==
  LET L == Of(family, p.map)
  IN  ApplyRewardGate(p, L, {c \in L : LevelOf[c] <= p.copies[family]})

LEMMA LevelStage ==
  ASSUME NEW p, Seen(p), NEW family
  PROVE  ReconcileLevels(p, family) =
           IF Of(family, p.map) = {} THEN p
           ELSE IF family = "education"
           THEN SyncEducationLevels(SyncEducationCounter(
                  SyncEffects(Gated(p, family), family, Of(family, p.map))))
           ELSE SyncEffects(Gated(p, family), family, Of(family, p.map))
<1>1. p.index = p.map /\ p.count = Cardinality(p.map)
  BY DEF Seen
<1>2. MaybeRefresh(p) = p
  BY <1>1 DEF MaybeRefresh
<1> QED BY <1>1, <1>2 DEF ReconcileLevels, LevelMap, Gated

\* Without a level of the family there is nothing to do.
LEMMA NoLevels ==
  ASSUME NEW p, NEW family, Of(family, p.map) = {}
  PROVE  LevelBytes(p, family) = p.byte /\ \A a \in Animals : ~HasLevels(p, family, a)
BY DEF LevelBytes, HasLevels

\* What leaves the map and the snapshot alone.
LEMMA SeenKept ==
  ASSUME NEW p, Seen(p), NEW q \in Parks, Untouched(p, q)
  PROVE  Seen(q) /\ Kept(p, q)
BY DEF Seen, Kept, Untouched

\* The four families.  The enrichment of exhibits has no effect but its bytes.
LEMMA ExhibitStage ==
  ASSUME NEW p, Seen(p), NEW q, q = ReconcileLevels(p, "exhibit_enrichment")
  PROVE  /\ Seen(q) /\ Kept(p, q) /\ q.byte = LevelBytes(p, "exhibit_enrichment")
         /\ q.panel = p.panel /\ q.counter = p.counter /\ q.tiers = p.tiers /\ q.rate = p.rate
<1> DEFINE f == "exhibit_enrichment"
           L == Of(f, p.map)
           r == Gated(p, f)
<1>1. f \in Families /\ f # "education"
  BY DEF Families
<1>2. /\ r \in Parks /\ Untouched(p, r) /\ r.byte = LevelBytes(p, f) /\ Spared(p, r, L)
  BY <1>1, LevelGate DEF Gated
<1>3. /\ Of("education", L) = {} /\ Of("supplement", L) = {} /\ Of("breeding", L) = {}
  BY DEF Of
<1>4. q = IF L = {} THEN p ELSE SyncEffects(r, f, L)
  <2>1. ReconcileLevels(p, f) =
          IF L = {} THEN p
          ELSE IF f = "education"
          THEN SyncEducationLevels(SyncEducationCounter(SyncEffects(r, f, L)))
          ELSE SyncEffects(r, f, L)
    BY LevelStage
  <2> QED BY <1>1, <2>1
<1>5. SyncEffects(r, f, L) = r
  BY DEF SyncEffects
<1>6. L = {} => LevelBytes(p, f) = p.byte
  BY NoLevels
<1> HIDE DEF r, L, f
<1>7. /\ r.counter = p.counter
      /\ \A a \in Animals : r.tiers[a] = p.tiers[a] /\ r.rate[a] = p.rate[a]
  BY <1>2, <1>3 DEF Spared
<1>8. r.tiers = p.tiers /\ r.rate = p.rate
  <2>1. p \in Parks
    BY DEF Seen
  <2>2. /\ p.tiers \in [Animals -> Nat] /\ p.rate \in [Animals -> Nat]
        /\ r.tiers \in [Animals -> Nat] /\ r.rate \in [Animals -> Nat]
    BY <1>2, <2>1, ParkIs
  <2> QED BY <1>7, <2>2
<1>9. CASE L = {}
  <2>1. q = p
    BY <1>4, <1>9
  <2> QED BY <1>6, <1>9, <2>1 DEF Kept, f
<1>10. CASE L # {}
  <2>1. q = r
    BY <1>4, <1>5, <1>10
  <2>2. Seen(r) /\ Kept(p, r) /\ r.panel = p.panel
    BY <1>2, SeenKept DEF Untouched
  <2> QED BY <1>2, <1>7, <1>8, <2>1, <2>2 DEF f
<1> QED BY <1>9, <1>10

\* An effect of a park is set to another value.
LEMMA EffectSet ==
  ASSUME NEW p \in ParkRecords, NEW e \in [Animals -> Nat]
  PROVE  /\ \A q : q = [p EXCEPT !.rate = e] =>
              /\ q \in ParkRecords /\ Untouched(p, q) /\ q.rate = e
              /\ q.byte = p.byte /\ q.counter = p.counter /\ q.tiers = p.tiers
         /\ \A q : q = [p EXCEPT !.tiers = e] =>
              /\ q \in ParkRecords /\ Untouched(p, q) /\ q.tiers = e
              /\ q.byte = p.byte /\ q.counter = p.counter /\ q.rate = p.rate
<1>1. p = ParkOf(p.interned, p.map, p.byte, p.counter, p.rate, p.tiers, p.panel, p.done,
                 p.index, p.count, p.named, p.copies)
  BY DEF ParkRecords, ParkOf
<1>2. ASSUME NEW q, q = [p EXCEPT !.rate = e]
      PROVE  /\ q \in ParkRecords /\ Untouched(p, q) /\ q.rate = e
             /\ q.byte = p.byte /\ q.counter = p.counter /\ q.tiers = p.tiers
  <2>1. q = ParkOf(p.interned, p.map, p.byte, p.counter, e, p.tiers, p.panel, p.done,
                   p.index, p.count, p.named, p.copies)
    BY <1>1, <1>2 DEF ParkOf
  <2> QED BY <2>1 DEF ParkRecords, ParkOf, Untouched
<1>3. ASSUME NEW q, q = [p EXCEPT !.tiers = e]
      PROVE  /\ q \in ParkRecords /\ Untouched(p, q) /\ q.tiers = e
             /\ q.byte = p.byte /\ q.counter = p.counter /\ q.rate = p.rate
  <2>1. q = ParkOf(p.interned, p.map, p.byte, p.counter, p.rate, e, p.panel, p.done,
                   p.index, p.count, p.named, p.copies)
    BY <1>1, <1>3 DEF ParkOf
  <2> QED BY <2>1 DEF ParkRecords, ParkOf, Untouched
<1> QED BY <1>2, <1>3

LEMMA SupplementStage ==
  ASSUME NEW p, Seen(p), NEW q, q = ReconcileLevels(p, "supplement")
  PROVE  /\ Seen(q) /\ Kept(p, q) /\ q.byte = LevelBytes(p, "supplement")
         /\ q.panel = p.panel /\ q.counter = p.counter /\ q.rate = p.rate
         /\ \A a \in Animals :
              q.tiers[a] = IF HasLevels(p, "supplement", a)
                           THEN SupplementTiers(p.copies["supplement"]) ELSE p.tiers[a]
<1> DEFINE f == "supplement"
           L == Of(f, p.map)
           r == Gated(p, f)
           shown == {AnimalOf[c] : c \in L \cap r.map}
           new == [a \in Animals |-> IF a \in shown THEN SupplementTiers(r.copies[f]) ELSE r.tiers[a]]
<1>1. f \in Families /\ f # "education" /\ p \in Parks
  BY DEF Families, Seen
<1>2. /\ r \in Parks /\ Untouched(p, r) /\ r.byte = LevelBytes(p, f) /\ Spared(p, r, L)
  BY <1>1, LevelGate DEF Gated
<1>3. Of("education", L) = {} /\ \A c \in Of("breeding", L) : FALSE
  BY DEF Of
<1>4. q = IF L = {} THEN p ELSE SyncEffects(r, f, L)
  <2>1. ReconcileLevels(p, f) =
          IF L = {} THEN p
          ELSE IF f = "education"
          THEN SyncEducationLevels(SyncEducationCounter(SyncEffects(r, f, L)))
          ELSE SyncEffects(r, f, L)
    BY LevelStage
  <2> QED BY <1>1, <2>1
<1>5. SyncEffects(r, f, L) = [r EXCEPT !.tiers = new]
  BY DEF SyncEffects
<1>6. L = {} => LevelBytes(p, f) = p.byte /\ \A a \in Animals : ~HasLevels(p, f, a)
  BY NoLevels
<1>7. r.map = p.map /\ r.copies = p.copies
  BY <1>2 DEF Untouched
<1>8. \A a \in Animals : a \in shown <=> HasLevels(p, f, a)
  <2>1. shown = {AnimalOf[c] : c \in L}
    BY <1>7 DEF Of
  <2> HIDE DEF shown
  <2> QED BY <2>1 DEF HasLevels
<1> HIDE DEF r, shown
<1>9. p.copies \in [Families -> Nat] /\ r.tiers \in [Animals -> Nat] /\ r.rate \in [Animals -> Nat]
      /\ p.rate \in [Animals -> Nat] /\ r \in ParkRecords
  BY <1>1, <1>2, ParkIs
<1>10. SupplementTiers(r.copies[f]) \in Nat
  <2>1. r.copies[f] \in Nat
    BY <1>1, <1>7, <1>9
  <2> HIDE DEF f
  <2> QED BY <2>1 DEF SupplementTiers, LesserOf
<1>11. \A a \in Animals : /\ ~HasLevels(p, f, a) => r.tiers[a] = p.tiers[a]
                          /\ r.rate[a] = p.rate[a]
  <2>1. Of("supplement", L) = Of(f, p.map)
    BY DEF Of
  <2>2. \A a \in Animals : ~HasLevels(p, f, a) => \A c \in Of("supplement", L) : AnimalOf[c] # a
    BY <2>1 DEF HasLevels
  <2>3. /\ \A a \in Animals : (\A c \in Of("supplement", L) : AnimalOf[c] # a) =>
                               r.tiers[a] = p.tiers[a]
        /\ \A a \in Animals : r.rate[a] = p.rate[a]
    BY <1>2, <1>3 DEF Spared
  <2> HIDE DEF L, f
  <2> QED BY <2>2, <2>3
<1>12. r.rate = p.rate /\ r.counter = p.counter
  <2>1. r.counter = p.counter
    BY <1>2, <1>3 DEF Spared
  <2> QED BY <1>9, <1>11, <2>1
<1>13. new \in [Animals -> Nat] /\ \A a \in Animals :
         new[a] = IF HasLevels(p, f, a) THEN SupplementTiers(p.copies[f]) ELSE p.tiers[a]
  <2>1. \A a \in Animals : new[a] = IF a \in shown THEN SupplementTiers(r.copies[f]) ELSE r.tiers[a]
    OBVIOUS
  <2>2. new \in [Animals -> Nat]
    BY <1>9, <1>10
  <2> HIDE DEF new
  <2> QED BY <1>7, <1>8, <1>11, <2>1, <2>2
<1> HIDE DEF L, f, new
<1>14. CASE L = {}
  <2>1. q = p
    BY <1>4, <1>14
  <2> QED BY <1>6, <1>14, <2>1 DEF Kept, f
<1>15. CASE L # {}
  <2>1. q = [r EXCEPT !.tiers = new]
    BY <1>4, <1>5, <1>15
  <2>2. /\ q \in ParkRecords /\ Untouched(r, q) /\ q.tiers = new
        /\ q.byte = r.byte /\ q.counter = r.counter /\ q.rate = r.rate
    BY <1>9, <1>13, <2>1, EffectSet
  <2>3. Untouched(p, q) /\ q \in Parks
    BY <1>1, <1>2, <2>2, UntouchedPark DEF Untouched
  <2>4. Seen(q) /\ Kept(p, q) /\ q.panel = p.panel
    BY <2>3, SeenKept DEF Untouched
  <2> QED BY <1>2, <1>12, <1>13, <2>2, <2>4 DEF f
<1> QED BY <1>14, <1>15

LEMMA BreedingStage ==
  ASSUME NEW p, Seen(p), NEW q, q = ReconcileLevels(p, "breeding")
  PROVE  /\ Seen(q) /\ Kept(p, q) /\ q.byte = LevelBytes(p, "breeding")
         /\ q.panel = p.panel /\ q.counter = p.counter /\ q.tiers = p.tiers
         /\ \A a \in Animals :
              q.rate[a] = IF HasLevels(p, "breeding", a)
                           THEN BreedingRate(p.copies["breeding"]) ELSE p.rate[a]
<1> DEFINE f == "breeding"
           L == Of(f, p.map)
           r == Gated(p, f)
           shown == {AnimalOf[c] : c \in L \cap r.map}
           new == [a \in Animals |-> IF a \in shown THEN BreedingRate(r.copies[f]) ELSE r.rate[a]]
<1>1. f \in Families /\ f # "education" /\ p \in Parks
  BY DEF Families, Seen
<1>2. /\ r \in Parks /\ Untouched(p, r) /\ r.byte = LevelBytes(p, f) /\ Spared(p, r, L)
  BY <1>1, LevelGate DEF Gated
<1>3. Of("education", L) = {} /\ \A c \in Of("supplement", L) : FALSE
  BY DEF Of
<1>4. q = IF L = {} THEN p ELSE SyncEffects(r, f, L)
  <2>1. ReconcileLevels(p, f) =
          IF L = {} THEN p
          ELSE IF f = "education"
          THEN SyncEducationLevels(SyncEducationCounter(SyncEffects(r, f, L)))
          ELSE SyncEffects(r, f, L)
    BY LevelStage
  <2> QED BY <1>1, <2>1
<1>5. SyncEffects(r, f, L) = [r EXCEPT !.rate = new]
  BY DEF SyncEffects
<1>6. L = {} => LevelBytes(p, f) = p.byte /\ \A a \in Animals : ~HasLevels(p, f, a)
  BY NoLevels
<1>7. r.map = p.map /\ r.copies = p.copies
  BY <1>2 DEF Untouched
<1>8. \A a \in Animals : a \in shown <=> HasLevels(p, f, a)
  <2>1. shown = {AnimalOf[c] : c \in L}
    BY <1>7 DEF Of
  <2> HIDE DEF shown
  <2> QED BY <2>1 DEF HasLevels
<1> HIDE DEF r, shown
<1>9. p.copies \in [Families -> Nat] /\ r.rate \in [Animals -> Nat] /\ r.tiers \in [Animals -> Nat]
      /\ p.tiers \in [Animals -> Nat] /\ r \in ParkRecords
  BY <1>1, <1>2, ParkIs
<1>10. BreedingRate(r.copies[f]) \in Nat
  <2>1. r.copies[f] \in Nat
    BY <1>1, <1>7, <1>9
  <2> HIDE DEF f
  <2> QED BY <2>1 DEF BreedingRate, LesserOf
<1>11. \A a \in Animals : /\ ~HasLevels(p, f, a) => r.rate[a] = p.rate[a]
                          /\ r.tiers[a] = p.tiers[a]
  <2>1. Of("breeding", L) = Of(f, p.map)
    BY DEF Of
  <2>2. \A a \in Animals : ~HasLevels(p, f, a) => \A c \in Of("breeding", L) : AnimalOf[c] # a
    BY <2>1 DEF HasLevels
  <2>3. /\ \A a \in Animals : (\A c \in Of("breeding", L) : AnimalOf[c] # a) =>
                               r.rate[a] = p.rate[a]
        /\ \A a \in Animals : r.tiers[a] = p.tiers[a]
    BY <1>2, <1>3 DEF Spared
  <2> HIDE DEF L, f
  <2> QED BY <2>2, <2>3
<1>12. r.tiers = p.tiers /\ r.counter = p.counter
  <2>1. r.counter = p.counter
    BY <1>2, <1>3 DEF Spared
  <2> QED BY <1>9, <1>11, <2>1
<1>13. new \in [Animals -> Nat] /\ \A a \in Animals :
         new[a] = IF HasLevels(p, f, a) THEN BreedingRate(p.copies[f]) ELSE p.rate[a]
  <2>1. \A a \in Animals : new[a] = IF a \in shown THEN BreedingRate(r.copies[f]) ELSE r.rate[a]
    OBVIOUS
  <2>2. new \in [Animals -> Nat]
    BY <1>9, <1>10
  <2> HIDE DEF new
  <2> QED BY <1>7, <1>8, <1>11, <2>1, <2>2
<1> HIDE DEF L, f, new
<1>14. CASE L = {}
  <2>1. q = p
    BY <1>4, <1>14
  <2> QED BY <1>6, <1>14, <2>1 DEF Kept, f
<1>15. CASE L # {}
  <2>1. q = [r EXCEPT !.rate = new]
    BY <1>4, <1>5, <1>15
  <2>2. /\ q \in ParkRecords /\ Untouched(r, q) /\ q.rate = new
        /\ q.byte = r.byte /\ q.counter = r.counter /\ q.tiers = r.tiers
    BY <1>9, <1>13, <2>1, EffectSet
  <2>3. Untouched(p, q) /\ q \in Parks
    BY <1>1, <1>2, <2>2, UntouchedPark DEF Untouched
  <2>4. Seen(q) /\ Kept(p, q) /\ q.panel = p.panel
    BY <2>3, SeenKept DEF Untouched
  <2> QED BY <1>2, <1>12, <1>13, <2>2, <2>4 DEF f
<1> QED BY <1>14, <1>15

\* What the panels of all species show then.
Panels(p) == [a \in Animals |-> EducationLevel(p.copies["education"])]

LEMMA EducationStage ==
  ASSUME NEW p, Seen(p), NEW q, q = ReconcileLevels(p, "education")
  PROVE  /\ Seen(q) /\ Kept(p, q) /\ q.byte = LevelBytes(p, "education")
         /\ q.tiers = p.tiers /\ q.rate = p.rate
         /\ q.counter = IF Of("education", p.map) = {} THEN p.counter
                        ELSE Cardinality(Of("education", q.byte))
         /\ q.panel = IF Of("education", p.map) = {} THEN p.panel
                      ELSE Panels(p)
<1> DEFINE f == "education"
           L == Of(f, p.map)
           r == Gated(p, f)
           k == Cardinality(Of(f, r.byte))
           y == [r EXCEPT !.counter = k]
           shown == [a \in Animals |-> EducationLevel(y.copies[f])]
<1>1. f \in Families /\ p \in Parks
  BY DEF Families, Seen
<1>2. /\ r \in Parks /\ Untouched(p, r) /\ r.byte = LevelBytes(p, f) /\ Spared(p, r, L)
  BY <1>1, LevelGate DEF Gated
<1>3. /\ \A c \in Of("supplement", L) : FALSE
      /\ \A c \in Of("breeding", L) : FALSE
  BY DEF Of
<1>4. q = IF L = {} THEN p ELSE SyncEducationLevels(SyncEducationCounter(SyncEffects(r, f, L)))
  BY LevelStage
<1>5. SyncEffects(r, f, L) = r
  BY DEF SyncEffects
<1>6. L = {} => LevelBytes(p, f) = p.byte
  BY NoLevels
<1>7. r = ParkOf(r.map, r.map, r.byte, r.counter, r.rate, r.tiers, r.panel, r.done,
                 r.index, r.count, r.named, r.copies)
      /\ r \in ParkRecords /\ r.interned = r.map
  <2> HIDE DEF r
  <2> QED BY <1>2, ParkIs
<1>8. SyncEducationLevels(SyncEducationCounter(r)) = [y EXCEPT !.panel = shown]
  BY DEF SyncEducationLevels, SyncEducationCounter
<1> HIDE DEF r
<1>9. y = ParkOf(r.map, r.map, r.byte, k, r.rate, r.tiers, r.panel, r.done,
                 r.index, r.count, r.named, r.copies)
  <2> HIDE DEF k
  <2> QED BY <1>7 DEF ParkOf
<1>10. y.copies = r.copies /\ r.copies = p.copies /\ r.copies \in [Families -> Nat]
  <2>1. r.copies \in [Families -> Nat]
    BY <1>2, ParkIs
  <2> HIDE DEF y
  <2> QED BY <1>2, <1>9, <2>1 DEF ParkOf, Untouched
<1> HIDE DEF y
<1>11. shown \in [Animals -> Nat] /\ shown = Panels(p)
  <2>1. y.copies[f] \in Nat /\ y.copies[f] = p.copies[f]
    BY <1>1, <1>10
  <2>2. EducationLevel(y.copies[f]) \in Nat
    <3> HIDE DEF f
    <3> QED BY <2>1 DEF EducationLevel, LesserOf
  <2> QED BY <2>1, <2>2 DEF Panels
<1>12. k \in Nat
  <2>1. Of(f, r.byte) \in SUBSET Contents
    BY <1>2, ParkIs DEF Of
  <2> QED BY <2>1, ContentsFinite
<1>13. r.tiers = p.tiers /\ r.rate = p.rate
  <2>1. /\ r.tiers \in [Animals -> Nat] /\ r.rate \in [Animals -> Nat]
        /\ p.tiers \in [Animals -> Nat] /\ p.rate \in [Animals -> Nat]
    BY <1>1, <1>2, ParkIs
  <2>2. \A a \in Animals : r.tiers[a] = p.tiers[a] /\ r.rate[a] = p.rate[a]
    BY <1>2, <1>3 DEF Spared
  <2> QED BY <2>1, <2>2
<1>14. CASE L = {}
  <2>1. q = p
    BY <1>4, <1>14
  <2> QED BY <1>6, <1>14, <2>1 DEF Kept
<1>15. CASE L # {}
  <2>1. q = [y EXCEPT !.panel = shown]
    BY <1>4, <1>5, <1>8, <1>15
  <2> HIDE DEF shown, k
  <2>2. q = ParkOf(r.map, r.map, r.byte, k, r.rate, r.tiers, shown, r.done,
                   r.index, r.count, r.named, r.copies)
    BY <1>9, <2>1 DEF ParkOf
  <2>3. /\ q.interned = r.map /\ q.map = r.map /\ q.byte = r.byte /\ q.counter = k
        /\ q.rate = r.rate /\ q.tiers = r.tiers /\ q.panel = shown /\ q.done = r.done
        /\ q.index = r.index /\ q.count = r.count /\ q.named = r.named /\ q.copies = r.copies
    BY <2>2 DEF ParkOf
  <2>4. q \in ParkRecords
    BY <1>7, <1>11, <1>12, <2>2 DEF ParkRecords, ParkOf
  <2>5. Seen(q) /\ Kept(p, q)
    <3>1. r.index = p.index /\ r.count = p.count /\ r.map = p.map /\ r.done = p.done
          /\ r.named = p.named
      BY <1>2 DEF Untouched
    <3> QED BY <1>1, <1>10, <2>3, <2>4, <3>1 DEF Seen, Kept, Parks, Counted
  <2> QED BY <1>2, <1>11, <1>13, <1>15, <2>3, <2>5 DEF k
<1> QED BY <1>14, <1>15

-----------------------------------------------------------------------------
(* The rewards: the tick                                                   *)

\* What a tick makes of a park.
Rewarded(p, x) ==
  /\ Seen(x) /\ Kept(p, x)
  /\ \A c \in Contents :
       c \in x.byte <=>
         IF c \notin p.map \/ FamilyOf[c] = "free" THEN c \in p.byte
         ELSE IF FamilyOf[c] = "named" THEN c \in p.named
         ELSE LevelOf[c] <= p.copies[FamilyOf[c]]
  /\ \A a \in Animals :
       /\ x.rate[a] = IF HasLevels(p, "breeding", a)
                      THEN BreedingRate(p.copies["breeding"]) ELSE p.rate[a]
       /\ x.tiers[a] = IF HasLevels(p, "supplement", a)
                       THEN SupplementTiers(p.copies["supplement"]) ELSE p.tiers[a]
  /\ x.counter = IF Of("education", p.map) = {} THEN p.counter
                 ELSE Cardinality(Of("education", x.byte))
  /\ x.panel = IF Of("education", p.map) = {} THEN p.panel
               ELSE Panels(p)

\* All stages together.
LEMMA TickRewards ==
  ASSUME NEW p \in Parks
  PROVE  Rewarded(p, RewardsTick(p))
<1>1. PICK a, b, c, d, x :
        /\ a = ReconcileNamed(p) /\ b = ReconcileLevels(a, "exhibit_enrichment")
        /\ c = ReconcileLevels(b, "supplement") /\ d = ReconcileLevels(c, "breeding")
        /\ x = ReconcileLevels(d, "education")
  OBVIOUS
<1>2. RewardsTick(p) = x
  BY <1>1 DEF RewardsTick
<1>3. /\ Seen(a) /\ Kept(p, a) /\ a.panel = p.panel
      /\ a.byte = (p.byte \ Of("named", p.map)) \cup (Of("named", p.map) \cap p.named)
      /\ a.counter = p.counter /\ a.tiers = p.tiers /\ a.rate = p.rate
  BY <1>1, NamedStage
<1>4. /\ Seen(b) /\ Kept(a, b) /\ b.byte = LevelBytes(a, "exhibit_enrichment")
      /\ b.panel = a.panel /\ b.counter = a.counter /\ b.tiers = a.tiers /\ b.rate = a.rate
  BY <1>1, <1>3, ExhibitStage
<1>5. /\ Seen(c) /\ Kept(b, c) /\ c.byte = LevelBytes(b, "supplement")
      /\ c.panel = b.panel /\ c.counter = b.counter /\ c.rate = b.rate
      /\ \A z \in Animals :
              c.tiers[z] = IF HasLevels(b, "supplement", z)
                           THEN SupplementTiers(b.copies["supplement"]) ELSE b.tiers[z]
  BY <1>1, <1>4, SupplementStage
<1>6. /\ Seen(d) /\ Kept(c, d) /\ d.byte = LevelBytes(c, "breeding")
      /\ d.panel = c.panel /\ d.counter = c.counter /\ d.tiers = c.tiers
      /\ \A z \in Animals :
              d.rate[z] = IF HasLevels(c, "breeding", z)
                          THEN BreedingRate(c.copies["breeding"]) ELSE c.rate[z]
  BY <1>1, <1>5, BreedingStage
<1>7. /\ Seen(x) /\ Kept(d, x) /\ x.byte = LevelBytes(d, "education")
      /\ x.tiers = d.tiers /\ x.rate = d.rate
      /\ x.counter = IF Of("education", d.map) = {} THEN d.counter
                     ELSE Cardinality(Of("education", x.byte))
      /\ x.panel = IF Of("education", d.map) = {} THEN d.panel
                   ELSE Panels(d)
  BY <1>1, <1>6, EducationStage
<1>8. /\ a.map = p.map /\ b.map = p.map /\ c.map = p.map /\ d.map = p.map
      /\ a.copies = p.copies /\ b.copies = p.copies /\ c.copies = p.copies
      /\ d.copies = p.copies /\ Kept(p, x)
  BY <1>3, <1>4, <1>5, <1>6, <1>7 DEF Kept
<1>9. /\ \A z \in Animals : HasLevels(b, "supplement", z) <=> HasLevels(p, "supplement", z)
      /\ \A z \in Animals : HasLevels(c, "breeding", z) <=> HasLevels(p, "breeding", z)
  BY <1>8 DEF HasLevels
<1>10. ASSUME NEW e \in Contents
       PROVE  e \in x.byte <=>
                IF e \notin p.map \/ FamilyOf[e] = "free" THEN e \in p.byte
                ELSE IF FamilyOf[e] = "named" THEN e \in p.named
                ELSE LevelOf[e] <= p.copies[FamilyOf[e]]
  <2>1. FamilyOf[e] \in {"exhibit_enrichment", "supplement", "breeding", "education",
                         "named", "free"}
    BY RewardConstants DEF Families
  <2>2. e \in a.byte <=> IF e \in p.map /\ FamilyOf[e] = "named" THEN e \in p.named
                         ELSE e \in p.byte
    BY <1>3 DEF Of
  <2>3. e \in b.byte <=> IF e \in p.map /\ FamilyOf[e] = "exhibit_enrichment"
                         THEN LevelOf[e] <= p.copies["exhibit_enrichment"] ELSE e \in a.byte
    BY <1>4, <1>8 DEF LevelBytes, Of
  <2>4. e \in c.byte <=> IF e \in p.map /\ FamilyOf[e] = "supplement"
                         THEN LevelOf[e] <= p.copies["supplement"] ELSE e \in b.byte
    BY <1>5, <1>8 DEF LevelBytes, Of
  <2>5. e \in d.byte <=> IF e \in p.map /\ FamilyOf[e] = "breeding"
                         THEN LevelOf[e] <= p.copies["breeding"] ELSE e \in c.byte
    BY <1>6, <1>8 DEF LevelBytes, Of
  <2>6. e \in x.byte <=> IF e \in p.map /\ FamilyOf[e] = "education"
                         THEN LevelOf[e] <= p.copies["education"] ELSE e \in d.byte
    BY <1>7, <1>8 DEF LevelBytes, Of
  <2> QED BY <2>1, <2>2, <2>3, <2>4, <2>5, <2>6
<1>11. ASSUME NEW z \in Animals
       PROVE  /\ x.rate[z] = IF HasLevels(p, "breeding", z)
                             THEN BreedingRate(p.copies["breeding"]) ELSE p.rate[z]
              /\ x.tiers[z] = IF HasLevels(p, "supplement", z)
                              THEN SupplementTiers(p.copies["supplement"]) ELSE p.tiers[z]
  BY <1>3, <1>4, <1>5, <1>6, <1>7, <1>8, <1>9
<1>12. x.counter = IF Of("education", p.map) = {} THEN p.counter
                   ELSE Cardinality(Of("education", x.byte))
  BY <1>3, <1>4, <1>5, <1>6, <1>7, <1>8
<1>13. x.panel = IF Of("education", p.map) = {} THEN p.panel
                 ELSE Panels(p)
  <2>1. Panels(d) = Panels(p)
    BY <1>8 DEF Panels
  <2> QED BY <1>3, <1>4, <1>5, <1>6, <1>7, <1>8, <2>1
<1> QED BY <1>2, <1>7, <1>8, <1>10, <1>11, <1>12, <1>13 DEF Rewarded

\* Another tick finds nothing to do.
LEMMA TickTwice ==
  ASSUME NEW p \in Parks, NEW x, Rewarded(p, x)
  PROVE  RewardsTick(x) = x
<1> DEFINE y == RewardsTick(x)
<1>1. x \in Parks /\ x.index = x.map /\ x.count = Cardinality(x.map)
  BY DEF Rewarded, Seen
<1>2. Rewarded(x, y)
  BY <1>1, TickRewards
<1> HIDE DEF y
<1>3. y \in Parks /\ y.index = y.map /\ y.count = Cardinality(y.map)
  BY <1>2 DEF Rewarded, Seen
<1>4. /\ x.map = p.map /\ x.copies = p.copies /\ x.named = p.named
      /\ y.map = x.map /\ y.copies = x.copies /\ y.named = x.named /\ y.done = x.done
  BY <1>2 DEF Rewarded, Kept
<1>5. y.byte = x.byte
  <2>1. \A c \in Contents : c \in y.byte <=> c \in x.byte
    BY <1>2, <1>4 DEF Rewarded
  <2>2. y.byte \in SUBSET Contents /\ x.byte \in SUBSET Contents
    BY <1>1, <1>3, ParkIs
  <2> QED BY <2>1, <2>2
<1>6. y.rate = x.rate /\ y.tiers = x.tiers
  <2>1. \A a \in Animals : /\ HasLevels(x, "breeding", a) <=> HasLevels(p, "breeding", a)
                           /\ HasLevels(x, "supplement", a) <=> HasLevels(p, "supplement", a)
    BY <1>4 DEF HasLevels
  <2>2. \A a \in Animals : y.rate[a] = x.rate[a] /\ y.tiers[a] = x.tiers[a]
    BY <1>2, <1>4, <2>1 DEF Rewarded
  <2>3. /\ x.rate \in [Animals -> Nat] /\ x.tiers \in [Animals -> Nat]
        /\ y.rate \in [Animals -> Nat] /\ y.tiers \in [Animals -> Nat]
    BY <1>1, <1>3, ParkIs
  <2> QED BY <2>2, <2>3
<1>7. y.counter = x.counter
  BY <1>2, <1>4, <1>5 DEF Rewarded
<1>8. y.panel = x.panel
  <2>1. Panels(x) = Panels(p)
    BY <1>4 DEF Panels
  <2> QED BY <1>2, <1>4, <2>1 DEF Rewarded
<1>9. /\ x = ParkOf(x.map, x.map, x.byte, x.counter, x.rate, x.tiers, x.panel, x.done,
                    x.index, x.count, x.named, x.copies)
      /\ y = ParkOf(y.map, y.map, y.byte, y.counter, y.rate, y.tiers, y.panel, y.done,
                    y.index, y.count, y.named, y.copies)
  BY <1>1, <1>3, ParkIs
<1> QED BY <1>1, <1>3, <1>4, <1>5, <1>6, <1>7, <1>8, <1>9 DEF y

-----------------------------------------------------------------------------
(* The rewards: what else happens to a park                                *)

\* A park from its parts, and the parts of a park.
LEMMA ParkMade ==
  ASSUME NEW m \in SUBSET Contents, NEW b \in SUBSET Contents, NEW k \in Nat,
         NEW r \in [Animals -> Nat], NEW t \in [Animals -> Nat], NEW l \in [Animals -> Nat],
         NEW d \in SUBSET Contents, NEW x \in SUBSET m, NEW n \in Nat,
         NEW s \in SUBSET Contents, NEW o \in [Families -> Nat], Counted(n, m, x)
  PROVE  ParkOf(m, m, b, k, r, t, l, d, x, n, s, o) \in Parks
<1> DEFINE p == ParkOf(m, m, b, k, r, t, l, d, x, n, s, o)
<1>1. p \in ParkRecords
  BY DEF ParkOf, ParkRecords
<1>2. p.interned = m /\ p.map = m /\ p.index = x /\ p.count = n
  BY DEF ParkOf
<1> HIDE DEF p
<1>3. p \in Parks
  BY <1>1, <1>2 DEF Parks, Counted
<1> QED BY <1>3 DEF p

LEMMA ParkParts ==
  ASSUME NEW p \in Parks
  PROVE  \E m, b, d, s \in SUBSET Contents, k, n \in Nat, r, t, l \in [Animals -> Nat],
            o \in [Families -> Nat] : \E x \in SUBSET m :
           p = ParkOf(m, m, b, k, r, t, l, d, x, n, s, o) /\ Counted(n, m, x)
<1>1. Counted(p.count, p.map, p.index)
  BY DEF Parks, Counted
<1>2. /\ p.map \in SUBSET Contents /\ p.byte \in SUBSET Contents /\ p.done \in SUBSET Contents
      /\ p.index \in SUBSET p.map /\ p.named \in SUBSET Contents /\ p.count \in Nat
      /\ p.counter \in Nat /\ p.copies \in [Families -> Nat] /\ p.rate \in [Animals -> Nat]
      /\ p.tiers \in [Animals -> Nat] /\ p.panel \in [Animals -> Nat]
      /\ p = ParkOf(p.map, p.map, p.byte, p.counter, p.rate, p.tiers, p.panel, p.done,
                    p.index, p.count, p.named, p.copies)
  BY ParkIs
<1> QED BY <1>1, <1>2, Zenon

\* The first park, and what every event makes of a park.
LEMMA NewParkIs == NewPark \in Parks
<1> DEFINE m == Contents \ Late
           r == [a \in Animals |-> 0]
           t == [a \in Animals |-> 1]
           o == [f \in Families |-> 0]
           n == Cardinality(Contents) + 1
<1>1. NewPark = ParkOf(m, m, {}, 0, r, t, r, {}, {}, n, {}, o)
  BY DEF NewPark, ParkOf
<1>2. m \in SUBSET Contents /\ n \in Nat /\ {} \in SUBSET m /\ Counted(n, m, {})
  BY ContentsFinite DEF Counted
<1>3. r \in [Animals -> Nat] /\ t \in [Animals -> Nat] /\ o \in [Families -> Nat]
  OBVIOUS
<1> HIDE DEF m, r, t, o, n
<1> QED BY <1>1, <1>2, <1>3, ParkMade

LEMMA CopyKeeps == \A p \in Parks : \A f \in Families : ReceiveCopy(p, f) \in Parks
<1> SUFFICES ASSUME NEW p \in Parks, NEW f \in Families PROVE ReceiveCopy(p, f) \in Parks
  OBVIOUS
<1>p. PICK m, b, d, s \in SUBSET Contents, k, n \in Nat, r, t, l \in [Animals -> Nat],
           o \in [Families -> Nat] : \E x \in SUBSET m :
        p = ParkOf(m, m, b, k, r, t, l, d, x, n, s, o) /\ Counted(n, m, x)
  BY ParkParts
<1>x. PICK x \in SUBSET m : p = ParkOf(m, m, b, k, r, t, l, d, x, n, s, o) /\ Counted(n, m, x)
  BY <1>p
<1> DEFINE o2 == [o EXCEPT ![f] = @ + 1]
<1>1. o2 \in [Families -> Nat]
  BY <1>p
<1>2. ReceiveCopy(p, f) = ParkOf(m, m, b, k, r, t, l, d, x, n, s, o2)
  BY <1>x DEF ReceiveCopy, ParkOf
<1> HIDE DEF o2
<1> QED BY <1>p, <1>x, <1>1, <1>2, ParkMade

LEMMA ForgetKeeps == \A p \in Parks : Forget(p) \in Parks
<1> SUFFICES ASSUME NEW p \in Parks PROVE Forget(p) \in Parks
  OBVIOUS
<1>p. PICK m, b, d, s \in SUBSET Contents, k, n \in Nat, r, t, l \in [Animals -> Nat],
           o \in [Families -> Nat] : \E x \in SUBSET m :
        p = ParkOf(m, m, b, k, r, t, l, d, x, n, s, o) /\ Counted(n, m, x)
  BY ParkParts
<1>x. PICK x \in SUBSET m : p = ParkOf(m, m, b, k, r, t, l, d, x, n, s, o) /\ Counted(n, m, x)
  BY <1>p
<1> DEFINE w == Cardinality(Contents) + 1
<1>1. w \in Nat /\ {} \in SUBSET m /\ Counted(w, m, {})
  BY ContentsFinite DEF Counted
<1>2. Forget(p) = ParkOf(m, m, b, k, r, t, l, d, {}, w, s, o)
  <2>1. PICK q : q = [p EXCEPT !.index = {}, !.count = w]
    OBVIOUS
  <2>2. q = ParkOf(m, m, b, k, r, t, l, d, {}, w, s, o)
    <3> HIDE DEF w
    <3> QED BY <1>x, <2>1 DEF ParkOf
  <2> QED BY <2>1, <2>2 DEF Forget
<1> HIDE DEF w
<1> QED BY <1>p, <1>1, <1>2, ParkMade

LEMMA SnapshotKeeps == \A p \in Parks : Snapshot(p) \in Parks
<1> SUFFICES ASSUME NEW p \in Parks PROVE Snapshot(p) \in Parks
  OBVIOUS
<1>p. PICK m, b, d, s \in SUBSET Contents, k, n \in Nat, r, t, l \in [Animals -> Nat],
           o \in [Families -> Nat] : \E x \in SUBSET m :
        p = ParkOf(m, m, b, k, r, t, l, d, x, n, s, o) /\ Counted(n, m, x)
  BY ParkParts
<1>x. PICK x \in SUBSET m : p = ParkOf(m, m, b, k, r, t, l, d, x, n, s, o) /\ Counted(n, m, x)
  BY <1>p
<1>1. Snapshot(p) = ParkOf(m, m, b, k, r, t, l, d, m, n, s, o)
  BY <1>x DEF Snapshot, ParkOf
<1>2. Counted(n, m, m) /\ m \in SUBSET m
  BY <1>x DEF Counted
<1> QED BY <1>p, <1>1, <1>2, ParkMade

LEMMA NamedKeeps == \A p \in Parks : \A c \in Contents : ReceiveNamed(p, c) \in Parks
<1> SUFFICES ASSUME NEW p \in Parks, NEW c \in Contents PROVE ReceiveNamed(p, c) \in Parks
  OBVIOUS
<1>p. PICK m, b, d, s \in SUBSET Contents, k, n \in Nat, r, t, l \in [Animals -> Nat],
           o \in [Families -> Nat] : \E x \in SUBSET m :
        p = ParkOf(m, m, b, k, r, t, l, d, x, n, s, o) /\ Counted(n, m, x)
  BY ParkParts
<1>x. PICK x \in SUBSET m : p = ParkOf(m, m, b, k, r, t, l, d, x, n, s, o) /\ Counted(n, m, x)
  BY <1>p
<1> DEFINE s2 == s \cup {c}
           q == [p EXCEPT !.named = @ \cup {c}]
           y == IF c \in q.index THEN q ELSE Snapshot(q)
<1>1. q = ParkOf(m, m, b, k, r, t, l, d, x, n, s2, o)
  <2>1. p.named = s
    BY <1>x DEF ParkOf
  <2>2. PICK z : z = [p EXCEPT !.named = s2]
    OBVIOUS
  <2> HIDE DEF s2
  <2>3. z = ParkOf(m, m, b, k, r, t, l, d, x, n, s2, o)
    BY <1>x, <2>2 DEF ParkOf
  <2> QED BY <2>1, <2>2, <2>3 DEF s2
<1>2. s2 \in SUBSET Contents
  BY <1>p
<1> HIDE DEF q, s2
<1>3. q \in Parks
  BY <1>p, <1>x, <1>1, <1>2, ParkMade
<1>4. y \in Parks
  BY <1>3, SnapshotKeeps
<1>5. ReceiveNamed(p, c) = IF c \in y.index THEN Flip(y, {c}) ELSE y
  BY DEF ReceiveNamed, Grant, q
<1> HIDE DEF y
<1>6. Flip(y, {c}) \in Parks
  BY <1>4, FlipIs
<1> QED BY <1>4, <1>5, <1>6

LEMMA LoadKeeps == \A p \in Parks : Load(p) \in Parks
<1> SUFFICES ASSUME NEW p \in Parks PROVE Load(p) \in Parks
  OBVIOUS
<1>p. PICK m, b, d, s \in SUBSET Contents, k, n \in Nat, r, t, l \in [Animals -> Nat],
           o \in [Families -> Nat] : \E x \in SUBSET m :
        p = ParkOf(m, m, b, k, r, t, l, d, x, n, s, o) /\ Counted(n, m, x)
  BY ParkParts
<1>x. PICK x \in SUBSET m : p = ParkOf(m, m, b, k, r, t, l, d, x, n, s, o) /\ Counted(n, m, x)
  BY <1>p
<1> DEFINE zero == [a \in Animals |-> 0]
           one == [a \in Animals |-> 1]
           bare == [p EXCEPT !.byte = {}, !.counter = 0, !.rate = zero, !.tiers = one, !.panel = zero]
           set == p.done \cup Of("named", p.map)
<1>1. zero \in [Animals -> Nat] /\ one \in [Animals -> Nat]
  OBVIOUS
<1>2. Load(p) = Flip(bare, set)
  BY DEF Load
<1>3. set \in SUBSET Contents
  BY ParkIs DEF Of
<1> HIDE DEF zero, one, set
<1>4. bare = ParkOf(m, m, {}, 0, zero, one, zero, d, x, n, s, o)
  <2>1. PICK z : z = bare
    OBVIOUS
  <2>2. z = ParkOf(m, m, {}, 0, zero, one, zero, d, x, n, s, o)
    BY <1>x, <2>1 DEF ParkOf
  <2> QED BY <2>1, <2>2
<1> HIDE DEF bare
<1>5. bare \in Parks
  BY <1>p, <1>x, <1>1, <1>4, ParkMade
<1> QED BY <1>2, <1>3, <1>5, FlipIs

\* Research that completes may bring a record that the client has not counted.
LEMMA CountedMore ==
  ASSUME NEW m \in SUBSET Contents, NEW c \in Contents, NEW n \in Nat, NEW x \in SUBSET m,
         Counted(n, m, x)
  PROVE  Counted(n, m \cup {c}, x)
<1>1. IsFiniteSet(m) /\ Cardinality(m) \in Nat
  BY ContentsFinite
<1>2. Cardinality(m \cup {c}) = IF c \in m THEN Cardinality(m) ELSE Cardinality(m) + 1
  BY <1>1, FS_AddElement
<1>3. CASE c \in m
  <2>1. m \cup {c} = m
    BY <1>3
  <2> QED BY <2>1
<1>4. CASE c \notin m
  BY <1>1, <1>2, <1>4 DEF Counted
<1> QED BY <1>3, <1>4

LEMMA PanelKeeps == \A p \in Parks : \A e \in [Animals -> Nat] : [p EXCEPT !.panel = e] \in Parks
<1> SUFFICES ASSUME NEW p \in Parks, NEW e \in [Animals -> Nat] PROVE [p EXCEPT !.panel = e] \in Parks
  OBVIOUS
<1>p. PICK m, b, d, s \in SUBSET Contents, k, n \in Nat, r, t, l \in [Animals -> Nat],
           o \in [Families -> Nat] : \E x \in SUBSET m :
        p = ParkOf(m, m, b, k, r, t, l, d, x, n, s, o) /\ Counted(n, m, x)
  BY ParkParts
<1>x. PICK x \in SUBSET m : p = ParkOf(m, m, b, k, r, t, l, d, x, n, s, o) /\ Counted(n, m, x)
  BY <1>p
<1>1. [p EXCEPT !.panel = e] = ParkOf(m, m, b, k, r, t, e, d, x, n, s, o)
  BY <1>x DEF ParkOf
<1> QED BY <1>p, <1>x, <1>1, ParkMade

LEMMA CompleteKeeps == \A p \in Parks : \A c \in Contents : Complete(p, c) \in Parks
<1> SUFFICES ASSUME NEW p \in Parks, NEW c \in Contents PROVE Complete(p, c) \in Parks
  OBVIOUS
<1>p. PICK m, b, d, s \in SUBSET Contents, k, n \in Nat, r, t, l \in [Animals -> Nat],
           o \in [Families -> Nat] : \E x \in SUBSET m :
        p = ParkOf(m, m, b, k, r, t, l, d, x, n, s, o) /\ Counted(n, m, x)
  BY ParkParts
<1>x. PICK x \in SUBSET m : p = ParkOf(m, m, b, k, r, t, l, d, x, n, s, o) /\ Counted(n, m, x)
  BY <1>p
<1> DEFINE m2 == m \cup {c}
           d2 == d \cup {c}
           q == [p EXCEPT !.interned = @ \cup {c}, !.map = @ \cup {c}, !.done = @ \cup {c}]
           y == Flip(q, {c})
           e == [y.panel EXCEPT ![AnimalOf[c]] = GreaterOf(@, LevelOf[c])]
<1>1. q = ParkOf(m2, m2, b, k, r, t, l, d2, x, n, s, o)
  <2>1. p.interned = m /\ p.map = m /\ p.done = d
    BY <1>x DEF ParkOf
  <2>2. PICK z : z = [p EXCEPT !.interned = m2, !.map = m2, !.done = d2]
    OBVIOUS
  <2> HIDE DEF m2, d2
  <2>3. z = ParkOf(m2, m2, b, k, r, t, l, d2, x, n, s, o)
    BY <1>x, <2>2 DEF ParkOf
  <2> QED BY <2>1, <2>2, <2>3 DEF m2, d2
<1>2. Counted(n, m2, x)
  BY <1>p, <1>x, CountedMore
<1>3. m2 \in SUBSET Contents /\ d2 \in SUBSET Contents /\ x \in SUBSET m2
  BY <1>p, <1>x
<1> HIDE DEF q, m2, d2
<1>4. q \in Parks
  BY <1>p, <1>1, <1>2, <1>3, ParkMade
<1>5. y \in Parks
  BY <1>4, FlipIs
<1>6. Complete(p, c) = IF FamilyOf[c] = "education" THEN [y EXCEPT !.panel = e] ELSE y
  BY DEF Complete, q
<1> HIDE DEF y
<1>7. e \in [Animals -> Nat]
  <2>1. y.panel \in [Animals -> Nat] /\ AnimalOf[c] \in Animals /\ LevelOf[c] \in Nat
    BY <1>5, ParkIs, RewardConstants
  <2>2. GreaterOf(y.panel[AnimalOf[c]], LevelOf[c]) \in Nat
    BY <2>1 DEF GreaterOf
  <2> QED BY <2>1, <2>2
<1> HIDE DEF e
<1>8. [y EXCEPT !.panel = e] \in Parks
  BY <1>5, <1>7, PanelKeeps
<1> QED BY <1>5, <1>6, <1>8

LEMMA RewardEventKeeps ==
  ASSUME NEW p \in Parks, NEW e \in RewardEvents
  PROVE  RewardEvent(p, e) \in Parks
<1>1. CASE e \in {"complete"} \X Contents
  <2>1. e[1] = "complete" /\ e[2] \in Contents
    BY <1>1
  <2> QED BY <2>1, CompleteKeeps DEF RewardEvent
<1>2. CASE e \in {"named"} \X Of("named", Contents)
  <2>1. e[1] = "named" /\ e[2] \in Contents
    BY <1>2 DEF Of
  <2> QED BY <2>1, NamedKeeps DEF RewardEvent
<1>3. CASE e \in {"copy"} \X Families
  <2>1. e[1] = "copy" /\ e[2] \in Families
    BY <1>3
  <2> QED BY <2>1, CopyKeeps DEF RewardEvent
<1>4. CASE e \in {"load", "restart", "tick"} \X {""}
  <2>1. e[1] \in {"load", "restart", "tick"}
    BY <1>4
  <2>2. RewardsTick(p) \in Parks
    BY TickRewards DEF Rewarded, Seen
  <2> QED BY <2>1, <2>2, LoadKeeps, ForgetKeeps DEF RewardEvent
<1> QED BY <1>1, <1>2, <1>3, <1>4 DEF RewardEvents

-----------------------------------------------------------------------------
(* The rewards: histories                                                  *)

\* Histories of any length lead to parks, and the tick after one does its work.
LEMMA RewardHistory ==
  ASSUME NEW N \in 0..RewardRounds, NEW history \in [1..N -> RewardEvents]
  PROVE  AfterRewards(history) \in Parks
<1>1. N \in Nat /\ Len(history) = N /\ 0 \in Nat /\ 0 <= N /\ 0 + 1 = 1
  BY RewardConstants
<1> DEFINE One(x, n) == RewardEvent(x, history[n])
           F == [n \in 1..N |-> [x \in Parks |-> One(x, n)]]
           Eq(h) == h = [n \in 0..Len(history) |->
                           IF n = 0 THEN NewPark ELSE RewardEvent(h[n - 1], history[n])]
<1>2. ASSUME NEW n \in 1..N, NEW x \in Parks PROVE One(x, n) \in Parks
  BY RewardEventKeeps
<1>3. NewPark \in Parks
  BY NewParkIs
<1> HIDE DEF One
<1>4. F \in [(0 + 1)..N -> [Parks -> Parks]]
  BY <1>1, <1>2
<1>5. PICK f \in [0..N -> Parks] : RunOf(F, NewPark, 0, N, f)
  <2> HIDE DEF F
  <2> QED BY <1>1, <1>3, <1>4, RunExists
<1>6. /\ f[0] = NewPark
      /\ \A n \in (0 + 1)..N : f[n] = F[n][f[n - 1]]
  BY <1>5, Zenon DEF RunOf
<1>7. ASSUME NEW n \in 1..N PROVE f[n] = One(f[n - 1], n)
  <2>1. f[n - 1] \in Parks
    BY <1>1, <1>5
  <2>2. F[n][f[n - 1]] = One(f[n - 1], n)
    BY <2>1
  <2> QED BY <1>1, <1>6, <2>2
<1>8. Eq(f)
  <2>1. \A n \in 0..N : f[n] = IF n = 0 THEN NewPark ELSE One(f[n - 1], n)
    BY <1>1, <1>6, <1>7
  <2>2. f = [n \in 0..N |-> f[n]]
    BY <1>5
  <2>3. f = [n \in 0..N |-> IF n = 0 THEN NewPark ELSE One(f[n - 1], n)]
    BY <2>1, <2>2
  <2> QED BY <1>1, <2>3 DEF One
<1> DEFINE h == CHOOSE h : Eq(h)
<1>9. Eq(h)
  BY <1>8
<1>10. AfterRewards(history) = h[N]
  BY <1>1 DEF AfterRewards
<1> HIDE DEF h
<1>11. \A n \in 0..N : h[n] = IF n = 0 THEN NewPark ELSE One(h[n - 1], n)
  BY <1>1, <1>9 DEF One
<1> DEFINE P == {n \in 0..N : h[n] \in Parks}
<1>12. 0 \in P
  BY <1>1, <1>3, <1>11
<1>13. ASSUME NEW n \in (0 + 1)..N, n - 1 \in P PROVE n \in P
  <2>1. n \in 0..N /\ n \in 1..N /\ n # 0 /\ h[n - 1] \in Parks
    BY <1>1, <1>13
  <2> QED BY <1>2, <1>11, <2>1
<1> HIDE DEF P
<1>14. \A n \in 0..N : n \in P
  BY <1>1, <1>12, <1>13, OneByOne
<1>15. N \in P
  BY <1>1, <1>14
<1> QED BY <1>10, <1>15 DEF P

LEMMA RewardsHold == RewardsFollow
<1> SUFFICES ASSUME NEW N \in 0..RewardRounds, NEW history \in [1..N -> RewardEvents],
                    NEW p, p = AfterRewards(history), NEW x, x = RewardsTick(p)
             PROVE  BytesFollow(x, p) /\ EffectsFollow(x) /\ RewardsTick(x) = x
  BY DEF RewardsFollow
<1>1. p \in Parks
  BY RewardHistory
<1>2. Rewarded(p, x)
  BY <1>1, TickRewards
<1>3. RewardsTick(x) = x
  BY <1>1, <1>2, TickTwice
<1>4. x.map = p.map /\ x.map \in SUBSET Contents /\ x.named = p.named /\ x.copies = p.copies
  BY <1>2, ParkIs DEF Rewarded, Kept, Seen
<1>5. BytesFollow(x, p)
  <2> SUFFICES ASSUME NEW c \in x.map
               PROVE  (c \in x.byte) = CASE FamilyOf[c] = "named" -> c \in x.named
                                         [] FamilyOf[c] = "free"  -> c \in p.byte
                                         [] OTHER -> LevelOf[c] <= x.copies[FamilyOf[c]]
    BY DEF BytesFollow
  <2>1. c \in Contents /\ c \in p.map
    BY <1>4
  <2>2. c \in x.byte <=> IF FamilyOf[c] = "free" THEN c \in p.byte
                         ELSE IF FamilyOf[c] = "named" THEN c \in x.named
                         ELSE LevelOf[c] <= x.copies[FamilyOf[c]]
    BY <1>2, <1>4, <2>1 DEF Rewarded
  <2> QED BY <2>2
<1>6. EffectsFollow(x)
  <2>1. Panels(x) = Panels(p)
    BY <1>4 DEF Panels
  <2>2. ASSUME NEW a \in Animals
        PROVE  /\ HasLevels(x, "breeding", a) => x.rate[a] = BreedingRate(x.copies["breeding"])
               /\ HasLevels(x, "supplement", a) => x.tiers[a] = SupplementTiers(x.copies["supplement"])
    <3>1. /\ HasLevels(x, "breeding", a) <=> HasLevels(p, "breeding", a)
          /\ HasLevels(x, "supplement", a) <=> HasLevels(p, "supplement", a)
      BY <1>4 DEF HasLevels
    <3> QED BY <1>2, <1>4, <3>1 DEF Rewarded
  <2>3. ASSUME NEW a \in Animals, HasLevels(x, "education", a)
        PROVE  x.panel[a] = EducationLevel(x.copies["education"])
    <3>1. Of("education", p.map) # {}
      BY <1>4, <2>3 DEF HasLevels
    <3>2. x.panel = Panels(p)
      BY <1>2, <3>1 DEF Rewarded
    <3> QED BY <1>4, <3>2 DEF Panels
  <2>4. Of("education", x.map) # {} => x.counter = Cardinality(Of("education", x.byte))
    BY <1>2, <1>4 DEF Rewarded
  <2> QED BY <2>2, <2>3, <2>4 DEF EffectsFollow
<1> QED BY <1>3, <1>5, <1>6

-----------------------------------------------------------------------------
(* The theorem about the rewards                                           *)

\* For any contents, names that come late and histories of any length: the
\* tick that follows sets bytes and effects to what the items received say,
\* leaves what has no item as the game has it, and another tick changes
\* nothing (RewardGranter: reconcile_rewards, reconcile_progressive_levels,
\* _maybe_refresh_names).
THEOREM RewardsAlwaysInForce == Spec => []RewardsInForce
<1>1. RewardsInForce
  BY RewardsHold DEF RewardsInForce, Applies
<1> QED BY <1>1, PTL

-----------------------------------------------------------------------------
(* Research (ResearchRules): what is earned                                *)

Records   == DOMAIN Research
Mechanics == {i \in Records : Research[i].cat = MechanicCat}

\* The token names the species.
Means(token, species) == token \in DOMAIN KeyOf /\ KeyOf[token] = species

\* What the proofs need of the constants.
LEMMA ResearchConstants ==
  /\ Records \subseteq Nat /\ IsFiniteSet(Records) /\ Moves \in Nat /\ Saved \subseteq 0..Complete4
  /\ \A i \in Records : Research[i].level \in Nat
  /\ Gates \subseteq Mechanics /\ Playable = Records \ Gates
  /\ \A i \in Records : Research[i].cat = AnimalCat => i \in Playable
  /\ \A t, u \in DOMAIN KeyOf : KeyOf[t] = KeyOf[u] => t = u
<1>1. Gates \subseteq Mechanics
  BY TablesAssumption DEF TablesAssumption, Gates, Mechanics, Records
<1>2. \A i \in Mechanics : Research[i].cat # AnimalCat
  BY DEF Mechanics, AnimalCat, MechanicCat
<1>3. Playable = Records \ Gates
  BY DEF Playable, Records
<1>4. /\ Records \subseteq Nat /\ Moves \in Nat /\ Saved \subseteq 0..Complete4
      /\ \A i \in Records : Research[i].level \in Nat
  BY ResearchAssumption DEF ResearchAssumption, Records
<1>5. /\ IsFiniteSet(Records)
      /\ \A t, u \in DOMAIN KeyOf : KeyOf[t] = KeyOf[u] => t = u
  BY TablesAssumption DEF TablesAssumption, Records
<1> QED BY <1>1, <1>2, <1>3, <1>4, <1>5

\* What a location is named after.
LEMMA LocationIs ==
  ASSUME NEW l \in Located
  PROVE  /\ l[1] = "title" \/ l[1] = "welfare"
         /\ l[3] \in Nat
         /\ l[1] = "title" => \A i \in Records : Research[i].title = l[2]
                                => i \in Playable \cap Mechanics
<1>1. /\ l[1] \in {"title", "welfare"} /\ l[3] \in Nat
      /\ l[1] = "title" => l[2] \notin GateTitles
  BY TablesAssumption DEF TablesAssumption
<1>2. ASSUME l[1] = "title", NEW i \in Records, Research[i].title = l[2]
      PROVE  i \in Playable \cap Mechanics
  <2>1. i \notin Gates
    BY <1>1, <1>2 DEF Gates
  <2>2. Research[i].cat = MechanicCat
    BY <1>2, TablesAssumption DEF TablesAssumption, Records
  <2> QED BY <2>1, <2>2, ResearchConstants DEF Mechanics
<1> QED BY <1>1, <1>2

\* The records of a species are a finite set that the player researches.
LEMMA StandardIs ==
  ASSUME NEW token
  PROVE  /\ Standard(token) \subseteq Playable /\ IsFiniteSet(Standard(token))
         /\ \A j, k \in Standard(token) : Research[j].level = Research[k].level => j = k
         /\ \A j \in Standard(token) : Research[j].token = token /\ Research[j].cat = AnimalCat
<1>1. \A j \in Standard(token) : /\ j \in Records /\ Research[j].token = token
                                 /\ Research[j].cat = AnimalCat
  BY DEF Standard, Records
<1>2. Standard(token) \subseteq Playable
  BY <1>1, ResearchConstants
<1>3. IsFiniteSet(Standard(token))
  <2>1. Standard(token) \in SUBSET Records
    BY <1>1
  <2> QED BY <2>1, ResearchConstants, FS_Subset
<1>4. ASSUME NEW j \in Standard(token), NEW k \in Standard(token),
             Research[j].level = Research[k].level
      PROVE  j = k
  <2>1. j \in DOMAIN Research /\ Standard(token) = Standard(Research[j].token)
    BY <1>1 DEF Records
  <2> QED BY <1>4, <2>1, TablesAssumption DEF TablesAssumption
<1> QED BY <1>1, <1>2, <1>3, <1>4

\* The records of a species below the level of j.
Lower(token, j) == {k \in Standard(token) : Research[k].level < Research[j].level}

LEMMA LowerIs ==
  ASSUME NEW token, NEW j \in Standard(token)
  PROVE  /\ Cardinality(Lower(token, j)) \in Nat
         /\ Cardinality(Lower(token, j) \cup {j}) = Cardinality(Lower(token, j)) + 1
<1>1. IsFiniteSet(Lower(token, j))
  <2>1. Lower(token, j) \in SUBSET Standard(token)
    BY DEF Lower
  <2> QED BY <2>1, StandardIs, FS_Subset
<1>2. j \notin Lower(token, j)
  <2>1. Research[j].level \in Nat
    BY StandardIs, ResearchConstants
  <2> QED BY <2>1 DEF Lower
<1> QED BY <1>1, <1>2, FS_AddElement, FS_CardinalityType

\* What of a species was researched to the level, or to the last (level 0).
Researched(token, level, items) ==
  IF level = 0 THEN Standard(token) # {} /\ Standard(token) \subseteq items
  ELSE \E i \in Standard(token) \cap items : Cardinality(Lower(token, i)) = level - 1

LEMMA EarnedIs ==
  ASSUME NEW l \in Located, NEW items
  PROVE  Earned(l, items) <=>
           IF l[1] = "title" THEN \E i \in items : Research[i].title = l[2]
           ELSE \E token \in DOMAIN KeyOf : Means(token, l[2]) /\ Researched(token, l[3], items)
<1>1. CASE l[1] = "title"
  BY <1>1 DEF Earned
<1>2. CASE l[1] = "welfare"
  BY <1>2 DEF Earned, Means, Researched, Lower
<1> QED BY <1>1, <1>2, LocationIs

\* Who collects more has earned no less.
LEMMA EarnedGrows ==
  ASSUME NEW l \in Located, NEW few, NEW many, few \subseteq many, Earned(l, few)
  PROVE  Earned(l, many)
<1>1. ASSUME NEW token, Researched(token, l[3], few) PROVE Researched(token, l[3], many)
  BY <1>1 DEF Researched
<1>2. CASE l[1] = "title"
  BY <1>2, EarnedIs
<1>3. CASE l[1] # "title"
  <2>1. PICK token \in DOMAIN KeyOf : Means(token, l[2]) /\ Researched(token, l[3], few)
    BY <1>3, EarnedIs
  <2>2. Means(token, l[2]) /\ Researched(token, l[3], many)
    BY <1>1, <2>1
  <2> QED BY <1>3, <2>1, <2>2, EarnedIs
<1> QED BY <1>2, <1>3

-----------------------------------------------------------------------------
(* Research: what is read                                                  *)

\* What a park and the client hold about research.
ZooRecords ==
  [status : [Records -> 0..Complete4], cat : {[i \in Records |-> Research[i].cat]},
   gated : SUBSET Nat, named : SUBSET Records, collected : SUBSET Playable, last : SUBSET Nat,
   titled : SUBSET Mechanics, fired : SUBSET Located, barriers : Nat,
   facilities : SUBSET DOMAIN FacilityGates, contents : SUBSET DOMAIN ApGate]

ZooOf(s, g, r, c, l, t, f, b, fs, cs) ==
  [status |-> s, cat |-> [i \in Records |-> Research[i].cat], gated |-> g, named |-> r,
   collected |-> c, last |-> l, titled |-> t, fired |-> f, barriers |-> b,
   facilities |-> fs, contents |-> cs]

\* What stands completed in the park.
Done(p) == {i \in Playable : p.status[i] = Complete4}

LEMMA ZooIs ==
  ASSUME NEW p \in ZooRecords
  PROVE  /\ p.status \in [Records -> 0..Complete4] /\ p.gated \in SUBSET Nat
         /\ p.cat = [i \in Records |-> Research[i].cat]
         /\ p.named \in SUBSET Records /\ p.collected \in SUBSET Playable /\ p.last \in SUBSET Nat
         /\ p.titled \in SUBSET Mechanics /\ p.fired \in SUBSET Located /\ p.barriers \in Nat
         /\ p.facilities \in SUBSET DOMAIN FacilityGates
         /\ p.contents \in SUBSET DOMAIN ApGate
         /\ p = ZooOf(p.status, p.gated, p.named, p.collected, p.last, p.titled, p.fired,
                      p.barriers, p.facilities, p.contents)
BY DEF ZooRecords, ZooOf

\* A record the client takes for a species names it, and it finds one if the
\* species has a record and all names can be resolved.
LEMMA WelfareItemIs ==
  ASSUME NEW p \in ZooRecords, NEW species
  PROVE  /\ \A i \in WelfareItem(p, species) : i \in Records /\ Means(Research[i].token, species)
         /\ p.named = Records => \A token \in DOMAIN KeyOf :
              Means(token, species) /\ Standard(token) # {} =>
                \E i \in WelfareItem(p, species) : Research[i].token = token
<1> DEFINE of == {i \in p.named : /\ Research[i].cat = AnimalCat
                                  /\ Research[i].token \in DOMAIN KeyOf
                                  /\ KeyOf[Research[i].token] = species}
<1>1. /\ of \in SUBSET Nat
      /\ \A i \in of : i \in Records /\ Means(Research[i].token, species)
  BY ZooIs, ResearchConstants DEF Means, Records
<1>2. of # {} => Min(of) \in of
  <2> SUFFICES ASSUME of # {} PROVE Min(of) \in of
    OBVIOUS
  <2> HIDE DEF of
  <2>1. PICK m \in of : \A k \in of : m <= k
    BY <1>1, FirstNumber
  <2> QED BY <2>1 DEF Min
<1>3. ASSUME p.named = Records, NEW token \in DOMAIN KeyOf, Means(token, species), Standard(token) # {}
      PROVE  \E j \in of : Research[j].token = token
  <2>1. PICK j \in Standard(token) : TRUE
    BY <1>3
  <2>2. Research[j].token = token /\ Research[j].cat = AnimalCat /\ j \in Records
    BY <2>1, StandardIs DEF Standard, Records
  <2> QED BY <1>3, <2>2 DEF Means
<1>4. ASSUME NEW i, NEW token, Means(Research[i].token, species), Means(token, species)
      PROVE  Research[i].token = token
  BY <1>4, ResearchConstants DEF Means
<1>5. CASE species \in DOMAIN Captured
  <2>1. WelfareItem(p, species) = {Captured[species]} \cap Records
    BY <1>5 DEF WelfareItem, Records
  <2>2. \A i \in Records : i = Captured[species] => Means(Research[i].token, species)
    BY <1>5, TablesAssumption DEF TablesAssumption, Means, Records
  <2>3. of # {} => Captured[species] \in Records
    BY <1>5, ZooIs, TablesAssumption DEF TablesAssumption, Records
  <2> HIDE DEF of
  <2> QED BY <1>3, <1>4, <2>1, <2>2, <2>3
<1>6. CASE species \notin DOMAIN Captured
  <2>1. WelfareItem(p, species) = IF of # {} THEN {Min(of)} ELSE {}
    BY <1>6 DEF WelfareItem, DerivedItem
  <2> HIDE DEF of
  <2> QED BY <1>1, <1>2, <1>3, <1>4, <2>1
<1> QED BY <1>5, <1>6

\* The level that the client reads from the order of the records is the one
\* with so many below it, because no two records have the same level.
LEMMA LevelIs ==
  ASSUME NEW p \in ZooRecords, NEW species, NEW level \in Nat, level # 0
  PROVE  WelfareLevelComplete(p, species, level) <=>
           \E i \in WelfareItem(p, species) : Researched(Research[i].token, level, Done(p))
<1> DEFINE UpTo(std, j) == {k \in std : \/ Research[k].level < Research[j].level
                                        \/ /\ Research[k].level = Research[j].level
                                           /\ p.status[k] <= p.status[j]}
           Below(std, j) == {k \in UpTo(std, j) : \/ Research[k].level < Research[j].level
                                                  \/ p.status[k] < p.status[j]}
           At(std) == \E j \in std : /\ Cardinality(Below(std, j)) < level
                                     /\ level <= Cardinality(UpTo(std, j))
                                     /\ p.status[j] = Complete4
<1>1. ASSUME NEW token, NEW j \in Standard(token)
      PROVE  /\ UpTo(Standard(token), j) = Lower(token, j) \cup {j}
             /\ Below(Standard(token), j) = Lower(token, j)
  <2>1. \A k \in Standard(token) : /\ Research[k].level \in Nat /\ p.status[k] \in Int
                                   /\ Research[k].level = Research[j].level => k = j
    <3>1. Standard(token) \subseteq Records /\ p.status \in [Records -> 0..Complete4]
      BY StandardIs, ZooIs, ResearchConstants
    <3>2. \A k \in Standard(token) : p.status[k] \in Int
      BY <3>1 DEF Complete4
    <3>3. \A k \in Standard(token) : Research[k].level \in Nat
      BY <3>1, ResearchConstants
    <3> QED BY <3>2, <3>3, StandardIs
  <2>2. UpTo(Standard(token), j) = Lower(token, j) \cup {j}
    BY <2>1 DEF Lower
  <2>3. Below(Standard(token), j) = Lower(token, j)
    BY <2>1, <2>2 DEF Lower
  <2> QED BY <2>2, <2>3
<1>2. ASSUME NEW token PROVE At(Standard(token)) <=> Researched(token, level, Done(p))
  <2>1. ASSUME NEW j \in Standard(token)
        PROVE  (/\ Cardinality(Below(Standard(token), j)) < level
                /\ level <= Cardinality(UpTo(Standard(token), j))
                /\ p.status[j] = Complete4)
               <=> Cardinality(Lower(token, j)) = level - 1 /\ j \in Done(p)
    <3> HIDE DEF UpTo, Below
    <3>1. j \in Playable
      BY StandardIs
    <3> QED BY <1>1, <3>1, LowerIs DEF Done
  <2> HIDE DEF UpTo, Below
  <2> QED BY <2>1 DEF Researched
<1>3. WelfareLevelComplete(p, species, level) <=>
        \E i \in WelfareItem(p, species) : At(Standard(Research[i].token))
  BY DEF WelfareLevelComplete
<1> HIDE DEF At
<1> QED BY <1>2, <1>3

LEMMA CompleteIs ==
  ASSUME NEW p \in ZooRecords, NEW l \in Located
  PROVE  IsComplete(p, l) <=>
           IF l[1] = "title" THEN \E i \in p.titled : Research[i].title = l[2] /\ i \in Done(p)
           ELSE \E i \in WelfareItem(p, l[2]) : Researched(Research[i].token, l[3], Done(p))
<1>1. CASE l[1] = "title"
  <2>1. \A i \in p.titled : Research[i].title = l[2] => i \in Playable
    BY <1>1, ZooIs, LocationIs DEF Mechanics
  <2> QED BY <1>1, <2>1 DEF IsComplete, Done
<1>2. CASE l[1] = "welfare" /\ l[3] = 0
  <2>1. ASSUME NEW token
        PROVE  (\A j \in Standard(token) : p.status[j] = Complete4)
               <=> Standard(token) \subseteq Done(p)
    BY StandardIs DEF Done
  <2>2. WelfareComplete(p, l[2]) <=>
          \E i \in WelfareItem(p, l[2]) : Researched(Research[i].token, 0, Done(p))
    BY <2>1 DEF WelfareComplete, Researched
  <2> QED BY <1>2, <2>2 DEF IsComplete
<1>3. CASE l[1] = "welfare" /\ l[3] # 0
  <2>1. WelfareLevelComplete(p, l[2], l[3]) <=>
          \E i \in WelfareItem(p, l[2]) : Researched(Research[i].token, l[3], Done(p))
    BY <1>3, LocationIs, LevelIs
  <2> QED BY <1>3, <2>1 DEF IsComplete
<1> QED BY <1>1, <1>2, <1>3, LocationIs

\* What the client takes for complete is earned by what stands completed, and
\* the other way round where the location can be told.
LEMMA CompleteIsEarned ==
  ASSUME NEW p \in ZooRecords, NEW l \in Located
  PROVE  /\ IsComplete(p, l) => Earned(l, Done(p))
         /\ Told(p, l) /\ Earned(l, Done(p)) => IsComplete(p, l)
<1>1. CASE l[1] = "title"
  <2>1. Told(p, l) => \A i \in Done(p) : Research[i].title = l[2] => i \in p.titled
    <3>1. Done(p) \subseteq Records
      BY ResearchConstants DEF Done
    <3> QED BY <1>1, <3>1 DEF Told, Records
  <2>2. p.titled \subseteq Records
    BY ZooIs DEF Mechanics
  <2> QED BY <1>1, <2>1, CompleteIs, EarnedIs
<1>2. CASE l[1] # "title"
  <2>1. ASSUME IsComplete(p, l) PROVE Earned(l, Done(p))
    <3>1. PICK i \in WelfareItem(p, l[2]) : Researched(Research[i].token, l[3], Done(p))
      BY <1>2, <2>1, CompleteIs
    <3>2. Means(Research[i].token, l[2])
      BY <3>1, WelfareItemIs
    <3> QED BY <1>2, <3>1, <3>2, EarnedIs DEF Means
  <2>2. ASSUME Told(p, l), Earned(l, Done(p)) PROVE IsComplete(p, l)
    <3>0. p.named = Records
      BY <2>2 DEF Told, Records
    <3>1. PICK token \in DOMAIN KeyOf : Means(token, l[2]) /\ Researched(token, l[3], Done(p))
      BY <1>2, <2>2, EarnedIs
    <3>2. Standard(token) # {}
      BY <3>1 DEF Researched
    <3>3. PICK i \in WelfareItem(p, l[2]) : Research[i].token = token
      BY <3>0, <3>1, <3>2, WelfareItemIs
    <3> QED BY <1>2, <3>1, <3>3, CompleteIs
  <2> QED BY <2>1, <2>2
<1> QED BY <1>1, <1>2

-----------------------------------------------------------------------------
(* Research: what a tick does                                              *)

\* What a tick never touches; and what completes no record of the player's.
TickLeaves(p, q) == /\ q.named = p.named /\ q.collected = p.collected /\ q.barriers = p.barriers
                   /\ q.facilities = p.facilities /\ q.contents = p.contents

\* The titles once they were read.
Titles(p) == IF p.titled = {} THEN p.named \cap Mechanics ELSE p.titled

\* All names were known when the titles were, or will be, read.
Clear(p) == p.named = Records /\ p.titled \in {{}, Mechanics}

\* A location can be told in this tick.
Tellable(p, l) ==
  /\ p.named = Records
  /\ l[1] = "title" => \A i \in Records : Research[i].title = l[2] => i \in Titles(p)

LEMMA TitlesIs ==
  ASSUME NEW p \in ZooRecords, NEW q, q = ReadTitles(p)
  PROVE  /\ q \in ZooRecords /\ TickLeaves(p, q) /\ q.titled = Titles(p)
         /\ q.status = p.status /\ q.fired = p.fired /\ q.last = p.last /\ q.gated = p.gated
<1>1. TitledIn(p) = p.named \cap Mechanics
  BY ZooIs DEF TitledIn, Mechanics
<1>2. Titles(p) \in SUBSET Mechanics /\ (p.titled = {} => TitledIn(p) = Titles(p))
  BY <1>1, ZooIs DEF Titles
<1>3. q = ZooOf(p.status, p.gated, p.named, p.collected, p.last, Titles(p), p.fired,
                p.barriers, p.facilities, p.contents)
  <2>1. CASE p.titled = {}
    <3>1. PICK t : t = TitledIn(p)
      OBVIOUS
    <3>2. q = [p EXCEPT !.titled = t] /\ t = Titles(p)
      BY <2>1, <3>1, <1>2 DEF ReadTitles
    <3> QED BY <3>2, ZooIs DEF ZooOf
  <2>2. CASE p.titled # {}
    <3>1. q = p /\ Titles(p) = p.titled
      BY <2>2 DEF ReadTitles, Titles
    <3> QED BY <3>1, ZooIs
  <2> QED BY <2>1, <2>2
<1>4. /\ p.status \in [Records -> 0..Complete4] /\ p.gated \in SUBSET Nat
      /\ p.named \in SUBSET Records /\ p.collected \in SUBSET Playable /\ p.last \in SUBSET Nat
      /\ p.fired \in SUBSET Located /\ p.barriers \in Nat
      /\ p.facilities \in SUBSET DOMAIN FacilityGates
      /\ p.contents \in SUBSET DOMAIN ApGate
  BY ZooIs
<1>5. PICK t \in SUBSET Mechanics : t = Titles(p)
  BY <1>2
<1>6. /\ q.titled = t /\ q.status = p.status /\ q.fired = p.fired /\ q.last = p.last
      /\ q.gated = p.gated /\ TickLeaves(p, q)
  BY <1>3, <1>5 DEF ZooOf, TickLeaves
<1>7. q \in ZooRecords
  BY <1>3, <1>4, <1>5 DEF ZooOf, ZooRecords
<1> QED BY <1>5, <1>6, <1>7

LEMMA PollIs ==
  ASSUME NEW p \in ZooRecords, NEW q, q = PollResearch(p)
  PROVE  /\ q \in ZooRecords /\ TickLeaves(p, q) /\ q.titled = Titles(p)
         /\ q.status = p.status /\ q.last = p.last
         /\ \A l \in q.fired : l \in p.fired \/ (l \in Located /\ Earned(l, Done(p)))
         /\ \A l \in Located : Tellable(p, l) /\ Earned(l, Done(p)) => l \in q.fired
<1> DEFINE r == ReadTitles(p)
           new == {l \in Located : IsComplete(r, l)}
<1>1. /\ r \in ZooRecords /\ TickLeaves(p, r) /\ r.titled = Titles(p)
      /\ r.status = p.status /\ r.fired = p.fired /\ r.last = p.last /\ r.gated = p.gated
  BY TitlesIs
<1>2. Done(r) = Done(p)
  BY <1>1 DEF Done
<1>3. q = [r EXCEPT !.fired = r.fired \cup new]
  BY DEF PollResearch
<1>4. /\ \A l \in new : l \in Located /\ Earned(l, Done(p))
      /\ \A l \in Located : Tellable(p, l) /\ Earned(l, Done(p)) => l \in new
  <2> HIDE DEF r
  <2>1. \A l \in Located : Tellable(p, l) => Told(r, l)
    BY <1>1 DEF TickLeaves, Tellable, Told, Records
  <2> QED BY <1>1, <1>2, <2>1, CompleteIsEarned
<1> HIDE DEF r, new
<1>5. PICK f \in SUBSET Located : f = r.fired \cup new
  <2>1. r.fired \subseteq Located /\ new \subseteq Located
    BY <1>1, <1>4, ZooIs
  <2> QED BY <2>1
<1>6. q = ZooOf(r.status, r.gated, r.named, r.collected, r.last, r.titled, f,
                r.barriers, r.facilities, r.contents)
  <2>1. q = [r EXCEPT !.fired = f]
    BY <1>3, <1>5
  <2>2. r = ZooOf(r.status, r.gated, r.named, r.collected, r.last, r.titled, r.fired,
                  r.barriers, r.facilities, r.contents)
    BY <1>1, ZooIs
  <2> QED BY <2>1, <2>2 DEF ZooOf
<1>7. /\ q.titled = r.titled /\ q.status = r.status /\ q.fired = f /\ q.last = r.last
      /\ TickLeaves(r, q)
  BY <1>6 DEF ZooOf, TickLeaves
<1>8. q \in ZooRecords
  <2>1. /\ r.status \in [Records -> 0..Complete4] /\ r.gated \in SUBSET Nat
        /\ r.named \in SUBSET Records /\ r.collected \in SUBSET Playable /\ r.last \in SUBSET Nat
        /\ r.titled \in SUBSET Mechanics /\ r.barriers \in Nat
        /\ r.facilities \in SUBSET DOMAIN FacilityGates
        /\ r.contents \in SUBSET DOMAIN ApGate
    BY <1>1, ZooIs
  <2> QED BY <1>5, <1>6, <2>1 DEF ZooOf, ZooRecords
<1>9. TickLeaves(p, q)
  BY <1>1, <1>7 DEF TickLeaves
<1>10. /\ \A l \in q.fired : l \in p.fired \/ (l \in Located /\ Earned(l, Done(p)))
       /\ \A l \in Located : Tellable(p, l) /\ Earned(l, Done(p)) => l \in q.fired
  <2>1. q.fired = p.fired \cup new
    BY <1>1, <1>5, <1>7
  <2>2. ASSUME NEW l \in q.fired PROVE l \in p.fired \/ (l \in Located /\ Earned(l, Done(p)))
    BY <1>4, <2>1, <2>2
  <2>3. ASSUME NEW l \in Located, Tellable(p, l), Earned(l, Done(p)) PROVE l \in q.fired
    BY <1>4, <2>1, <2>3
  <2> QED BY <2>2, <2>3
<1> QED BY <1>1, <1>7, <1>8, <1>9, <1>10

\* Gates are completed where the titles are known, and nothing else is.
LEMMA WriteIs ==
  ASSUME NEW p \in ZooRecords, NEW w, NEW q, q = WriteGates(p, w)
  PROVE  /\ q \in ZooRecords /\ TickLeaves(p, q) /\ q.titled = Titles(p) /\ q.fired = p.fired
         /\ \A i \in Records :
              q.status[i] = Complete4 <=>
                p.status[i] = Complete4 \/ (i \in Titles(p) /\ Research[i].title \in w)
<1> DEFINE r == ReadTitles(p)
           s == [i \in Records |->
                  IF i \in r.titled /\ Research[i].title \in w /\ r.status[i] < Complete4
                  THEN Complete4 ELSE r.status[i]]
<1>1. /\ r \in ZooRecords /\ TickLeaves(p, r) /\ r.titled = Titles(p)
      /\ r.status = p.status /\ r.fired = p.fired
  BY TitlesIs
<1>2. q = [r EXCEPT !.status = s]
  BY DEF WriteGates, Records
<1> HIDE DEF r
<1>3. \A i \in Records : r.status[i] \in 0..Complete4 /\ Complete4 \in 0..Complete4
  <2>1. r.status \in [Records -> 0..Complete4]
    BY <1>1, ZooIs
  <2>2. Complete4 \in 0..Complete4
    BY DEF Complete4
  <2> QED BY <2>1, <2>2
<1>4. s \in [Records -> 0..Complete4]
  BY <1>3
<1>5. \A i \in Records :
        s[i] = Complete4 <=>
          r.status[i] = Complete4 \/ (i \in r.titled /\ Research[i].title \in w)
  <2> TAKE i \in Records
  <2>1. PICK n \in 0..Complete4 : n = r.status[i]
    BY <1>3
  <2>2. s[i] = IF i \in r.titled /\ Research[i].title \in w /\ n < Complete4 THEN Complete4 ELSE n
    BY <2>1
  <2> HIDE DEF s
  <2>3. s[i] = Complete4 <=> n = Complete4 \/ (i \in r.titled /\ Research[i].title \in w)
    BY <2>2 DEF Complete4
  <2> QED BY <2>1, <2>3
<1> HIDE DEF s
<1>6. q = ZooOf(s, r.gated, r.named, r.collected, r.last, r.titled, r.fired,
                r.barriers, r.facilities, r.contents)
  <2>1. r = ZooOf(r.status, r.gated, r.named, r.collected, r.last, r.titled, r.fired,
                  r.barriers, r.facilities, r.contents)
    BY <1>1, ZooIs
  <2> QED BY <1>2, <2>1 DEF ZooOf
<1>7. q.titled = r.titled /\ q.status = s /\ q.fired = r.fired /\ TickLeaves(r, q)
  BY <1>6 DEF ZooOf, TickLeaves
<1>8. q \in ZooRecords
  <2>1. /\ r.gated \in SUBSET Nat
        /\ r.named \in SUBSET Records /\ r.collected \in SUBSET Playable /\ r.last \in SUBSET Nat
        /\ r.titled \in SUBSET Mechanics /\ r.fired \in SUBSET Located /\ r.barriers \in Nat
        /\ r.facilities \in SUBSET DOMAIN FacilityGates
        /\ r.contents \in SUBSET DOMAIN ApGate
    BY <1>1, ZooIs
  <2> QED BY <1>4, <1>6, <2>1 DEF ZooOf, ZooRecords
<1>9. TickLeaves(p, q)
  BY <1>1, <1>7 DEF TickLeaves
<1> QED BY <1>1, <1>5, <1>7, <1>8, <1>9

\* What is stopped was not complete.
LEMMA HoldIs ==
  ASSUME NEW p \in ZooRecords, NEW kept \in Losses, NEW q, q = HoldResearch(p, kept)
  PROVE  /\ q \in ZooRecords /\ TickLeaves(p, q) /\ q.titled = p.titled /\ q.fired = p.fired
         /\ \A i \in Records : q.status[i] = Complete4 <=> p.status[i] = Complete4
<1> DEFINE cats == GatedCategories(DOMAIN CategoryOf, p.facilities)
           s == [r \in Records |->
                  IF Research[r].cat \in cats /\ p.status[r] = Researching /\ r \notin kept
                  THEN Researchable ELSE p.status[r]]
           gates == IF kept = {} THEN cats ELSE p.gated
<1>1. cats \in SUBSET Nat
  BY DEF GatedCategories, ResearchFacilities, CategoryOf
<1>2. CASE cats = p.last
  <2>1. q = p
    BY <1>2 DEF HoldResearch
  <2> QED BY <2>1 DEF TickLeaves
<1>3. CASE cats # p.last
  <2> HIDE DEF cats
  <2>0. \A i \in Records : p.status[i] \in 0..Complete4 /\ p.cat[i] = Research[i].cat
    <3>1. /\ p.status \in [Records -> 0..Complete4]
          /\ p.cat = [i \in Records |-> Research[i].cat]
      BY ZooIs
    <3> QED BY <3>1
  <2>2. PICK z : z = IF kept = {} THEN WriteGated(p, cats) ELSE p
    OBVIOUS
  <2>1. q = [StopInProgress(z, cats, kept) EXCEPT !.last = cats]
    BY <1>3, <2>2 DEF HoldResearch, cats
  <2>3. z = ZooOf(p.status, gates, p.named, p.collected, p.last, p.titled, p.fired,
                  p.barriers, p.facilities, p.contents)
    BY <2>2, ZooIs DEF WriteGated, ZooOf
  <2>4. z.status = p.status /\ z.cat = p.cat /\ DOMAIN z.status = Records
    BY <2>3, ZooIs DEF ZooOf
  <2>5. s \in [Records -> 0..Complete4]
    BY <2>0 DEF Complete4, Researchable
  <2>6. \A i \in Records : s[i] = Complete4 <=> p.status[i] = Complete4
    BY <2>0 DEF Complete4, Researching, Researchable
  <2>7. StopInProgress(z, cats, kept) = [z EXCEPT !.status = s]
    BY <2>0, <2>4 DEF StopInProgress
  <2> HIDE DEF s
  <2>8. q = ZooOf(s, gates, p.named, p.collected, cats, p.titled, p.fired,
                  p.barriers, p.facilities, p.contents)
    BY <2>1, <2>3, <2>7 DEF ZooOf
  <2>9. q.titled = p.titled /\ q.status = s /\ q.fired = p.fired /\ TickLeaves(p, q)
    BY <2>8 DEF ZooOf, TickLeaves
  <2>10. q \in ZooRecords
    <3>1. /\ p.named \in SUBSET Records /\ p.collected \in SUBSET Playable
          /\ p.titled \in SUBSET Mechanics /\ p.fired \in SUBSET Located /\ p.barriers \in Nat
          /\ p.facilities \in SUBSET DOMAIN FacilityGates
          /\ p.contents \in SUBSET DOMAIN ApGate /\ gates \in SUBSET Nat
      BY <1>1, ZooIs
    <3> HIDE DEF gates
    <3> QED BY <1>1, <2>5, <2>8, <3>1 DEF ZooOf, ZooRecords
  <2> QED BY <2>6, <2>9, <2>10
<1> QED BY <1>2, <1>3

\* The titles of the gates that the items received open.
Wanted(p) == BarrierTitles(p.barriers) \cup FacilityTitles(p.facilities)
             \cup MechanicTitles(p.contents)

LEMMA WantedAreGates ==
  ASSUME NEW p \in ZooRecords
  PROVE  Wanted(p) \subseteq GateTitles
<1>1. ASSUME NEW t \in BarrierTitles(p.barriers) PROVE t \in ToSet(BarrierGrades)
  <2>1. p.barriers \in Nat
    BY ZooIs
  <2>2. PICK g \in 1..(IF p.barriers < 6 THEN p.barriers ELSE 6) : t = BarrierGrades[g]
    BY <1>1 DEF BarrierTitles
  <2>3. g \in 1..6
    BY <2>1, <2>2
  <2>4. DOMAIN BarrierGrades = 1..6
    BY DEF BarrierGrades
  <2> QED BY <2>2, <2>3, <2>4 DEF ToSet
<1>2. FacilityTitles(p.facilities) \subseteq {"guestspawner", "parkgate"}
  BY DEF FacilityTitles, FacilityGates
<1>3. MechanicTitles(p.contents) \subseteq {ApGate[c] : c \in DOMAIN ApGate}
  BY DEF MechanicTitles
<1> QED BY <1>1, <1>2, <1>3 DEF Wanted, GateTitles

\* Reading the titles again finds no more.
LEMMA TitlesStay ==
  ASSUME NEW p, NEW q, q.titled = Titles(p), q.named = p.named
  PROVE  Titles(q) = Titles(p)
BY DEF Titles

LEMMA OneResearchTick ==
  ASSUME NEW p \in ZooRecords, NEW kept \in Losses, NEW q, q = ResearchTick(p, kept)
  PROVE  /\ q \in ZooRecords /\ TickLeaves(p, q) /\ q.titled = Titles(p)
         /\ \A i \in Records :
              q.status[i] = Complete4 <=>
                p.status[i] = Complete4 \/ (i \in Titles(p) /\ Research[i].title \in Wanted(p))
         /\ \A l \in q.fired : l \in p.fired \/ (l \in Located /\ Earned(l, Done(p)))
         /\ \A l \in Located : Tellable(p, l) /\ Earned(l, Done(p)) => l \in q.fired
<1> DEFINE b == BarrierTitles(p.barriers)
           f == FacilityTitles(p.facilities)
           m == MechanicTitles(p.contents)
<1>1. PICK u : u = PollResearch(p)
  OBVIOUS
<1>2. PICK v : v = WriteGates(u, b)
  OBVIOUS
<1>3. PICK w : w = HoldResearch(v, kept)
  OBVIOUS
<1>4. PICK x : x = WriteGates(w, f)
  OBVIOUS
<1>5. q = WriteGates(x, m)
  BY <1>1, <1>2, <1>3, <1>4 DEF ResearchTick
<1> HIDE DEF b, f, m
<1>6. /\ u \in ZooRecords /\ TickLeaves(p, u) /\ u.titled = Titles(p) /\ u.status = p.status
      /\ \A l \in u.fired : l \in p.fired \/ (l \in Located /\ Earned(l, Done(p)))
      /\ \A l \in Located : Tellable(p, l) /\ Earned(l, Done(p)) => l \in u.fired
  BY <1>1, PollIs
<1>7. Titles(u) = Titles(p)
  BY <1>6, TitlesStay DEF TickLeaves
<1>8. /\ v \in ZooRecords /\ TickLeaves(u, v) /\ v.titled = Titles(p) /\ v.fired = u.fired
      /\ \A i \in Records :
           v.status[i] = Complete4 <=>
             p.status[i] = Complete4 \/ (i \in Titles(p) /\ Research[i].title \in b)
  BY <1>2, <1>6, <1>7, WriteIs
<1>9. /\ w \in ZooRecords /\ TickLeaves(v, w) /\ w.titled = Titles(p) /\ w.fired = u.fired
      /\ \A i \in Records : w.status[i] = Complete4 <=> v.status[i] = Complete4
  BY <1>3, <1>8, HoldIs
<1>10. Titles(w) = Titles(p)
  BY <1>6, <1>8, <1>9, TitlesStay DEF TickLeaves
<1>11. /\ x \in ZooRecords /\ TickLeaves(w, x) /\ x.titled = Titles(p) /\ x.fired = u.fired
       /\ \A i \in Records :
            x.status[i] = Complete4 <=>
              w.status[i] = Complete4 \/ (i \in Titles(p) /\ Research[i].title \in f)
  BY <1>4, <1>9, <1>10, WriteIs
<1>12. Titles(x) = Titles(p)
  BY <1>6, <1>8, <1>9, <1>11, TitlesStay DEF TickLeaves
<1>13. /\ q \in ZooRecords /\ TickLeaves(x, q) /\ q.titled = Titles(p) /\ q.fired = u.fired
       /\ \A i \in Records :
            q.status[i] = Complete4 <=>
              x.status[i] = Complete4 \/ (i \in Titles(p) /\ Research[i].title \in m)
  BY <1>5, <1>11, <1>12, WriteIs
<1>14. TickLeaves(p, q)
  BY <1>6, <1>8, <1>9, <1>11, <1>13 DEF TickLeaves
<1>15. ASSUME NEW i \in Records
       PROVE  q.status[i] = Complete4 <=>
                p.status[i] = Complete4 \/ (i \in Titles(p) /\ Research[i].title \in Wanted(p))
  <2>1. Research[i].title \in Wanted(p) <=>
          \/ Research[i].title \in b
          \/ Research[i].title \in f
          \/ Research[i].title \in m
    BY DEF Wanted, b, f, m
  <2> QED BY <1>8, <1>9, <1>11, <1>13, <2>1
<1>16. \A l \in q.fired : l \in p.fired \/ (l \in Located /\ Earned(l, Done(p)))
  BY <1>6, <1>13
<1>17. \A l \in Located : Tellable(p, l) /\ Earned(l, Done(p)) => l \in q.fired
  BY <1>6, <1>13
<1> QED BY <1>13, <1>14, <1>15, <1>16, <1>17

-----------------------------------------------------------------------------
(* Research: histories                                                     *)

\* Parks that histories lead to from a saved one: what stands completed there,
\* or is in the saved park, was collected by the player; what is reported was
\* earned; no gate is open that no item opened.
Zoos(saved) ==
  {p \in ZooRecords :
     /\ \A i \in Playable : saved[i] = Complete4 => i \in p.collected
     /\ \A i \in Playable : p.status[i] = Complete4 => i \in p.collected
     /\ \A l \in p.fired : Earned(l, p.collected)
     /\ \A i \in Gates : p.status[i] = Complete4 => Research[i].title \in Wanted(p)}

Snapshots == [Playable -> 0..Complete4]

LEMMA TickKeepsZoos ==
  ASSUME NEW saved, NEW p \in Zoos(saved), NEW kept \in Losses, NEW q, q = ResearchTick(p, kept)
  PROVE  q \in Zoos(saved) /\ q.named = p.named /\ q.titled = Titles(p) /\ Done(q) = Done(p)
<1>1. /\ p \in ZooRecords
      /\ \A i \in Playable : saved[i] = Complete4 => i \in p.collected
      /\ \A i \in Playable : p.status[i] = Complete4 => i \in p.collected
      /\ \A l \in p.fired : Earned(l, p.collected)
      /\ \A i \in Gates : p.status[i] = Complete4 => Research[i].title \in Wanted(p)
  BY DEF Zoos
<1>2. /\ q \in ZooRecords /\ TickLeaves(p, q) /\ q.titled = Titles(p)
      /\ \A i \in Records :
           q.status[i] = Complete4 <=>
             p.status[i] = Complete4 \/ (i \in Titles(p) /\ Research[i].title \in Wanted(p))
      /\ \A l \in q.fired : l \in p.fired \/ (l \in Located /\ Earned(l, Done(p)))
  BY <1>1, OneResearchTick
<1>3. q.collected = p.collected /\ q.named = p.named /\ Wanted(q) = Wanted(p)
  BY <1>2 DEF TickLeaves, Wanted
<1>4. \A i \in Playable : i \in Records /\ Research[i].title \notin Wanted(p)
  BY <1>1, WantedAreGates, ResearchConstants DEF Gates, Records
<1>5. \A i \in Playable : q.status[i] = Complete4 <=> p.status[i] = Complete4
  BY <1>2, <1>4
<1>6. ASSUME NEW l \in q.fired PROVE Earned(l, q.collected)
  <2>1. CASE l \in p.fired
    BY <1>1, <1>3, <2>1
  <2>2. CASE l \in Located /\ Earned(l, Done(p))
    <3>1. Done(p) \subseteq p.collected
      BY <1>1 DEF Done
    <3> QED BY <1>3, <2>2, <3>1, EarnedGrows
  <2> QED BY <1>2, <2>1, <2>2
<1>7. \A i \in Gates : q.status[i] = Complete4 => Research[i].title \in Wanted(q)
  BY <1>1, <1>2, <1>3, ResearchConstants DEF Mechanics
<1>8. Done(q) = Done(p)
  BY <1>5 DEF Done
<1> QED BY <1>1, <1>2, <1>3, <1>5, <1>6, <1>7, <1>8 DEF Zoos

LEMMA WantedGrows ==
  ASSUME NEW p, NEW q, p.barriers \in Nat, q.barriers \in Nat, p.barriers <= q.barriers,
         p.facilities \subseteq q.facilities, p.contents \subseteq q.contents
  PROVE  Wanted(p) \subseteq Wanted(q)
<1>1. ASSUME NEW t \in BarrierTitles(p.barriers) PROVE t \in BarrierTitles(q.barriers)
  <2>1. PICK g \in 1..(IF p.barriers < 6 THEN p.barriers ELSE 6) : t = BarrierGrades[g]
    BY <1>1 DEF BarrierTitles
  <2>2. g \in 1..(IF q.barriers < 6 THEN q.barriers ELSE 6)
    BY <2>1
  <2> QED BY <2>1, <2>2 DEF BarrierTitles
<1>2. FacilityTitles(p.facilities) \subseteq FacilityTitles(q.facilities)
  BY DEF FacilityTitles
<1>3. MechanicTitles(p.contents) \subseteq MechanicTitles(q.contents)
  BY DEF MechanicTitles
<1> QED BY <1>1, <1>2, <1>3 DEF Wanted

\* Whatever else happens collects what it completes, and loses no item.
LEMMA ChangeKeepsZoos ==
  ASSUME NEW saved, NEW p \in Zoos(saved), NEW q \in ZooRecords,
         q.fired = p.fired, p.collected \subseteq q.collected, p.barriers <= q.barriers,
         p.facilities \subseteq q.facilities, p.contents \subseteq q.contents,
         \A i \in Playable : q.status[i] = Complete4 => i \in q.collected,
         \A i \in Gates : q.status[i] = Complete4 => p.status[i] = Complete4
  PROVE  q \in Zoos(saved)
<1>1. /\ p \in ZooRecords
      /\ \A i \in Playable : saved[i] = Complete4 => i \in p.collected
      /\ \A l \in p.fired : Earned(l, p.collected)
      /\ \A i \in Gates : p.status[i] = Complete4 => Research[i].title \in Wanted(p)
  BY DEF Zoos
<1>2. Wanted(p) \subseteq Wanted(q)
  <2>1. p.barriers \in Nat /\ q.barriers \in Nat
    BY <1>1, ZooIs
  <2> QED BY <2>1, WantedGrows
<1>3. \A l \in p.fired : Earned(l, q.collected)
  <2>1. p.fired \subseteq Located
    BY <1>1, ZooIs
  <2> QED BY <1>1, <2>1, EarnedGrows
<1> QED BY <1>1, <1>2, <1>3 DEF Zoos

\* The events that change only statuses and what was collected.
LEMMA StatusKeepsZoos ==
  ASSUME NEW saved, NEW p \in Zoos(saved), NEW s \in [Records -> 0..Complete4],
         NEW c \in SUBSET Playable, p.collected \subseteq c, NEW q,
         q = ZooOf(s, p.gated, p.named, c, p.last, p.titled, p.fired,
                   p.barriers, p.facilities, p.contents),
         \A i \in Playable : s[i] = Complete4 => i \in c,
         \A i \in Gates : s[i] = Complete4 => p.status[i] = Complete4
  PROVE  q \in Zoos(saved) /\ q.named = p.named /\ q.titled = p.titled
<1>1. p \in ZooRecords
  BY DEF Zoos
<1>2. /\ q.status = s /\ q.named = p.named /\ q.titled = p.titled /\ q.collected = c /\ q.fired = p.fired
      /\ q.barriers = p.barriers /\ q.facilities = p.facilities /\ q.contents = p.contents
  BY DEF ZooOf
<1>3. q \in ZooRecords
  <2>1. /\ p.gated \in SUBSET Nat /\ p.named \in SUBSET Records /\ p.last \in SUBSET Nat
        /\ p.titled \in SUBSET Mechanics /\ p.fired \in SUBSET Located /\ p.barriers \in Nat
        /\ p.facilities \in SUBSET DOMAIN FacilityGates
        /\ p.contents \in SUBSET DOMAIN ApGate
    BY <1>1, ZooIs
  <2> QED BY <2>1 DEF ZooOf, ZooRecords
<1>4. p.barriers <= q.barriers
  <2>1. p.barriers \in Nat
    BY <1>1, ZooIs
  <2> QED BY <1>2, <2>1
<1> QED BY <1>2, <1>3, <1>4, ChangeKeepsZoos

LEMMA SavedStatus ==
  ASSUME NEW saved \in Snapshots
  PROVE  /\ StatusOf(saved) \in [Records -> 0..Complete4]
         /\ \A i \in Playable : StatusOf(saved)[i] = saved[i]
         /\ \A i \in Gates : StatusOf(saved)[i] # Complete4
<1>1. \A i \in Records : i \in Gates \/ i \in Playable
  BY ResearchConstants
<1>2. 0 \in 0..Complete4 /\ 0 # Complete4
  BY DEF Complete4
<1>3. StatusOf(saved) = [i \in Records |-> IF i \in Gates THEN 0 ELSE saved[i]]
  BY DEF StatusOf, Records
<1>4. \A i \in Playable : i \in Records /\ i \notin Gates
  BY ResearchConstants
<1>5. \A i \in Gates : i \in Records
  BY ResearchConstants DEF Mechanics
<1> QED BY <1>1, <1>2, <1>3, <1>4, <1>5 DEF Snapshots

LEMMA NewZoo ==
  ASSUME NEW saved \in Snapshots, NEW named \in SUBSET Records, NEW p, p = ParkWith(saved, named)
  PROVE  p \in Zoos(saved) /\ p.named = named /\ p.titled = {}
<1> DEFINE c == {i \in Playable : saved[i] = Complete4}
<1>1. p = ZooOf(StatusOf(saved), {}, named, c, {}, {}, {}, 0, {}, {})
  BY DEF ParkWith, ZooOf, Records
<1>2. PICK s : s = StatusOf(saved)
  OBVIOUS
<1>3. /\ s \in [Records -> 0..Complete4] /\ \A i \in Playable : s[i] = saved[i]
      /\ \A i \in Gates : s[i] # Complete4
  BY <1>2, SavedStatus
<1>4. c \in SUBSET Playable
  OBVIOUS
<1> HIDE DEF c
<1>5. /\ p.status = s /\ p.named = named /\ p.titled = {} /\ p.collected = c /\ p.fired = {}
  BY <1>1, <1>2 DEF ZooOf
<1>6. p \in ZooRecords
  BY <1>1, <1>2, <1>3, <1>4 DEF ZooOf, ZooRecords
<1> QED BY <1>3, <1>5, <1>6 DEF Zoos, c

\* The player moves a record; what it completes is collected.
LEMMA ProceedKeeps ==
  ASSUME NEW saved, NEW p \in Zoos(saved), NEW i \in Playable, NEW q, q = Proceed(p, i)
  PROVE  q \in Zoos(saved) /\ q.named = p.named /\ q.titled = p.titled
<1>1. p \in ZooRecords /\ (\A j \in Playable : p.status[j] = Complete4 => j \in p.collected)
  BY DEF Zoos
<1>2. /\ p.status \in [Records -> 0..Complete4] /\ p.named \in SUBSET Records
      /\ p.collected \in SUBSET Playable /\ p.barriers \in Nat
      /\ p.facilities \in SUBSET DOMAIN FacilityGates /\ p.contents \in SUBSET DOMAIN ApGate
      /\ p = ZooOf(p.status, p.gated, p.named, p.collected, p.last, p.titled, p.fired,
                   p.barriers, p.facilities, p.contents)
  BY <1>1, ZooIs
<1>3. i \in Records /\ (\A j \in Gates : j # i /\ j \in Records)
  BY ResearchConstants DEF Mechanics
<1>4. PICK n \in 0..Complete4 : n = p.status[i]
  BY <1>2, <1>3
<1> DEFINE Set(v) == [p.status EXCEPT ![i] = v]
<1>5. ASSUME NEW v \in 0..Complete4, NEW c \in SUBSET Playable, p.collected \subseteq c,
             v = Complete4 => i \in c,
             q = ZooOf(Set(v), p.gated, p.named, c, p.last, p.titled, p.fired,
                       p.barriers, p.facilities, p.contents)
      PROVE  q \in Zoos(saved) /\ q.named = p.named /\ q.titled = p.titled
  <2>1. PICK s : s = Set(v)
    OBVIOUS
  <2>2. s \in [Records -> 0..Complete4]
    BY <1>2, <2>1
  <2>3. \A j \in Playable : s[j] = Complete4 => j \in c
    <3>1. \A j \in Playable : j \in Records
      BY ResearchConstants
    <3> QED BY <1>1, <1>2, <1>5, <2>1, <3>1
  <2>4. \A j \in Gates : s[j] = Complete4 => p.status[j] = Complete4
    BY <1>2, <1>3, <2>1
  <2>5. q = ZooOf(s, p.gated, p.named, c, p.last, p.titled, p.fired,
                  p.barriers, p.facilities, p.contents)
    BY <1>5, <2>1
  <2> HIDE DEF Set
  <2> QED BY <1>5, <2>2, <2>3, <2>4, <2>5, StatusKeepsZoos
<1>6. CASE n = 1
  <2>1. CASE p.cat[i] \notin p.gated
    <3>1. q = [p EXCEPT !.status = Set(2)]
      <4>1. q = Start(p, i)
        BY <1>4, <1>6 DEF Proceed, Researchable, Complete4
      <4>2. Start(p, i) = [p EXCEPT !.status[i] = 2]
        BY <1>4, <1>6, <2>1 DEF Start, Researchable, Researching
      <4> QED BY <4>1, <4>2
    <3>2. q = ZooOf(Set(2), p.gated, p.named, p.collected, p.last, p.titled, p.fired,
                    p.barriers, p.facilities, p.contents)
      BY <1>2, <3>1 DEF ZooOf
    <3>3. 2 \in 0..Complete4 /\ 2 # Complete4
      BY DEF Complete4
    <3> HIDE DEF Set
    <3> QED BY <1>2, <1>5, <3>2, <3>3
  <2>2. CASE p.cat[i] \in p.gated
    <3>1. q = p
      BY <1>4, <1>6, <2>2 DEF Proceed, Start, Researchable
    <3> QED BY <3>1
  <2> QED BY <2>1, <2>2
<1>7. CASE n = 3
  <2>1. q = [p EXCEPT !.status = Set(4), !.collected = p.collected \cup {i}]
    BY <1>4, <1>7 DEF Proceed, Researchable, Complete4
  <2>2. PICK c \in SUBSET Playable : c = p.collected \cup {i}
    BY <1>2
  <2>3. q = ZooOf(Set(4), p.gated, p.named, c, p.last, p.titled, p.fired,
                  p.barriers, p.facilities, p.contents)
    <3>1. PICK s : s = Set(4)
      OBVIOUS
    <3>2. q = [p EXCEPT !.status = s, !.collected = c]
      BY <2>1, <2>2, <3>1
    <3> HIDE DEF Set
    <3>3. PICK z : z = [p EXCEPT !.status = s]
      OBVIOUS
    <3>4. z = ZooOf(s, p.gated, p.named, p.collected, p.last, p.titled, p.fired,
                    p.barriers, p.facilities, p.contents)
      BY <1>2, <3>3 DEF ZooOf
    <3>5. q = [z EXCEPT !.collected = c]
      BY <3>2, <3>3
    <3>6. q = ZooOf(s, p.gated, p.named, c, p.last, p.titled, p.fired,
                    p.barriers, p.facilities, p.contents)
      BY <3>4, <3>5 DEF ZooOf
    <3> QED BY <3>1, <3>6
  <2>4. 4 \in 0..Complete4 /\ i \in c /\ p.collected \subseteq c
    BY <2>2 DEF Complete4
  <2> HIDE DEF Set
  <2> QED BY <1>5, <2>2, <2>3, <2>4
<1>8. CASE n = 4
  <2>1. q = p
    BY <1>4, <1>8 DEF Proceed, Researchable, Complete4
  <2> QED BY <2>1
<1>9. CASE n \in {0, 2}
  <2>1. q = [p EXCEPT !.status = Set(n + 1)]
    BY <1>4, <1>9 DEF Proceed, Researchable, Complete4
  <2>2. PICK v : v = n + 1
    OBVIOUS
  <2>3. q = ZooOf(Set(v), p.gated, p.named, p.collected, p.last, p.titled, p.fired,
                  p.barriers, p.facilities, p.contents)
    BY <1>2, <2>1, <2>2 DEF ZooOf
  <2>4. v \in 0..Complete4 /\ v # Complete4
    BY <1>9, <2>2 DEF Complete4
  <2> HIDE DEF Set
  <2> QED BY <1>2, <1>5, <2>3, <2>4
<1> QED BY <1>4, <1>6, <1>7, <1>8, <1>9 DEF Complete4

\* The events that change only what names can be resolved, or what items were
\* received.
LEMMA GrantKeepsZoos ==
  ASSUME NEW saved, NEW p \in Zoos(saved), NEW q,
         q = ZooOf(p.status, p.gated, q.named, p.collected, p.last, p.titled, p.fired,
                   q.barriers, q.facilities, q.contents),
         q.named \in SUBSET Records, q.barriers \in Nat,
         q.facilities \in SUBSET DOMAIN FacilityGates, q.contents \in SUBSET DOMAIN ApGate,
         p.barriers <= q.barriers, p.facilities \subseteq q.facilities, p.contents \subseteq q.contents
  PROVE  q \in Zoos(saved) /\ q.titled = p.titled
<1>1. p \in ZooRecords /\ \A i \in Playable : p.status[i] = Complete4 => i \in p.collected
  BY DEF Zoos
<1>2. PICK r, b, fs, cs : r = q.named /\ b = q.barriers /\ fs = q.facilities /\ cs = q.contents
  OBVIOUS
<1>3. q = ZooOf(p.status, p.gated, r, p.collected, p.last, p.titled, p.fired, b, fs, cs)
  BY <1>2
<1>4. q.status = p.status /\ q.titled = p.titled /\ q.collected = p.collected /\ q.fired = p.fired
  BY <1>3 DEF ZooOf
<1>5. q \in ZooRecords
  <2>1. /\ p.status \in [Records -> 0..Complete4] /\ p.gated \in SUBSET Nat
        /\ p.collected \in SUBSET Playable /\ p.last \in SUBSET Nat
        /\ p.titled \in SUBSET Mechanics /\ p.fired \in SUBSET Located
    BY <1>1, ZooIs
  <2>2. /\ r \in SUBSET Records /\ b \in Nat /\ fs \in SUBSET DOMAIN FacilityGates
        /\ cs \in SUBSET DOMAIN ApGate
    BY <1>2
  <2> QED BY <1>3, <2>1, <2>2 DEF ZooOf, ZooRecords
<1> QED BY <1>1, <1>4, <1>5, ChangeKeepsZoos

LEMMA MoveKeepsZoos ==
  ASSUME NEW saved \in Snapshots, NEW p \in Zoos(saved), NEW e \in MoveEvents,
         NEW q, q = Move(p, saved, e)
  PROVE  q \in Zoos(saved) /\ (Clear(p) => Clear(q))
<1>1. /\ p.named \in SUBSET Records /\ p.barriers \in Nat
      /\ p.facilities \in SUBSET DOMAIN FacilityGates /\ p.contents \in SUBSET DOMAIN ApGate
      /\ p.collected \in SUBSET Playable
      /\ \A i \in Playable : saved[i] = Complete4 => i \in p.collected
      /\ p.barriers <= p.barriers
  <2>1. p \in ZooRecords /\ \A i \in Playable : saved[i] = Complete4 => i \in p.collected
    BY DEF Zoos
  <2>2. /\ p.named \in SUBSET Records /\ p.barriers \in Nat
        /\ p.facilities \in SUBSET DOMAIN FacilityGates /\ p.contents \in SUBSET DOMAIN ApGate
        /\ p.collected \in SUBSET Playable
    BY <2>1, ZooIs
  <2> QED BY <2>1, <2>2
<1>2. p = ZooOf(p.status, p.gated, p.named, p.collected, p.last, p.titled, p.fired,
                p.barriers, p.facilities, p.contents)
  BY ZooIs DEF Zoos
<1>c. /\ q.named = p.named /\ q.titled = p.titled => (Clear(p) => Clear(q))
      /\ q.named = Records /\ q.titled = p.titled => (Clear(p) => Clear(q))
  BY DEF Clear
<1>3. CASE e \in {"play"} \X Playable
  <2>1. e[1] = "play" /\ e[2] \in Playable
    BY <1>3
  <2>2. q = Proceed(p, e[2])
    BY <2>1 DEF Move
  <2> QED BY <1>c, <2>1, <2>2, ProceedKeeps
<1>4. CASE e \in {"facility"} \X DOMAIN FacilityGates
  <2>1. e[1] = "facility" /\ e[2] \in DOMAIN FacilityGates
    BY <1>4
  <2>2. PICK fs \in SUBSET DOMAIN FacilityGates : fs = p.facilities \cup {e[2]}
    BY <1>1, <2>1
  <2>3. q = [p EXCEPT !.facilities = fs]
    BY <2>1, <2>2 DEF Move
  <2>4. q = ZooOf(p.status, p.gated, p.named, p.collected, p.last, p.titled, p.fired,
                  p.barriers, fs, p.contents)
    BY <1>2, <2>3 DEF ZooOf
  <2>5. q.named = p.named /\ q.barriers = p.barriers /\ q.facilities = fs /\ q.contents = p.contents
    BY <2>4 DEF ZooOf
  <2>6. q \in Zoos(saved) /\ q.titled = p.titled
    BY <1>1, <2>2, <2>4, <2>5, GrantKeepsZoos
  <2> QED BY <1>c, <2>5, <2>6
<1>5. CASE e \in {"content"} \X DOMAIN ApGate
  <2>1. e[1] = "content" /\ e[2] \in DOMAIN ApGate
    BY <1>5
  <2>2. PICK cs \in SUBSET DOMAIN ApGate : cs = p.contents \cup {e[2]}
    BY <1>1, <2>1
  <2>3. q = [p EXCEPT !.contents = cs]
    BY <2>1, <2>2 DEF Move
  <2>4. q = ZooOf(p.status, p.gated, p.named, p.collected, p.last, p.titled, p.fired,
                  p.barriers, p.facilities, cs)
    BY <1>2, <2>3 DEF ZooOf
  <2>5. q.named = p.named /\ q.barriers = p.barriers /\ q.facilities = p.facilities /\ q.contents = cs
    BY <2>4 DEF ZooOf
  <2>6. q \in Zoos(saved) /\ q.titled = p.titled
    BY <1>1, <2>2, <2>4, <2>5, GrantKeepsZoos
  <2> QED BY <1>c, <2>5, <2>6
<1>6. CASE e \in {"tick"} \X Losses
  <2>1. e[1] = "tick" /\ e[2] \in Losses
    BY <1>6
  <2>2. q = ResearchTick(p, e[2])
    BY <2>1 DEF Move
  <2>3. q \in Zoos(saved) /\ q.named = p.named /\ q.titled = Titles(p)
    BY <2>1, <2>2, TickKeepsZoos
  <2> QED BY <2>3 DEF Clear, Titles, Mechanics
<1>7. CASE e \in {"names"} \X Legible
  <2>0. e[1] = "names" /\ e[2] \in SUBSET Records
    BY <1>7, ResearchAssumption DEF ResearchAssumption, Records
  <2>1. PICK r \in SUBSET Records : r = p.named \cup e[2]
    BY <1>1, <2>0
  <2>2. q = [p EXCEPT !.named = r]
    BY <2>0, <2>1 DEF Move
  <2>3. q = ZooOf(p.status, p.gated, r, p.collected, p.last, p.titled, p.fired,
                  p.barriers, p.facilities, p.contents)
    BY <1>2, <2>2 DEF ZooOf
  <2>4. q.named = r /\ q.barriers = p.barriers /\ q.facilities = p.facilities /\ q.contents = p.contents
    BY <2>3 DEF ZooOf
  <2>5. q \in Zoos(saved) /\ q.titled = p.titled
    BY <1>1, <2>3, <2>4, GrantKeepsZoos
  <2> QED BY <2>1, <2>4, <2>5 DEF Clear
<1>8. CASE e[1] = "reload"
  <2>1. PICK s : s = StatusOf(saved)
    OBVIOUS
  <2>2. q = [p EXCEPT !.status = s]
    BY <1>8, <2>1 DEF Move
  <2>3. q = ZooOf(s, p.gated, p.named, p.collected, p.last, p.titled, p.fired,
                  p.barriers, p.facilities, p.contents)
    BY <1>2, <2>2 DEF ZooOf
  <2>4. /\ s \in [Records -> 0..Complete4] /\ \A i \in Playable : s[i] = saved[i]
        /\ \A i \in Gates : s[i] # Complete4
    BY <2>1, SavedStatus
  <2>5. \A i \in Playable : s[i] = Complete4 => i \in p.collected
    BY <1>1, <2>4
  <2>6. q \in Zoos(saved) /\ q.named = p.named /\ q.titled = p.titled
    BY <1>1, <2>3, <2>4, <2>5, StatusKeepsZoos
  <2> QED BY <1>c, <2>6
<1>9. CASE e[1] = "barrier"
  <2>1. PICK b \in Nat : b = p.barriers + 1
    BY <1>1
  <2>2. q = [p EXCEPT !.barriers = b]
    BY <1>9, <2>1 DEF Move
  <2>3. q = ZooOf(p.status, p.gated, p.named, p.collected, p.last, p.titled, p.fired,
                  b, p.facilities, p.contents)
    BY <1>2, <2>2 DEF ZooOf
  <2>4. p.barriers <= b
    BY <1>1, <2>1
  <2>5. q.named = p.named /\ q.barriers = b /\ q.facilities = p.facilities /\ q.contents = p.contents
    BY <2>3 DEF ZooOf
  <2>6. q \in Zoos(saved) /\ q.titled = p.titled
    BY <1>1, <2>3, <2>4, <2>5, GrantKeepsZoos
  <2> QED BY <1>c, <2>5, <2>6
<1>10. CASE e \in {"reload", "barrier"} \X {""}
  <2>1. e[1] \in {"reload", "barrier"}
    BY <1>10
  <2> QED BY <2>1, <1>8, <1>9
<1> QED BY <1>3, <1>4, <1>5, <1>6, <1>7, <1>10 DEF MoveEvents

\* A history of any length.
LEMMA MoveHistory ==
  ASSUME NEW saved \in Snapshots, NEW named \in SUBSET Records,
         NEW N \in Nat, NEW moves \in [1..N -> MoveEvents]
  PROVE  /\ AfterMoves(saved, named, moves) \in Zoos(saved)
         /\ named = Records => Clear(AfterMoves(saved, named, moves))
<1>1. Len(moves) = N /\ 0 \in Nat /\ 0 <= N /\ 0 + 1 = 1
  OBVIOUS
<1> DEFINE S == {p \in Zoos(saved) : named = Records => Clear(p)}
           a == ParkWith(saved, named)
           One(x, n) == Move(x, saved, moves[n])
           F == [n \in 1..N |-> [x \in S |-> One(x, n)]]
           Eq(h) == h = [n \in 0..Len(moves) |->
                           IF n = 0 THEN ParkWith(saved, named) ELSE Move(h[n - 1], saved, moves[n])]
<1>2. ASSUME NEW n \in 1..N, NEW x \in S PROVE One(x, n) \in S
  <2>1. x \in Zoos(saved) /\ moves[n] \in MoveEvents
    OBVIOUS
  <2>2. One(x, n) \in Zoos(saved) /\ (Clear(x) => Clear(One(x, n)))
    BY <2>1, MoveKeepsZoos
  <2> HIDE DEF One
  <2> QED BY <2>2
<1>3. a \in S
  BY NewZoo DEF Clear
<1> HIDE DEF One, S, a
<1>4. F \in [(0 + 1)..N -> [S -> S]]
  BY <1>1, <1>2
<1>5. PICK f \in [0..N -> S] : RunOf(F, a, 0, N, f)
  <2> HIDE DEF F
  <2> QED BY <1>1, <1>3, <1>4, RunExists
<1>6. /\ f[0] = a
      /\ \A n \in (0 + 1)..N : f[n] = F[n][f[n - 1]]
  BY <1>5, Zenon DEF RunOf
<1>7. ASSUME NEW n \in 1..N PROVE f[n] = One(f[n - 1], n)
  <2>1. f[n - 1] \in S
    BY <1>1, <1>5
  <2>2. F[n][f[n - 1]] = One(f[n - 1], n)
    BY <2>1
  <2> QED BY <1>1, <1>6, <2>2
<1>8. Eq(f)
  <2>1. \A n \in 0..N : f[n] = IF n = 0 THEN a ELSE One(f[n - 1], n)
    BY <1>1, <1>6, <1>7
  <2>2. f = [n \in 0..N |-> f[n]]
    BY <1>5
  <2>3. f = [n \in 0..N |-> IF n = 0 THEN a ELSE One(f[n - 1], n)]
    BY <2>1, <2>2
  <2> QED BY <1>1, <2>3 DEF One, a
<1> DEFINE h == CHOOSE h : Eq(h)
<1>9. Eq(h)
  BY <1>8
<1>10. AfterMoves(saved, named, moves) = h[N]
  BY <1>1 DEF AfterMoves
<1> HIDE DEF h
<1>11. \A n \in 0..N : h[n] = IF n = 0 THEN a ELSE One(h[n - 1], n)
  BY <1>1, <1>9 DEF One, a
<1> DEFINE P == {n \in 0..N : h[n] \in S}
<1>12. 0 \in P
  BY <1>1, <1>3, <1>11
<1>13. ASSUME NEW n \in (0 + 1)..N, n - 1 \in P PROVE n \in P
  <2>1. n \in 0..N /\ n \in 1..N /\ n # 0 /\ h[n - 1] \in S
    BY <1>1, <1>13
  <2> QED BY <1>2, <1>11, <2>1
<1> HIDE DEF P
<1>14. \A n \in 0..N : n \in P
  BY <1>1, <1>12, <1>13, OneByOne
<1>15. N \in P
  BY <1>1, <1>14
<1>16. h[N] \in S
  BY <1>15 DEF P
<1> QED BY <1>10, <1>16 DEF S

LEMMA ChecksAreEarned == ChecksEarned
<1> USE DEF ChecksEarned
<1> TAKE saved \in [Playable -> Saved], named \in {{}, DOMAIN Research}, n \in 0..Moves
<1> TAKE moves \in [1..n -> MoveEvents], kept \in Losses
<1> DEFINE before == AfterMoves(saved, named, moves)
           p      == ResearchTick(before, kept)
<1> HIDE DEF before, p, ChecksEarned
<1>0. Records = DOMAIN Research
  BY DEF Records
<1>1. saved \in Snapshots /\ n \in Nat /\ named \in SUBSET Records
  <2>1. Saved \subseteq 0..Complete4 /\ Moves \in Nat
    BY ResearchConstants
  <2>2. saved \in Snapshots
    BY <2>1 DEF Snapshots
  <2> QED BY <1>0, <2>1, <2>2
<1>2. before \in Zoos(saved) /\ (named = Records => Clear(before))
  BY <1>0, <1>1, MoveHistory DEF before
<1>3. p \in Zoos(saved) /\ p.named = before.named /\ p.titled = Titles(before)
  BY <1>2, TickKeepsZoos DEF p
<1>4. \A l \in p.fired : Earned(l, p.collected)
  BY <1>3 DEF Zoos
<1>5. before \in ZooRecords
  BY <1>2 DEF Zoos
<1>6. \A l \in Located : Tellable(before, l) /\ Earned(l, Done(before)) => l \in p.fired
  BY <1>5, OneResearchTick DEF p
<1>7. \A l \in Located : Told(p, l) => Tellable(before, l)
  BY <1>3 DEF Told, Tellable, Records
<1>8. ASSUME named = Records, NEW l \in Located PROVE Told(p, l)
  <2>1. p.named = Records /\ p.titled = Mechanics
    BY <1>2, <1>3, <1>8 DEF Clear, Titles, Mechanics
  <2>2. l[1] = "title" => \A i \in Records : Research[i].title = l[2] => i \in Mechanics
    BY LocationIs
  <2> QED BY <2>1, <2>2 DEF Told, Records
<1> QED BY <1>0, <1>4, <1>6, <1>7, <1>8 DEF Done, before, p

\* What Wanted says, written out.
Opened(p, title) == \/ \E g \in 1..6 : g <= p.barriers /\ title = BarrierGrades[g]
                    \/ \E f \in p.facilities : title = FacilityGates[f]
                    \/ \E c \in p.contents : title = ApGate[c]

LEMMA WantedIs ==
  ASSUME NEW p \in ZooRecords, NEW title
  PROVE  title \in Wanted(p) <=> Opened(p, title)
<1>1. /\ p.barriers \in Nat /\ p.facilities \in SUBSET DOMAIN FacilityGates
      /\ p.contents \in SUBSET DOMAIN ApGate
  BY ZooIs
<1>2. title \in BarrierTitles(p.barriers) <=>
        \E g \in 1..6 : g <= p.barriers /\ title = BarrierGrades[g]
  <2>1. \A g : g \in 1..(IF p.barriers < 6 THEN p.barriers ELSE 6)
                 <=> g \in 1..6 /\ g <= p.barriers
    BY <1>1
  <2> QED BY <2>1 DEF BarrierTitles
<1>3. title \in FacilityTitles(p.facilities) <=> \E f \in p.facilities : title = FacilityGates[f]
  <2>1. p.facilities \cap DOMAIN FacilityGates = p.facilities
    BY <1>1
  <2> QED BY <2>1 DEF FacilityTitles
<1>4. title \in MechanicTitles(p.contents) <=> \E c \in p.contents : title = ApGate[c]
  <2>1. p.contents \cap DOMAIN ApGate = p.contents
    BY <1>1
  <2> QED BY <2>1 DEF MechanicTitles
<1> QED BY <1>2, <1>3, <1>4 DEF Wanted, Opened

LEMMA GatesDoFollow == GatesFollow
<1> DEFINE saved == [i \in Playable |-> Researchable]
<1> SUFFICES ASSUME NEW n \in 0..(Moves + 1), NEW moves \in [1..n -> MoveEvents],
                    NEW kept \in Losses,
                    NEW before, before = AfterMoves(saved, DOMAIN Research, moves),
                    NEW p, p = ResearchTick(before, kept), NEW i \in Gates
             PROVE  (p.status[i] = Complete4) =
                      \/ \E g \in 1..6 : g <= p.barriers /\ Research[i].title = BarrierGrades[g]
                      \/ \E f \in p.facilities : Research[i].title = FacilityGates[f]
                      \/ \E c \in p.contents : Research[i].title = ApGate[c]
  BY ZenonT(60) DEF GatesFollow
<1>0. Records = DOMAIN Research
  BY DEF Records
<1>1. saved \in Snapshots /\ n \in Nat
  BY ResearchConstants DEF Snapshots, Researchable, Complete4
<1> HIDE DEF saved
<1>2. before \in Zoos(saved) /\ Clear(before)
  BY <1>0, <1>1, MoveHistory
<1>3. before \in ZooRecords /\ (before.status[i] = Complete4 => Research[i].title \in Wanted(before))
  BY <1>2 DEF Zoos
<1>4. /\ p \in ZooRecords /\ TickLeaves(before, p)
      /\ \A j \in Records :
           p.status[j] = Complete4 <=>
             before.status[j] = Complete4
             \/ (j \in Titles(before) /\ Research[j].title \in Wanted(before))
  BY <1>3, OneResearchTick
<1>5. Titles(before) = Mechanics /\ i \in Mechanics /\ i \in Records
  <2>1. before.titled \in {{}, Mechanics} /\ before.named = Records
    BY <1>2 DEF Clear
  <2> QED BY <2>1, ResearchConstants DEF Titles, Mechanics
<1>6. p.status[i] = Complete4 <=> Research[i].title \in Wanted(before)
  BY <1>3, <1>4, <1>5
<1>7. Wanted(before) = Wanted(p)
  BY <1>4 DEF TickLeaves, Wanted
<1>8. p.status[i] = Complete4 <=> Opened(p, Research[i].title)
  BY <1>4, <1>6, <1>7, WantedIs
<1> QED BY <1>8 DEF Opened

LEMMA MilestonesAreShown == MilestonesShown
<1>1. \A v : v \in Sane["zoo_rating"] <=> v \in 0..500
  BY SMT DEF Sane
<1> DEFINE most == 200000
<1>2. \A v : v \in Sane["guest_count"] <=> v \in 0..most
  BY SMT DEF Sane
<1>m. most \in Nat
  BY SMT
<1> HIDE DEF most
<1>3. ASSUME NEW stars \in 1..5, NEW v \in 0..1000
      PROVE  MilestoneFires("zoo_rating", stars, {v}) = (v <= 500 /\ v + 25 >= 100 * stars)
  <2>1. PICK q \in Nat, r \in 0..49 : q = v \div 50 /\ r = v % 50 /\ v = 50 * q + r
    BY SMT
  <2>2. PICK k \in Nat, o \in 0..1 : o = q % 2 /\ q = 2 * k + o
    BY SMT
  <2>3. HalfStars(v) = IF r > 25 \/ (r = 25 /\ o = 1) THEN q + 1 ELSE q
    BY <2>1, <2>2, SMT DEF HalfStars
  <2>4. HalfStars(v) >= 2 * stars <=> v + 25 >= 100 * stars
    BY <2>1, <2>2, <2>3, SMT
  <2>5. MilestoneFires("zoo_rating", stars, {v}) \in BOOLEAN
    BY SMT DEF MilestoneFires
  <2>6. MilestoneFires("zoo_rating", stars, {v}) <=>
          v \in Sane["zoo_rating"] /\ HalfStars(v) >= 2 * stars
    BY SMT DEF MilestoneFires
  <2>7. v \in Sane["zoo_rating"] <=> v <= 500
    BY <1>1, SMT
  <2>8. MilestoneFires("zoo_rating", stars, {v}) <=> v <= 500 /\ v + 25 >= 100 * stars
    BY <2>4, <2>6, <2>7, SMT
  <2> QED BY <2>5, <2>8, SMT
<1>4. ASSUME NEW g \in Nat
      PROVE  MilestoneFires("guest_count", 1000, {g}) = (1000 <= g /\ g <= 200000)
  <2>1. MilestoneFires("guest_count", 1000, {g}) \in BOOLEAN
    BY SMT DEF MilestoneFires
  <2>2. MilestoneFires("guest_count", 1000, {g}) <=> g \in Sane["guest_count"] /\ g >= 1000
    BY SMT DEF MilestoneFires
  <2>3. g \in Sane["guest_count"] <=> g <= most
    BY <1>2, <1>m, SMT
  <2>4. most = 200000
    BY SMT DEF most
  <2> QED BY <2>1, <2>2, <2>3, <2>4, SMT
<1>6. ASSUME NEW guests \in {0, 999, 1000, 200000, 200001, 1953393007}
      PROVE  MilestoneFires("guest_count", 1000, {guests}) = (guests \in {1000, 200000})
  <2>1. guests \in Nat
    BY SMT
  <2>2. (1000 <= guests /\ guests <= 200000) = (guests \in {1000, 200000})
    BY SMT
  <2> QED BY <1>4, <2>1, <2>2, SMT
<1>5. \A metric \in DOMAIN Sane : ~MilestoneFires(metric, 1, {})
  BY SMT DEF MilestoneFires
<1> QED BY <1>3, <1>5, <1>6, SMT DEF MilestonesShown

-----------------------------------------------------------------------------
(* The theorem about research                                              *)

\* For any research, locations, saves and histories of any length: after a tick
\* a location is reported only if the player collected what it asks for, and,
\* once all names can be resolved and if its title was among those that were
\* read, when it stands completed there, whether or not the writes of the
\* research gate are made; the gates are those of the items received; and
\* milestones are what the counters show
\* (_poll_research, reconcile_barriers, _facilities and _mechanic,
\* ResearchGate.reconcile, _poll_milestones).
THEOREM ChecksAlwaysTrue == Spec => []ChecksTrue
<1>1. ChecksTrue
  BY ChecksAreEarned, GatesDoFollow, MilestonesAreShown DEF ChecksTrue, Applies
<1> QED BY <1>1, PTL
=============================================================================
