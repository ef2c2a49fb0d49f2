----------------------------- MODULE ClientLoop -----------------------------
(***************************************************************************)
(* The poll loop of the client (client.py, poll_loop and _poll_tick): per  *)
(* tick it decides whether the loaded park is the scenario (ParkSession),  *)
(* lets the trigger source look for checks when it is, and afterwards, on  *)
(* the event loop, reports what was queued (CheckReport), while the        *)
(* player opens and leaves parks and the connection comes and goes.        *)
(***************************************************************************)
EXTENDS ParkSession, CheckReport

VARIABLE step   \* of the tick under way

vars == <<sessionVars, reportVars, step>>

Init == SessionInit /\ ReportInit /\ step = "idle"

-----------------------------------------------------------------------------
(* The tick                                                                *)

\* A tick needs a slot.
BeginTick ==
  /\ step = "idle" /\ conn = "up"
  /\ DecideSession
  /\ step' = IF IsApSession THEN "poll" ELSE "idle"
  /\ UNCHANGED reportVars

\* On the worker: what is met and not reported yet goes to the queue.
PollTriggers ==
  /\ step = "poll" /\ step' = "drain"
  /\ pending' = pending \cup (seen \ Effective)
  /\ UNCHANGED <<sessionVars, conn, seen, clientVars, outbox, serverVars, outages, collects>>

\* On the loop again.
Drain ==
  /\ step = "drain"
  /\ IF pending = {}
     THEN step' = "idle" /\ UNCHANGED reportVars
     ELSE /\ \E l \in pending : pending' = pending \ {l} /\ ReportCheck(l)
          /\ UNCHANGED <<conn, seen, serverVars, outages, collects, step>>
  /\ UNCHANGED sessionVars

\* Something in the park meets the condition of a location; the trigger source
\* goes on seeing it.
Occur(l) ==
  /\ InAp /\ l \notin seen
  /\ seen' = seen \cup {l}
  /\ UNCHANGED <<sessionVars, conn, pending, clientVars, outbox, serverVars, outages, collects,
                 step>>

Tick == BeginTick \/ PollTriggers \/ Drain

Loop == OnConnected \/ OnRoomUpdate \/ \E l \in Locations : ConsoleCheck(l)

Network == Open \/ Disconnect \/ Deliver \/ \E l \in Locations : Collect(l)

Park == \/ \E c \in Cells, k \in Kinds : LoadPark(c, k)
        \/ NamePark \/ UnloadPark
        \/ \E c \in Cells : Reuse(c)

Next == \/ Tick
        \/ (Loop \/ Network) /\ UNCHANGED <<sessionVars, step>>
        \/ (Park \/ Cool) /\ UNCHANGED <<reportVars, step>>
        \/ \E l \in Locations : Occur(l)

Spec == Init /\ [][Next]_vars

\* The poll loop runs for ever; time passes; the library connects again and
\* sends; the script names its park.
Fairness ==
  /\ WF_vars(Tick) /\ WF_vars(Cool /\ UNCHANGED <<reportVars, step>>)
  /\ WF_vars((Open \/ OnConnected) /\ UNCHANGED <<sessionVars, step>>)
  /\ WF_vars(Deliver /\ UNCHANGED <<sessionVars, step>>)
  /\ WF_vars(OnRoomUpdate /\ UNCHANGED <<sessionVars, step>>)
  /\ WF_vars(NamePark /\ UNCHANGED <<reportVars, step>>)

FairSpec == Spec /\ Fairness

-----------------------------------------------------------------------------
(* Properties                                                              *)

Names == {NoName, Marker, "career"}
Place == [kind : Kinds, named : BOOLEAN] \cup {Free}

\* Every variable holds a value of its type; a queue outlives its tick only
\* while it is being drained, and nothing is on its way over a connection
\* that is not up.
TypeOK ==
  /\ mem \in [Cells -> Place] /\ loaded \in Cells \cup {0} /\ loads \in 0..MaxLoads
  /\ loaded # 0 => mem[loaded] # Free
  /\ cached \in (SUBSET Cells) \cup {NotCached} /\ lastVal \in Names
  /\ cooling \in {"short", "long", "over"} /\ wasActive \in BOOLEAN
  /\ conn \in {"down", "open", "up"} /\ seen \subseteq Locations /\ pending \subseteq Locations
  /\ pending # {} => step = "drain"
  /\ sent \subseteq Locations /\ checked \subseteq recorded /\ goalIds \in {{}, Goal}
  /\ finished \in BOOLEAN /\ \A i \in DOMAIN outbox : outbox[i] = GoalMsg \/ outbox[i] \in {Checks(S) : S \in SUBSET sent}
  /\ outbox # <<>> => conn = "up"
  /\ recorded \subseteq Locations /\ won \in BOOLEAN
  /\ outages \in 0..MaxOutages /\ collects \in 0..MaxCollects
  /\ step \in {"idle", "poll", "drain"}

\* The client is inert in foreign parks (_session_active): whatever instances
\* the heap holds, a tick goes on only when the loaded park is the scenario.
InertElsewhere == [][step = "idle" /\ step' = "poll" => InAp]_vars

\* The server learns of the goal only after every location it consists of,
\* over any number of connections.
GoalAfterChecks == won => Goal \subseteq recorded

\* A condition that was met is a check on the server in the end, when the
\* player stays in the scenario and the memory of other parks is reused: the
\* client finds the park again, and no lost connection loses a check.
Delivered ==
  (<>[](InAp /\ \A c \in Cells : c # loaded => mem[c] = Free)) => \A l \in Locations : (l \in seen) ~> (l \in recorded)

\* When every location of the goal is checked, by whomever, the server learns
\* that the goal is reached.
GoalReported == (Goal \subseteq recorded) ~> won
=============================================================================
