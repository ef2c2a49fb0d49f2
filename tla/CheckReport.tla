---------------------------- MODULE CheckReport -----------------------------
(***************************************************************************)
(* How a detected check reaches the server, and when the goal is sent      *)
(* (client.py).  The worker thread queues the locations it detects; the    *)
(* event loop takes them from the queue, remembers each as sent and spawns *)
(* a task that sends it.  A connection may end at any moment; the library  *)
(* sends what the client remembers once more when the next one is up.      *)
(***************************************************************************)
EXTENDS Naturals, Sequences, FiniteSets

CONSTANTS
  Locations,
  Goal,        \* locations that the goal of the slot resolves to
  MaxOutages,  \* bound on lost connections
  MaxCollects  \* bound on locations that others collect

ASSUME ReportAssumption ==
  Goal \subseteq Locations /\ MaxOutages \in Nat /\ MaxCollects \in Nat

VARIABLES
  \* client
  conn,       \* "down", "open" (not yet authenticated: slot is None), "up"
  seen,       \* locations whose condition the trigger source sees met
  pending,    \* _pending_checks, in whatever order
  sent,       \* locations_checked
  checked,    \* checked_locations: what the server told
  goalIds,    \* _goal_location_ids
  finished,   \* finished_game
  outbox,     \* messages on their way, in order
  \* server
  recorded,   \* locations the server counts as checked
  won,        \* the server knows that the goal is reached
  outages, collects

queueVars  == <<seen, pending>>
clientVars == <<sent, checked, goalIds, finished>>
serverVars == <<recorded, won>>
reportVars == <<conn, queueVars, clientVars, outbox, serverVars, outages, collects>>

ReportInit ==
  /\ conn = "down" /\ seen = {} /\ pending = {} /\ sent = {} /\ checked = {}
  /\ goalIds = {} /\ finished = FALSE /\ outbox = <<>>
  /\ recorded = {} /\ won = FALSE /\ outages = 0 /\ collects = 0

Effective == checked \cup sent   \* effective_checked

\* A message is a LocationChecks or the StatusUpdate.
Checks(S) == [goal |-> FALSE, ids |-> S]
GoalMsg   == [goal |-> TRUE, ids |-> {}]

-----------------------------------------------------------------------------
(* Faulty variants of definitions below, none part of Spec: each shows     *)
(* that a property fails when the code is wrong in a plausible way.        *)

\* Looks at the goal before it spawns the check.
GoalFirst(l, goalToo) == (IF goalToo THEN <<GoalMsg>> ELSE <<>>) \o <<Checks({l})>>

\* Counts only what this client has sent.
ReachedSent(goal, done) == ~finished /\ goal # {} /\ goal \subseteq sent

-----------------------------------------------------------------------------
(* On the event loop                                                       *)

\* Without a socket, or before the server knows the slot, a message is lost.
Send(msgs) == outbox' = IF conn = "up" THEN outbox \o msgs ELSE outbox

Messages(l, goalToo) == <<Checks({l})>> \o IF goalToo THEN <<GoalMsg>> ELSE <<>>

\* _check_goal
Reached(goal, done) == ~finished /\ goal # {} /\ goal \subseteq done

\* report_check, with the _check_goal it ends with.
ReportCheck(l) ==
  IF l \in Effective THEN UNCHANGED <<clientVars, outbox>>
  ELSE /\ sent' = sent \cup {l}
       /\ Send(Messages(l, Reached(goalIds, Effective \cup {l})))
       /\ finished' = (finished \/ Reached(goalIds, Effective \cup {l}))
       /\ UNCHANGED <<checked, goalIds>>

\* /pz_check, whatever the state of the connection.
ConsoleCheck(l) ==
  /\ l \notin Effective
  /\ ReportCheck(l)
  /\ UNCHANGED <<conn, queueVars, serverVars, outages, collects>>

\* on_package, Connected: the library has sent what is remembered already.
OnConnected ==
  /\ conn = "open" /\ conn' = "up"
  /\ checked' = recorded
  /\ goalIds' = Goal
  /\ LET reached == Reached(Goal, recorded \cup sent)
     IN  /\ finished' = (finished \/ reached)
         /\ outbox' = (IF sent = {} THEN <<>> ELSE <<Checks(sent)>>)
                      \o (IF finished \/ reached THEN <<GoalMsg>> ELSE <<>>)
  /\ UNCHANGED <<queueVars, sent, serverVars, outages, collects>>

\* on_package, RoomUpdate.
OnRoomUpdate ==
  /\ conn = "up" /\ checked # recorded
  /\ checked' = recorded
  /\ LET reached == Reached(goalIds, recorded \cup sent)
     IN  /\ finished' = (finished \/ reached)
         /\ Send(IF reached THEN <<GoalMsg>> ELSE <<>>)
  /\ UNCHANGED <<conn, queueVars, sent, goalIds, serverVars, outages, collects>>

-----------------------------------------------------------------------------
(* The connection and the server (external)                                *)

Open == /\ conn = "down" /\ conn' = "open"
        /\ UNCHANGED <<queueVars, clientVars, outbox, serverVars, outages, collects>>

\* What is on its way is lost.
Disconnect ==
  /\ conn # "down" /\ outages < MaxOutages
  /\ conn' = "down" /\ outbox' = <<>> /\ outages' = outages + 1
  /\ UNCHANGED <<queueVars, clientVars, serverVars, collects>>

Deliver ==
  /\ outbox # <<>>
  /\ outbox' = Tail(outbox)
  /\ recorded' = recorded \cup Head(outbox).ids
  /\ won' = (won \/ Head(outbox).goal)
  /\ UNCHANGED <<conn, queueVars, clientVars, outages, collects>>

\* Another player collects, or the host releases.
Collect(l) ==
  /\ l \notin recorded /\ collects < MaxCollects
  /\ recorded' = recorded \cup {l} /\ collects' = collects + 1
  /\ UNCHANGED <<conn, queueVars, clientVars, outbox, won, outages>>
=============================================================================
