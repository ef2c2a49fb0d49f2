---------------------------- MODULE CheckSource -----------------------------
(***************************************************************************)
(* What the poll promises to the rest of the client                        *)
(* (memory/triggers.py, MemoryTriggerSource.poll): events happen in the    *)
(* game, and the checks that stand for them are reported, never before     *)
(* they happened and, those it owes, in the end.                           *)
(***************************************************************************)
CONSTANT Owed   \* events that must be reported

VARIABLES happened, reported

vars == <<happened, reported>>

Init == happened = {} /\ reported = {}

Happen == /\ happened \subseteq happened' /\ happened' # happened
          /\ UNCHANGED reported

Report(cs) == /\ cs # {}
              /\ reported' = reported \cup cs
              /\ UNCHANGED happened

Next == Happen \/ \E cs \in SUBSET (happened \ reported) : Report(cs)

Spec == Init /\ [][Next]_vars

FairSpec == Spec /\ \A e \in Owed : (e \in happened) ~> (e \in reported)
=============================================================================
