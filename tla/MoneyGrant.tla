----------------------------- MODULE MoneyGrant -----------------------------
(***************************************************************************)
(* What the money ledger of the client promises a save, without threads,   *)
(* files or anchors: the server sends items, and each kind of money is     *)
(* granted up to the worth of a prefix of the sent items, as one addition. *)
(* A new save starts from nothing.                                         *)
(***************************************************************************)
EXTENDS Integers

CONSTANTS NItems, Kinds, Owed

VARIABLES sent, given

vars == <<sent, given>>

Init == /\ sent = 0
        /\ given = [k \in Kinds |-> 0]

Send == /\ sent < NItems
        /\ sent' = sent + 1
        /\ UNCHANGED given

\* One addition brings kind k to the worth of a longer prefix.
Grant(k) == /\ \E n \in 1..sent : /\ given[k] < Owed[k][n]
                                 /\ given' = [given EXCEPT ![k] = Owed[k][n]]
            /\ UNCHANGED sent

\* The player gives the save up, or its baseline is set.
NewSave == /\ given' = [k \in Kinds |-> 0]
           /\ UNCHANGED sent

Next == Send \/ (\E k \in Kinds : Grant(k)) \/ NewSave

Spec == Init /\ [][Next]_vars
=============================================================================
