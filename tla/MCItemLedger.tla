---------------------------- MODULE MCItemLedger ----------------------------
(***************************************************************************)
(* Instances of ItemLedger for TLC: short lists of items and their worth.  *)
(***************************************************************************)
EXTENDS ItemLedger

\* Worth of prefixes, as a function of the prefix length.
CashPrefixes(cash) == [k \in {"cash"} |-> [n \in 0..NItems |-> cash[n + 1]]]

OneKind        == {"cash"}

\* An item of another game, an unlock, cash 2, cash 1.
SessionClass   == <<"unknown", "unlock", "money", "money">>
SessionOwed    == CashPrefixes(<<0, 0, 0, 2, 3>>)

\* Cash 2, and an effect the applier does not implement.
StallClass     == <<"money", "unsupported">>
StallOwed      == CashPrefixes(<<0, 2, 2>>)

\* An effect the applier does not implement, and behind it an unlock, cash 2,
\* cash 1.
BehindClass    == <<"unsupported", "unlock", "money", "money">>
BehindOwed     == CashPrefixes(<<0, 0, 0, 2, 3>>)

\* Moves that, with the sums above, never add up to the baked balance.
SpendOrEarn    == {-4, 8}
=============================================================================
