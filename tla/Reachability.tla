---------------------------- MODULE Reachability ----------------------------
(***************************************************************************)
(* What can be reached in so many steps: the constant-level modules state  *)
(* their properties of all small histories over these sets.                *)
(***************************************************************************)
EXTENDS Naturals

\* All that at most `rounds` steps lead to; Steps(x) is where one step leads.
Reachable(start, rounds, Steps(_)) ==
  LET r[n \in 0..rounds] ==
        IF n = 0 THEN start
        ELSE LET before == r[n - 1] IN before \cup UNION {Steps(x) : x \in before}
  IN  r[rounds]
==============================================================================
