-------------------------- MODULE MCHookLifecycle --------------------------
(***************************************************************************)
(* Instances of HookLifecycle for TLC: two or three sites, blocks of two   *)
(* slots, sites and blocks as model values; and the formulas of SelfCheck, *)
(* read as an invariant of a run: the installations of a client that is up *)
(* resolve as its preflight has said.                                      *)
(***************************************************************************)
EXTENDS HookLifecycle, SelfCheck

CONSTANTS permit, release, species, b1, b2, b3, game

ThreeHooks  == {permit, release, species}
TwoHooks    == {release, species}
Further     == {species}
ThreeBlocks == {b1, b2, b3}
OneThread   == {game}

\* What the preflight reports of a hook site or a root is what the
\* installations and the readers then meet, a signature is counted as often
\* as it matches, and live code of others is left alone: module_aob_scan,
\* _classify_hook, resolve_hook, check_roots, _run_preflight.
VerdictsAgree == up => ScanExact /\ SitesSound /\ RootsTrue /\ ReportTrue
=============================================================================
