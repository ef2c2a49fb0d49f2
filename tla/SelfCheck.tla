----------------------------- MODULE SelfCheck ------------------------------
(***************************************************************************)
(* The registry of the places in the game that the client patches          *)
(* (memory/signatures.py): how a hook site or a root is found again, and   *)
(* the preflight report of client.py that says which of them are sound.    *)
(* The report is computed by other code than the installation that it      *)
(* vouches for.                                                            *)
(*                                                                         *)
(* The module of the game is a row of places; a signature is the set of    *)
(* places where it matches.                                                *)
(***************************************************************************)
EXTENDS Integers, FiniteSets

CONSTANTS ModuleSize,  \* places of the module of the game
          Chunk,       \* places that one read of the scan takes
          SigLength,   \* places of a signature
          MaxMatches   \* bound on the places where a signature matches

\* A read takes something, a signature has a first byte.
ASSUME ScanAssumption ==
  /\ ModuleSize \in Nat /\ MaxMatches \in Nat
  /\ Chunk \in Nat \ {0} /\ SigLength \in Nat \ {0}

Places == 0..ModuleSize - 1
Starts == {a \in Places : a % Chunk = 0}
Whole  == {m \in Places : m + SigLength <= ModuleSize}

\* An image: where the signature matches, and the chunks whose read fails.
Images == [matches : {S \in SUBSET Whole : Cardinality(S) <= MaxMatches}, lost : {{}} \cup {{a} : a \in Starts}]

-----------------------------------------------------------------------------
(* Faulty variants of definitions below: each shows that a property fails  *)
(* when the code is wrong in a plausible way.                              *)

\* Chunks that do not overlap.
InChunkAlone(a, m) == a <= m /\ m + SigLength <= a + Chunk

-----------------------------------------------------------------------------
(* module_aob_scan                                                         *)

\* A chunk is read together with as many bytes of the next as the signature
\* has, one more than needed.
InChunk(a, m) == a <= m /\ m <= a + Chunk

\* The hits, in the chunk of each; the callers ask for none, one or more.
Hits(image)   == {hit \in (Starts \ image.lost) \X image.matches : InChunk(hit[1], hit[2])}
Unique(image) == Cardinality(Hits(image)) = 1
HitOf(image)  == (CHOOSE hit \in Hits(image) : TRUE)[2]

-----------------------------------------------------------------------------
(* Hook sites                                                              *)

\* HOOKS: a site without a signature (release), one whose trampoline weaves
\* its instrumentation into the original (release_species), and the others.
HookForms == {[frags |-> FALSE, aob |-> FALSE], [frags |-> TRUE, aob |-> TRUE],
              [frags |-> FALSE, aob |-> TRUE]}

\* What a site holds, and for a jump where it leads and what is there: code
\* that embeds the original in one block, in fragments, or not at all; or the
\* target is near the end of what is mapped.
Sites == [held   : {"orig", "jump", "other", "unreadable"},
          inside : BOOLEAN,
          target : {"block", "fragments", "foreign", "cut", "unmapped"}]

\* _detour_target
Jumps(s) == s.held = "jump"

IsLeakedDetour(s, h) == Jumps(s) /\ (s.target = "block" \/ (h.frags /\ s.target = "fragments"))

IsDeadDetour(s) == Jumps(s) /\ ~s.inside /\ s.target = "unmapped"

\* recover_leaked_hook: is the original written back?
Recovers(s, h, writes) == (IsLeakedDetour(s, h) \/ IsDeadDetour(s)) /\ writes

\* resolve_hook: the site, a place where the signature matches, or neither.
AtSite   == -1
NotFound == -2
Resolves(s, h, image, writes) ==
  IF s.held = "orig" \/ Recovers(s, h, writes) THEN AtSite
  ELSE IF h.aob /\ Unique(image) THEN HitOf(image)
  ELSE NotFound

\* _classify_hook
Classify(s, h, image, installed) ==
  CASE installed \/ s.held = "orig"                  -> "ok"
    [] ~installed /\ s.held = "unreadable"           -> "unresolved"
    [] ~installed /\ Recovers(s, h, TRUE)            -> "leaked"
    [] ~installed /\ s.held \in {"jump", "other"} /\ ~Recovers(s, h, TRUE) ->
         IF h.aob /\ Unique(image) THEN "relocated" ELSE "broken"

-----------------------------------------------------------------------------
(* The other dependencies, each as the state that its reader meets         *)

\* check_anchors, per anchor.
AnchorStates == {"raises", "unresolved", "in range", "out of range"}
CheckAnchor(v) == CASE v \in {"raises", "unresolved"} -> "unresolved"
                    [] v = "in range"                 -> "ok"
                    [] v = "out of range"             -> "garbage"

\* check_research
ResearchStates == {"raises", "no map", "records", "implausible"}
CheckResearch(v) == CASE v = "raises"                     -> "unresolved"
                      [] v \in {"no map", "implausible"}  -> "garbage"
                      [] v = "records"                    -> "ok"

\* check_terrain, check_exhibit_enrich: with the gate of the client at hand
\* nothing is looked for.
BytecodeStates == {"raises", "missing", "found"}
CheckBytecode(v, gate) == CASE gate \/ v = "found"           -> "ok"
                            [] ~gate /\ v = "raises"         -> "unresolved"
                            [] ~gate /\ v = "missing"        -> "broken"

\* check_session
SessionStates == {"raises", "marker", "no marker", "no instance"}
CheckSession(v) == CASE v = "raises"                 -> "unresolved"
                     [] v \in {"marker", "no marker"} -> "ok"
                     [] v = "no instance"            -> "broken"

-----------------------------------------------------------------------------
(* The roots of the anchor chains                                          *)

\* The cluster was linked at place 0; a game that was updated has it where
\* its only reference says.
Fallback == 0

\* resolve_root, first call: what it finds is kept for the whole process.
RootAt(image) == IF Unique(image) THEN HitOf(image) ELSE Fallback

\* check_roots, with what resolve_root kept from an earlier image.
CheckRoot(image, kept) ==
  IF ~Unique(image) THEN "broken" ELSE IF kept = Fallback THEN "ok" ELSE "relocated"

-----------------------------------------------------------------------------
(* run_selfcheck and _run_preflight                                        *)

\* The statuses of one run, with the gates of the client at hand.
SelfCheck(w) ==
  {Classify(w.site, w.hook, w.image, w.installed), CheckRoot(w.roots, RootAt(w.roots)),
   CheckAnchor(w.anchor), CheckResearch(w.research), CheckBytecode(w.bytecode, TRUE),
   CheckSession(w.session)}

\* What the player is told to be unreliable.
Bad(statuses) == statuses \ {"ok", "relocated"}

-----------------------------------------------------------------------------
(* Properties                                                              *)

\* A signature is counted as often as it matches, when no match lies at the
\* start of a chunk but the first and every chunk is readable.
ScanExact ==
  \A image \in Images :
    image.lost = {} /\ image.matches \cap (Starts \ {0}) = {}
      => Cardinality(Hits(image)) = Cardinality(image.matches)

\* What the report says of a site is what installing there then meets: a sound
\* or recoverable site is used, a moved one is found where the report says,
\* and a broken one is left alone.
VerdictHolds(s, h, image, writes) ==
  LET verdict == Classify(s, h, image, FALSE)
      place   == Resolves(s, h, image, writes)
  IN  /\ verdict = "ok" => place = AtSite
      /\ verdict = "leaked" /\ writes => place = AtSite
      /\ verdict = "relocated" => place \in image.matches
      /\ verdict = "broken" => place = NotFound
      /\ verdict = "unresolved" => place # AtSite

\* Live code of others is never overwritten: a site is rewritten only when its
\* jump leads to its own original bytes or to nothing outside the module.
ForeignKept(s, h) ==
  Recovers(s, h, TRUE) =>
    ~ \/ s.target \in {"foreign", "cut"}
      \/ s.inside /\ s.target = "unmapped"
      \/ s.held # "jump"

SitesSound ==
  \A s \in Sites, h \in HookForms :
    /\ ForeignKept(s, h)
    /\ \A image \in Images, writes \in BOOLEAN : VerdictHolds(s, h, image, writes)

\* A root reported as sound or moved is the one that the cluster reference
\* gives, when the image of the first call had every chunk.
RootsTrue ==
  \A first \in Images : \A lost \in {{}} \cup {{a} : a \in Starts} :
    LET now == [first EXCEPT !.lost = lost]
    IN  first.lost = {} /\ CheckRoot(now, RootAt(first)) # "broken" /\ Unique(first)
          => RootAt(first) \in first.matches

\* Nothing reported as bad: what the client goes on to use is where it takes
\* it to be, but for the bytecode, which no one has looked for yet.
Vouches(w) ==
  Bad(SelfCheck(w)) = {} =>
    /\ Resolves(w.site, w.hook, w.image, TRUE) # NotFound
    /\ RootAt(w.roots) \in w.roots.matches
    /\ w.anchor = "in range" /\ w.research = "records" /\ w.session # "no instance"

Worlds == [site : Sites, hook : HookForms, installed : {FALSE},
           image : {i \in Images : i.lost = {}},
           roots : {i \in Images : i.lost = {} /\ Cardinality(i.matches) <= 1},
           anchor : {"in range", "out of range"}, research : {"records", "no map"},
           bytecode : {"missing"}, session : {"no marker", "no instance"}]

ReportTrue == \A w \in Worlds : Vouches(w)
=============================================================================
