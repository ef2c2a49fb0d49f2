------------------------------ MODULE GateLists ------------------------------
(***************************************************************************)
(* The gates that work with a list in the scratch of a detour:             *)
(* memory/permits.py and facilities.py (purchase and placement), the       *)
(* research gate of memory/research.py, and the code of their detours      *)
(* (memory/hook.py), with the rules of data.py and client.py that say what *)
(* is to be blocked.  The client rewrites a list in place, one system call *)
(* per entry, while a thread of the game may be walking through it.        *)
(*                                                                         *)
(* Constant-level: operators over lists, items and records, and formulas   *)
(* over all small histories.                                               *)
(***************************************************************************)
EXTENDS Naturals, Sequences, FiniteSets, SequencesExt, Reachability

CONSTANTS
  KeyOrder,   \* the species, in the order of their keys
  GateOf,     \* species -> tokens of its gate expression; a token is a pair
              \* of "permit", "tool" or something else, and a key
  Tools,      \* keys of tool items
  Capacity,   \* PERMIT_BLOCKED_MAX, FACILITY_BLOCKED_MAX
  Overlap,    \* bound: writes of the client that one walk may overlap
  Torn,       \* numbers of writes after which a rewrite may fail
  Projects,   \* records of research
  Rounds      \* bound: events of a history

ASSUME ListsAssumption ==
  /\ Capacity \in Nat \ {0} /\ Overlap \in Nat /\ Rounds \in Nat
  /\ Torn \subseteq 0..Capacity
  /\ KeyOrder \in Seq(ToSet(KeyOrder)) /\ IsInjective(KeyOrder)

AllSpecies == ToSet(KeyOrder)
Nothing    == "-"

-----------------------------------------------------------------------------
(* What is to be blocked: data.py                                          *)

\* species_purchase_tokens: permits and tools; facilities have other gates.
PurchaseTokens(s) == {t \in GateOf[s] : t[1] = "permit" \/ (t[1] = "tool" /\ t[2] \in Tools)}

\* purchase_universe
Purchasable == {s \in AllSpecies : PurchaseTokens(s) # {}}

\* satisfied_purchase_tokens: items stand for the token they bring.
Satisfied(items) == {t \in items : t[1] \in {"permit", "tool"}}

\* purchase_blocked_species: every token must be there.
PurchaseBlocked(items) == {s \in Purchasable : ~(PurchaseTokens(s) \subseteq Satisfied(items))}

-----------------------------------------------------------------------------
(* The list in the scratch                                                 *)

Zeroed == [count |-> 0, ids |-> [i \in 1..Capacity |-> Nothing]]

\* _blocked_handles, _blocked_ids: in the order of the keys, without what has
\* no id yet; _sync cuts it to the room there is.
BlockedList(keys, resolved) ==
  LET first[n \in 0..Len(KeyOrder)] ==
        IF n = 0 THEN <<>>
        ELSE IF KeyOrder[n] \in keys \cap resolved /\ Len(first[n - 1]) < Capacity
             THEN Append(first[n - 1], KeyOrder[n]) ELSE first[n - 1]
  IN  first[Len(KeyOrder)]

\* Faulty variant of the next: the count first.
CountFirst(sc, list, n) ==
  [count |-> IF n > 0 THEN Len(list) ELSE sc.count,
   ids   |-> [i \in 1..Capacity |-> IF i < n /\ i <= Len(list) THEN list[i] ELSE sc.ids[i]]]

\* _sync: the scratch after the first n writes, ids first, count last.
Written(sc, list, n) ==
  [count |-> IF n > Len(list) THEN Len(list) ELSE sc.count,
   ids   |-> [i \in 1..Capacity |-> IF i <= n /\ i <= Len(list) THEN list[i] ELSE sc.ids[i]]]

Synced(sc, list) == Written(sc, list, Len(list) + 1)

\* make_permit_trampoline: the count is read, then entry after entry; the i-th
\* read finds the scratch as it is after at[i] writes.
Walk(sc, list, at) ==
  [count |-> Written(sc, list, at[0]).count,
   ids   |-> [i \in 1..Capacity |-> Written(sc, list, at[i]).ids[i]]]

Fails(view, s) == \E i \in 1..view.count : view.ids[i] = s

ReadTimes(writes) ==
  {at \in [0..Capacity -> 0..writes] :
     /\ \A i \in 1..Capacity : at[i - 1] <= at[i]
     /\ at[Capacity] <= at[0] + Overlap}

-----------------------------------------------------------------------------
(* PermitGate, and what the client does with it.  FacilityGate is the same *)
(* but for its site, which is not known: it never installs.                *)
(*                                                                         *)
(* A gate record holds what the server sent, the list and the mark of the  *)
(* client, what is unlocked, whether the hook is there and what its        *)
(* scratch holds; the species that a handle is read for (named); and of    *)
(* the last rewrite, which had one then (known) and whether all of its     *)
(* writes were made (whole).  `io` is what the game lets happen during an  *)
(* event: whether it can be hooked, and after how many writes a rewrite    *)
(* fails.                                                                  *)

Fresh(named) ==
  [sent |-> <<>>, items |-> <<>>, mark |-> 0, unlocked |-> {}, installed |-> FALSE,
   scratch |-> Zeroed, named |-> named, known |-> {}, whole |-> TRUE]

Allowed == [can : BOOLEAN, writes : Torn \cup {Capacity + 1}]
Sound   == [can |-> TRUE, writes |-> Capacity + 1]

\* _sync: who has no handle yet is left out; a write that fails ends it.
Sync(g, io) ==
  LET list == BlockedList(Purchasable \ g.unlocked, g.named)
  IN  [g EXCEPT !.scratch = Written(@, list, io.writes), !.known = g.named,
                !.whole = io.writes > Len(list)]

\* ensure_installed: a hook that is there is left alone, a new one synced.
EnsureInstalled(g, io) ==
  IF g.installed \/ ~io.can THEN g ELSE Sync([g EXCEPT !.installed = TRUE], io)

IfInstalled(g, h) == IF g.installed THEN h ELSE g

\* PermitGate.unlock
Unlock(g, s, io) ==
  LET h == EnsureInstalled([g EXCEPT !.unlocked = @ \cup {s}], io) IN IfInstalled(h, Sync(h, io))

\* Faulty variant of the next: what is unlocked stays unlocked.
ReconcileMore(g, keys, io) ==
  LET h == EnsureInstalled([g EXCEPT !.unlocked = @ \cup keys], io)
  IN  IF keys # g.unlocked THEN IfInstalled(h, Sync(h, io)) ELSE h

\* PermitGate.reconcile: writes again only when the keys differ.
ReconcileGate(g, keys, io) ==
  LET h == EnsureInstalled([g EXCEPT !.unlocked = keys], io)
  IN  IF keys # g.unlocked THEN IfInstalled(h, Sync(h, io)) ELSE h

\* on_species_unlock
OnSpeciesUnlock(g, item, io) == Unlock(g, item[2], io)

\* on_tool_unlock only makes sure that the gate is there.
OnToolUnlock(g, io) == EnsureInstalled(g, io)

\* FACILITY_RESEARCH_CATEGORY
CategoryOf == [research_centre |-> 7, workshop |-> 3]

\* enable_memory: the facilities that the research gate is there for.
ResearchFacilities(facilities) == facilities \cap DOMAIN CategoryOf

\* FacilityGate.ensure_installed: the place of its site is not known.
FacilityInstalls == FALSE

\* on_facility_unlock: a research facility is acknowledged; any other stalls.
OnFacilityUnlock(key) == key \in ResearchFacilities({key}) \/ FacilityInstalls

\* _apply_new_items: from the mark, until an item fails; then the purchases.
ApplyNext(g, item, io) ==
  LET h == CASE item[1] = "permit"   -> OnSpeciesUnlock(g, item, io)
             [] item[1] = "tool"     -> OnToolUnlock(g, io)
             [] item[1] = "facility" -> g
  IN  IF IF item[1] = "facility" THEN OnFacilityUnlock(item[2]) ELSE h.installed
      THEN [h EXCEPT !.mark = @ + 1] ELSE h

\* Nothing while the list is shorter than the mark, after a new connection.
ApplyItems(g, io) ==
  LET from == IF g.mark <= Len(g.items) THEN g.mark ELSE Len(g.items)
      h[n \in from..Len(g.items)] ==
        IF n = from THEN g
        ELSE IF h[n - 1].mark = n - 1 THEN ApplyNext(h[n - 1], g.items[n], io)
        ELSE h[n - 1]
  IN  h[Len(g.items)]

\* _reconcile_permits
Blocked(g) == PurchaseBlocked(ToSet(g.items))
ReconcilePurchases(g, io) == ReconcileGate(g, Purchasable \ Blocked(g), io)

\* on_package and the tick end alike.
Settle(g, io) == ReconcilePurchases(ApplyItems(g, io), io)

\* An event: an item arrives, a tick runs, a species enters or leaves the zoo,
\* the client is connected anew, with no items (Connected) until all are sent
\* once more (ReceivedItems), or it starts again and keeps but the mark.
Event(g, e, io) ==
  CASE e[1] = "tick"      -> Settle(g, io)
    [] e[1] = "enter"     -> [g EXCEPT !.named = @ \cup {e[2]}]
    [] e[1] = "leave"     -> [g EXCEPT !.named = @ \ {e[2]}]
    [] e[1] = "connected" -> Settle([g EXCEPT !.items = <<>>], io)
    [] e[1] = "resent"    -> Settle([g EXCEPT !.items = g.sent], io)
    [] e[1] = "restart"   -> [Fresh(g.named) EXCEPT !.sent = g.sent, !.mark = g.mark]
    [] OTHER              -> Settle([g EXCEPT !.sent = Append(@, e), !.items = Append(g.sent, e)], io)

Items  == ({"permit"} \X Purchasable) \cup ({"tool"} \X Tools)
          \cup ({"facility"} \X {"workshop", "trade_centre"})
Events == Items \cup ({"enter", "leave"} \X Purchasable)
          \cup ({"tick", "connected", "resent", "restart"} \X {""})

GateSteps(g)   == {Event(g, e, io) : e \in Events, io \in Allowed}
PermitsReached == Reachable({Fresh({}), Fresh(Purchasable)}, Rounds, GateSteps)

-----------------------------------------------------------------------------
(* ResearchGate: research of a category that is gated must not run         *)

\* gated_categories
GatedCategories(facilities, received) ==
  {CategoryOf[f] : f \in ResearchFacilities(facilities) \ received}

\* The statuses of a record that matter here.
Researchable == 1
Researching  == 2

\* A park: the gated categories in the scratch, and per record its category
\* and status.  make_research_gate: a gated start leaves the status alone.
Start(park, r) ==
  IF park.status[r] = Researchable /\ park.cat[r] \notin park.gated
  THEN [park EXCEPT !.status[r] = Researching] ELSE park

\* _write_gated, _stop_in_progress; the writes to the records `kept` fail, all
\* of them when the records cannot be read.
WriteGated(park, cats) == [park EXCEPT !.gated = cats]
StopInProgress(park, cats, kept) ==
  [park EXCEPT !.status = [r \in DOMAIN park.status |->
     IF park.cat[r] \in cats /\ park.status[r] = Researching /\ r \notin kept
     THEN Researchable ELSE park.status[r]]]

\* A park with the gate: the facilities that gate and those received, whether
\* the hook is there, what reconcile wrote last (at most one set), whether all
\* of it was written, and the records that may run all the same (spared): they
\* ran when the park was loaded, or the write that stops them failed.
Unhooked(cat, facilities, received, status) ==
  [cat |-> cat, status |-> status, facilities |-> facilities, received |-> received,
   installed |-> FALSE, gated |-> {}, last |-> {}, whole |-> TRUE, spared |-> {}]

GatedNow(p)   == GatedCategories(p.facilities, p.received)
Running(p)    == {r \in Projects : p.status[r] = Researching}
RunsGated(p)  == {r \in Running(p) : p.cat[r] \in GatedNow(p)}

\* ensure_installed
Hook(p) == [p EXCEPT !.installed = TRUE]

\* The list in the scratch after the write: cats, or when a write failed any
\* of what was there before and what is written.
WriteShown(p, cats, shown) ==
  [WriteGated(p, shown) EXCEPT !.whole = (shown = cats)]

\* reconcile: acts only when the gated set changed, and remembers it whether
\* or not its writes were made.  The player starts the research of the records
\* `started` between its two steps.
ReconcileResearch(p, shown, started, kept) ==
  LET cats == GatedNow(p)
      w    == WriteShown(p, cats, shown)
      s    == [w EXCEPT !.status = [r \in Projects |->
                 IF r \in started THEN Start(w, r).status[r] ELSE w.status[r]]]
      q    == StopInProgress(s, cats, kept)
  IN  IF p.last = {cats} THEN p ELSE [q EXCEPT !.last = {cats}, !.spared = kept]

ResearchTicks(p) ==
  {ReconcileResearch(Hook(p), shown, started, kept) :
     shown \in SUBSET (p.gated \cup GatedNow(p)), started \in SUBSET Projects,
     kept \in SUBSET Projects}

\* A facility arrives, a tick runs, the player starts research (a hook that is
\* not there gates nothing), a saved park is loaded, the client starts again.
Statuses == [Projects -> {Researchable, Researching}]
ResearchSteps(p) ==
  {[p EXCEPT !.received = @ \cup {f}] : f \in DOMAIN CategoryOf}
  \cup ResearchTicks(p)
  \cup {Start(p, r) : r \in Projects}
  \cup {[p EXCEPT !.status = saved, !.spared = {r \in Projects : saved[r] = Researching}] :
           saved \in Statuses}
  \cup {Unhooked(p.cat, p.facilities, {}, p.status)}

ResearchReached(cat, facilities) ==
  Reachable({Unhooked(cat, facilities, {}, status) : status \in Statuses}, Rounds, ResearchSteps)

-----------------------------------------------------------------------------
(* Properties                                                              *)

Subsets == SUBSET Purchasable

\* What fails for a walk that meets the rewrite of the list from old to new,
\* when there was another list before.
ListOf(keys) == BlockedList(keys, AllSpecies)
Failing(earlier, old, new, at) ==
  {s \in Purchasable :
     Fails(Walk(Synced(Synced(Zeroed, ListOf(earlier)), ListOf(old)), ListOf(new), at), s)}

\* No species that is on both lists, and not further down on the new one, slips
\* through a walk; and none moves down where the new list only leaves some out.
NoGap ==
  \A earlier, old, new \in Subsets : \A at \in ReadTimes(Len(ListOf(new)) + 1) :
    \A i \in DOMAIN ListOf(old) : \A j \in (1..i) \cap DOMAIN ListOf(new) :
      ListOf(old)[i] = ListOf(new)[j] => ListOf(old)[i] \in Failing(earlier, old, new, at)

NoneMovesDown ==
  \A old \in Subsets : \A new \in SUBSET old :
    \A i \in DOMAIN ListOf(old), j \in DOMAIN ListOf(new) : ListOf(old)[i] = ListOf(new)[j] => j <= i

NoneElse ==
  \A earlier, old, new \in Subsets : \A at \in ReadTimes(Len(ListOf(new)) + 1) :
    Failing(earlier, old, new, at) \subseteq ToSet(ListOf(old)) \cup ToSet(ListOf(new))

\* Whenever a list is rewritten in place, a walk that overlaps at most Overlap
\* of the writes stops none that is blocked neither before nor after, and lets
\* through none that is blocked before and after and does not move down the
\* list, as none does while permits arrive; entries left from an earlier,
\* longer list do not matter (_sync: "ids first, count last, so the trampoline
\* never reads a count larger than the ids").
WalksSound == NoGap /\ NoneMovesDown /\ NoneElse

\* What the code does not keep: the same for all that are blocked before and
\* after, when an item that has arrived is unlocked by itself and the whole list
\* is rewritten right after (permits.py:169, client.py:738-742).  The permit of
\* a species that lacks its tool moves the species behind it down and up again.
GrowsGapless(g, item) ==
  LET a    == ApplyItems([g EXCEPT !.items = Append(@, item)], Sound)
      b    == ReconcilePurchases(a, Sound)
      list == BlockedList(Purchasable \ b.unlocked, b.named)
  IN  a.installed /\ b.scratch # a.scratch =>
        \A at \in ReadTimes(Len(list) + 1) : \A s \in Purchasable :
          Fails(a.scratch, s) /\ Fails(b.scratch, s) => Fails(Walk(a.scratch, list, at), s)

\* After every event a gate that is installed fails exactly the species that
\* lack a token and had a handle at the last rewrite, as far as the list has
\* room, unless a write of it failed; and whenever the species that lack a
\* token change, or the gate is new, those that have a handle are looked up
\* anew: whatever was applied before the game was there, whatever a restart or
\* a new connection forgot, and though a permit alone unlocks a species that
\* needs a tool as well.
PurchaseInForce ==
  \A g \in PermitsReached :
    /\ g.installed /\ g.whole =>
         {s \in AllSpecies : Fails(g.scratch, s)} = ToSet(BlockedList(Blocked(g), g.known))
    /\ \A h \in GateSteps(g) :
         h.installed /\ (~g.installed \/ Blocked(h) # Blocked(g)) => h.known = h.named

\* What the code does not keep, of the species that have no handle yet: a tick
\* later one that has got a handle is blocked (permits.py:152-153, "resolves as
\* species enter the zoo").
NewcomersBlocked(g) ==
  LET h == Event(g, <<"tick", "">>, Sound) IN
  h.installed => ToSet(BlockedList(Blocked(h), h.named)) \subseteq {s \in AllSpecies : Fails(h.scratch, s)}

\* While the gated set is as reconcile left it, and unless a write of the list
\* failed, no gated research runs but what ran in a park when it was loaded, or
\* could not be stopped: none is started, not even between the two steps of
\* reconcile, and what ran before the client came is stopped.
ResearchHeld ==
  \A cat \in [Projects -> {3, 7}], facilities \in SUBSET DOMAIN CategoryOf :
    \A p \in ResearchReached(cat, facilities) :
      p.installed /\ p.whole /\ p.last = {GatedNow(p)} =>
        p.gated = GatedNow(p) /\ RunsGated(p) \subseteq p.spared

==============================================================================
