----------------------------- MODULE HashTables -----------------------------
(***************************************************************************)
(* The hash tables that the client shares with the game: the set of        *)
(* species that it builds for the animal exchange (memory/market.py), and  *)
(* the rosters, censuses and maps of the game that it reads                *)
(* (memory/animals.py, memory/rewards.py).  They are open-addressing       *)
(* tables: a bit per slot says whether it is taken, and a key is in the    *)
(* first free slot from its hash on.  The hash is any function: what       *)
(* follows holds whichever the game uses.                                  *)
(***************************************************************************)
EXTENDS Integers, Sequences, FiniteSets, FiniteSetsExt, SequencesExt

CONSTANTS TableKeys,  \* keys of the tables, which 0 may be one of
          Stranger,   \* a key that no table has
          Homes,      \* the values of the hash, of which a table takes what it has slots for
          KeyLists,   \* the lists that sets are built from
          Departed,   \* keys of a roster whose animal may be gone
          MaxKeys     \* the most keys that a list has

\* The most keys of a set whose header the client's readers take.
LargestSet == 45875

\* Keys are unsigned.
ASSUME KeysAssumption ==
  /\ TableKeys \subseteq Nat /\ Stranger \notin TableKeys
  /\ Homes \subseteq Nat /\ KeyLists \subseteq Seq(TableKeys)
  /\ MaxKeys \in Nat /\ MaxKeys <= LargestSet
  /\ \A list \in KeyLists : Len(list) <= MaxKeys

\* set_hash, _hash
HashFunctions == [TableKeys \cup {Stranger} -> Homes]

-----------------------------------------------------------------------------
(* Faulty variants of definitions below: each shows that a property fails  *)
(* when the code is wrong in a plausible way.                              *)

\* Probes to the end of the table only.
RunNoWrap(table, home) ==
  {s \in table.taken : s >= home /\ \A t \in home..s : t \in table.taken}

-----------------------------------------------------------------------------
(* Building a set                                                          *)

\* _next_pow2_cap
Needed(n)        == ((IF n > 1 THEN n ELSE 1) * 10) \div 7 + 1
CapacityFor(n) == Min({c \in {2 ^ i : i \in 3..20} : c >= Needed(n)})

Slots(table)      == 0..table.capacity - 1
Ahead(table, s, d) == (s + d) % table.capacity

\* The taken slots that a probe from home meets, in one block up to a gap.
Run(table, home) ==
  {Ahead(table, home, d) : d \in {d \in Slots(table) :
      \A e \in 0..d : Ahead(table, home, e) \in table.taken}}

FreeSlot(table, home) ==
  Ahead(table, home, Min({d \in Slots(table) : Ahead(table, home, d) \notin table.taken}))

InsertKey(table, key, hash) ==
  LET s == FreeSlot(table, hash[key])
  IN  [table EXCEPT !.taken = @ \cup {s}, !.keys[s] = key]

EmptyTable(capacity) ==
  [capacity |-> capacity, taken |-> {}, keys |-> [s \in 0..capacity - 1 |-> 0]]

AddKey(table, key, hash) ==
  IF \E s \in table.taken : table.keys[s] = key THEN table ELSE InsertKey(table, key, hash)

\* build_int32_set: duplicates count once.
BuildSet(list, hash) ==
  LET built[n \in 0..Len(list)] ==
        IF n = 0 THEN EmptyTable(CapacityFor(Cardinality(ToSet(list))))
        ELSE AddKey(built[n - 1], list[n], hash)
  IN  built[Len(list)]

-----------------------------------------------------------------------------
(* Reading a table                                                         *)

\* The game's lookup, and _lookup_index: the slot of a key, if the probe meets
\* it before a gap.
Probed(table, key, hash) == {s \in Run(table, hash[key]) : table.keys[s] = key}

\* What the readers make of a header: its capacity is a power of two within
\* reason and its buffers are set, or there is nothing to read.
HeaderSound(capacity, buffers) == buffers /\ capacity \in {2 ^ i : i \in 0..16}

\* read_exhibit_ids: every slot, whatever its hash.
DecodeIds(table) == {table.keys[s] : s \in table.taken}

\* iter_roster: an animal whose index is no longer set is left out, as the
\* lookup by handle leaves it out.
NoIndex == -1
Roster(table, index) == {k \in DecodeIds(table) : index[k] # NoIndex}
LookupIndex(table, index, key, hash) ==
  IF Probed(table, key, hash) = {} THEN NoIndex ELSE index[key]

\* _intmap_find: no probe, every slot is looked at.
IntmapFind(table, key) == {s \in table.taken : table.keys[s] = key}

-----------------------------------------------------------------------------
(* Properties                                                              *)

\* A set of any size has a free slot, so that the lookup of a missing key
\* ends, is at most 70 % full and passes the check of the client's readers.
RoomLeft ==
  \A n \in 0..MaxKeys : /\ n < CapacityFor(n) /\ 10 * n <= 7 * CapacityFor(n)
                        /\ HeaderSound(CapacityFor(n), TRUE)

\* The game finds exactly the keys of the list in the set built from it, and
\* so do the client's own readers, for every hash.
KeysFound ==
  \A list \in KeyLists, hash \in HashFunctions :
    LET table == BuildSet(list, hash)
    IN  /\ \A k \in TableKeys \cup {Stranger} :
             /\ Probed(table, k, hash) = IntmapFind(table, k)
             /\ Cardinality(IntmapFind(table, k)) = IF k \in ToSet(list) THEN 1 ELSE 0
        /\ DecodeIds(table) = ToSet(list)
        /\ Cardinality(table.taken) = Cardinality(ToSet(list))

\* A sweep of a roster and the lookups by handle agree on which animals there
\* are: a handle that one thread swept is one that another can resolve.
SweepsAgree ==
  \A list \in KeyLists, hash \in HashFunctions :
    LET table == BuildSet(list, hash)
    IN  \A gone \in SUBSET Departed :
          LET index == [k \in TableKeys |-> IF k \in gone THEN NoIndex ELSE k]
          IN  Roster(table, index) =
                {k \in TableKeys : LookupIndex(table, index, k, hash) # NoIndex}
=============================================================================
