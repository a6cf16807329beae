--------------------------- MODULE DiscoveredStore ---------------------------
(***************************************************************************)
(* Overheard repeaters and rooms: the rows of the repeaters table           *)
(* (daemon/src/repeater_db.rs) and their mirror in memory                   *)
(* (AppState.discovered_repeaters, daemon/src/state.rs).                    *)
(*                                                                         *)
(* The table is keyed by the whole public key, the mirror by the first six  *)
(* bytes of it.  A public key is a sequence of bytes; position 0 stands     *)
(* for the pair (0.0, 0.0), "no position".                                  *)
(***************************************************************************)
EXTENDS Naturals, Sequences, FiniteSetsExt

CONSTANT PrefixSize      \* bytes of a prefix: 6 in the code

ASSUME PrefixSizeAssumption == PrefixSize \in Nat \ {0}

NoPosition == 0

\* DiscoveredNode without the fields that follow from the others: the prefix
\* is the front of the key, is_repeater is type = 2.
PrefixOf(key) == SubSeq(key, 1, PrefixSize)

\* is_repeater_or_room: the only two types that are kept.
Kept(type) == type \in {2, 3}

\* COALESCE(excluded.x, repeaters.x), and Option::or of the mirror.
Coalesce(new, old) == IF new = NoPosition THEN old ELSE new

-----------------------------------------------------------------------------
(* Faulty variant: the newest sighting, whole.                             *)
OverwriteRow(row, s, now) ==
    [name |-> s.name, type |-> s.type, pos |-> s.pos, signal |-> s.signal,
     first |-> row.first, last |-> now, count |-> row.count + 1]

\* ON CONFLICT(public_key_hex) DO UPDATE SET ...
UpdateRow(row, s, now) ==
    [name |-> s.name, type |-> s.type, pos |-> Coalesce(s.pos, row.pos),
     signal |-> s.signal, first |-> row.first, last |-> now,
     count |-> row.count + 1]

InsertRow(s, now) ==
    [name |-> s.name, type |-> s.type, pos |-> s.pos, signal |-> s.signal,
     first |-> now, last |-> now, count |-> 1]

\* RepeaterDb::upsert.
Upsert(table, s, now) ==
    [k \in DOMAIN table \cup {s.key} |->
        IF k # s.key THEN table[k]
        ELSE IF k \in DOMAIN table THEN UpdateRow(table[k], s, now)
        ELSE InsertRow(s, now)]

\* What the mirror keeps of a row.
Shown(key, row) ==
    [key |-> key, name |-> row.name, type |-> row.type, pos |-> row.pos,
     signal |-> row.signal, last |-> row.last]

\* RepeaterDb::load_all: rows whose keys share a prefix fall on one entry, and
\* the row that comes last stays.
Loads(table) ==
    LET prefixes == {PrefixOf(k) : k \in DOMAIN table}
    IN  {[x \in prefixes |-> Shown(pick[x], table[pick[x]])] :
            pick \in {f \in [prefixes -> DOMAIN table] :
                         \A x \in prefixes : PrefixOf(f[x]) = x}}

\* The merge of AppState::upsert_discovered_node into the mirror.
Merged(mirror, s, now) ==
    LET x == PrefixOf(s.key)
        fresh == [key |-> s.key, name |-> s.name, type |-> s.type,
                  pos |-> s.pos, signal |-> s.signal, last |-> now]
    IN  [y \in DOMAIN mirror \cup {x} |->
            IF y # x THEN mirror[y]
            ELSE IF x \in DOMAIN mirror
                 THEN [fresh EXCEPT !.pos = Coalesce(s.pos, mirror[x].pos)]
                 ELSE fresh]

-----------------------------------------------------------------------------
(* What a list of sightings says of a key, without merging anything: the   *)
(* reference both copies are compared with.  I is the set of the positions *)
(* of the list that count.                                                 *)
Says(log, key, I) ==
    LET mine == {i \in I : log[i].key = key}
        placed == {i \in mine : log[i].pos # NoPosition}
        newest == log[Max(mine)]
    IN  [name |-> newest.name, type |-> newest.type,
         pos |-> IF placed = {} THEN NoPosition ELSE log[Max(placed)].pos,
         signal |-> newest.signal, first |-> Min(mine), last |-> Max(mine),
         count |-> Cardinality(mine)]
=============================================================================
