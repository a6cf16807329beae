--------------------------- MODULE RepeaterOrder ---------------------------
(***************************************************************************)
(* Which contacts the Repeaters panel lists, and in which order            *)
(* (repeater_filter.rs, app.rs sorted_contacts).  A contact is a record    *)
(*   [key, repeater, status, registered, heard, name, place]               *)
(* where status is the tier configured for it or "none", name its rank in  *)
(* the alphabet and place a position on a line, 0 standing for the         *)
(* coordinates (0, 0) that mean "unknown".                                 *)
(***************************************************************************)
EXTENDS Integers, Sequences, SequencesExt

GroupRank == [managed |-> 1, supervised |-> 2, known |-> 3, discovered |-> 4]

\* repeater_group
RepeaterGroup(c) == IF c.status # "none" THEN c.status
                    ELSE IF c.registered THEN "known" ELSE "discovered"

Sorts == {"last_heard", "name", "distance"}

\* A filter is [show : SUBSET groups, sort, byType]; this is its default.
AllShown == [show |-> DOMAIN GroupRank, sort |-> "last_heard", byType |-> FALSE]

Abs(n) == IF n < 0 THEN -n ELSE n

\* distance_from_observer
Unknown == -1
Distance(c, here) == IF here = 0 \/ c.place = 0 THEN Unknown ELSE Abs(c.place - here)

\* Faulty variant: Less for a pair of which one is unknown, whichever it is.
NearerIfOneKnown(a, b) == IF a = Unknown \/ b = Unknown THEN a # b ELSE a < b

\* Known distances in order, unknown ones after them.
Nearer(a, b) == /\ a # Unknown
                /\ b = Unknown \/ a < b

\* compare_by_sort gives Less.
Precedes(a, b, sort, here) ==
  CASE sort = "last_heard" -> a.heard > b.heard
    [] sort = "name"       -> a.name < b.name
    [] sort = "distance"   -> Nearer(Distance(a, here), Distance(b, here))

\* The comparison sort_repeaters gives to sort_by.
Before(a, b, filter, here) ==
  LET ga == GroupRank[RepeaterGroup(a)]
      gb == GroupRank[RepeaterGroup(b)]
  IN IF filter.byType /\ ga # gb THEN ga < gb ELSE Precedes(a, b, filter.sort, here)

Listed(c, filter) == c.repeater /\ RepeaterGroup(c) \in filter.show

\* sort_by is stable: a contact goes behind the last one it is not before.
Insert(rows, c, filter, here) ==
  LET stay == {i \in 1..Len(rows) : ~Before(c, rows[i], filter, here)}
  IN InsertAt(rows, 1 + CHOOSE n \in {0} \cup stay : \A i \in stay : i <= n, c)

With(rows, c, filter, here) ==
  IF Listed(c, filter) THEN Insert(rows, c, filter, here) ELSE rows

\* sorted_contacts; rows[n] is the table of the first n contacts.
SortedContacts(contacts, filter, here) ==
  LET rows[n \in 0..Len(contacts)] ==
        IF n = 0 THEN <<>> ELSE With(rows[n - 1], contacts[n], filter, here)
  IN rows[Len(contacts)]

-----------------------------------------------------------------------------
\* What sort_by asks of its comparison: a strict weak order, or the result is
\* unspecified and the sort may panic.
WeakOrder(S, LT(_, _)) ==
  /\ \A a, b \in S : LT(a, b) => ~LT(b, a)
  /\ \A a, b, c \in S : LT(a, b) => LT(a, c) \/ LT(c, b)

\* A listing is right when it has the listed contacts, no pair of which is the
\* wrong way round, and under "group by type" no group is split.
ListedRight(contacts, rows, filter, here) ==
  /\ ToSet(rows) = {c \in ToSet(contacts) : Listed(c, filter)}
  /\ \A i, j \in 1..Len(rows) : i < j => ~Before(rows[j], rows[i], filter, here)
  /\ WeakOrder(ToSet(rows), LAMBDA a, b : Before(a, b, filter, here))
=============================================================================
