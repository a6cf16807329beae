--------------------------- MODULE PacketGroups ---------------------------
(***************************************************************************)
(* The packet log page's grouping (packet_group.rs): receptions of one     *)
(* transmission, relayed by several repeaters, are shown as one row.  A    *)
(* log entry is a record                                                   *)
(*   [id, at, key, ends, hops, managedHop, managedEnd]                     *)
(* of which this module uses at, the reception time, and key, which stands *)
(* for the payload type with the payload bytes, or Undecoded.              *)
(***************************************************************************)
EXTENDS Integers, Sequences, SequencesExt

CONSTANTS Undecoded,   \* the key of an entry whose header was not decoded
          Window       \* GROUP_WINDOW_SECS (90)

ASSUME WindowAssumption == Window \in Nat

Decoded(entry) == entry.key # Undecoded

\* Faulty variant: the boundary is left out.
NearStrictly(entry, last) == entry.at - last < Window

\* The window is measured from the last reception of the group, in the order
\* of arrival; the clock may have been set back in between.
Near(entry, last) == entry.at - last <= Window

\* One step of the loop over the entries, oldest first: open[k] is the number
\* of the group that last took key k.  A group keeps its members newest first.
Grow(state, entry) ==
  LET g == state.open[entry.key]
  IN IF Decoded(entry) /\ entry.key \in DOMAIN state.open
        /\ Near(entry, Head(state.groups[g]).at)
     THEN [state EXCEPT !.groups[g] = <<entry>> \o @]
     ELSE [groups |-> Append(state.groups, <<entry>>),
           open   |-> [k \in DOMAIN state.open \cup
                             (IF Decoded(entry) THEN {entry.key} ELSE {})
                       |-> IF k = entry.key THEN Len(state.groups) + 1
                                            ELSE state.open[k]]]

\* group_packets: the groups of a newest-first list, the one begun last first;
\* state[n] is the loop's after the n oldest entries.
GroupPackets(packets) ==
  LET state[n \in 0..Len(packets)] ==
        IF n = 0 THEN [groups |-> <<>>, open |-> [k \in {} |-> 0]]
        ELSE Grow(state[n - 1], packets[Len(packets) + 1 - n])
  IN Reverse(state[Len(packets)].groups)

-----------------------------------------------------------------------------
(* What the grouping has to be, said of positions in the list (1 is the    *)
(* newest).                                                                *)

\* The previous reception of the same transmission, when there is one in time.
Previous(packets, i) ==
  {j \in i + 1 .. Len(packets) :
     /\ packets[j].key = packets[i].key
     /\ \A h \in i + 1 .. j - 1 : packets[h].key # packets[i].key}

\* i continues the transmission received at j > i: every reception of that key
\* from j to i came within the window of the one before it.
Continues(packets, i, j) ==
  /\ Decoded(packets[i]) /\ packets[j].key = packets[i].key
  /\ \A h \in i .. j - 1 :
       packets[h].key = packets[i].key =>
         \E p \in Previous(packets, h) : packets[h].at - packets[p].at <= Window

SameTransmission(packets, i, j) ==
  \/ i = j
  \/ i < j /\ Continues(packets, i, j)
  \/ j < i /\ Continues(packets, j, i)

Transmission(packets, i) ==
  {packets[j] : j \in {j \in 1..Len(packets) : SameTransmission(packets, i, j)}}

\* The groups are the transmissions of a list of distinct entries, each entry in
\* one group and once, the newest first.
GroupedRight(packets, groups) ==
  /\ {ToSet(groups[g]) : g \in 1..Len(groups)} =
       {Transmission(packets, i) : i \in 1..Len(packets)}
  /\ \A g, h \in 1..Len(groups) :
       \A m \in 1..Len(groups[g]), l \in 1..Len(groups[h]) :
         groups[g][m] = groups[h][l] => g = h /\ m = l
  /\ \A g \in 1..Len(groups) : \A m \in 1..Len(groups[g]) - 1 :
       \E i, j \in 1..Len(packets) :
         i < j /\ packets[i] = groups[g][m] /\ packets[j] = groups[g][m + 1]
=============================================================================
