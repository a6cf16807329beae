---------------------------- MODULE TerminalUi ----------------------------
(***************************************************************************)
(* The dashboard's own behaviour (tui/mod.rs run_loop, tui/app.rs): pages, *)
(* popups, the Repeaters table with its filter, the two-step deletion, the *)
(* packet log with its scroll lock, and the filter preferences kept on     *)
(* disk.  The loop draws, then handles one key or one message.  What       *)
(* brings the messages is the subject of ClientStream; here a snapshot may *)
(* arrive at any time, and the packets come in the order of the handler: a *)
(* subscription, the backlog, then the feed, which repeats what was heard  *)
(* between the two and skips packets when it lags.                         *)
(***************************************************************************)
EXTENDS Integers, Sequences, FiniteSets, RepeaterOrder, PacketGroups

CONSTANTS Snapshots,  \* the (contacts, here) pairs the daemon may send
          Keys,       \* keys the user presses
          FilterRows, \* the rows of the filter popup, in order
          Neighbours, \* lengths a neighbour list may have
          Payloads,   \* keys of packets, Undecoded among them or not
          Times,      \* readings of the daemon's clock
          MaxShown,   \* MAX_PACKETS (2000)
          LogCapacity,\* entries the daemon's log keeps (packet_log_capacity)
          FeedSlots,  \* capacity of packet_log_tx (256)
          MaxPackets, \* bound: packets of one daemon process
          MaxBoots,   \* bound: daemon processes
          None        \* an Option that is None

\* The popup's eight rows; an instance may leave some out.
AllRows == <<"managed", "supervised", "known", "discovered",
             "last_heard", "name", "distance", "group">>

AllKeys == {"F1", "F2", "F3", "q", "Esc", "Up", "Down", "Enter", "Space",
            "r", "m", "k", "s", "d", "f", "l", "other"}

\* RepeaterFilter
Filters == [show : SUBSET DOMAIN GroupRank, sort : Sorts, byType : BOOLEAN]

Contact == UNION {ToSet(s.contacts) : s \in Snapshots}
ContactKey == {c.key : c \in Contact}

ASSUME UiAssumption ==
  /\ Keys \subseteq AllKeys
  /\ None \notin Filters \cup ContactKey \cup [do : {"remove"}, on : ContactKey]
  /\ \A s \in Snapshots : s.contacts \in Seq(Contact) /\ s.here \in Int
  /\ \A c \in Contact : /\ c.status \in {"none"} \cup DOMAIN GroupRank
                        /\ c.heard \in Int /\ c.name \in Int /\ c.place \in Int
  /\ FilterRows \in Seq(ToSet(AllRows)) /\ FilterRows # <<>>
  /\ Neighbours \subseteq Nat
  /\ MaxShown \in Nat \ {0} /\ LogCapacity \in Nat \ {0} /\ FeedSlots \in Nat \ {0}
  /\ MaxPackets \in Nat /\ MaxBoots \in Nat \ {0}

TierKey == [m |-> "managed", k |-> "known", s |-> "supervised"]

VARIABLES
  running,   \* the process; the loop runs until should_quit
  drawn,     \* terminal.draw has run since the last key or message
  page, help, filterOpen, cursor,   \* App: page, help_open, repeater_filter_*
  contacts, here,                   \* App.snapshot: contacts, self_info's place
  filter, selected,                 \* repeater_filter, contacts_state
  pendingDelete,
  detail, neighbour,                \* repeater_detail, neighbours_list_state
  packets, locked,                  \* packets, locked_view
  packetSelected, packetDetail,     \* packet_table_state, packet_detail
  prefs,     \* repeater_filter.toml: a filter, or None: absent or unreadable
  unsaved,   \* history: the last save of prefs failed
  sent,      \* the command the last key made the loop send, or None
  lastD,     \* history: the contact the last key was a d on, or None
  asked,     \* history: contacts whose detail was requested
  connected, \* the connection: "no", "subscribed" to the feed, backlog "listed"
  fed,       \* the number of the last entry the feed delivered or passed over
  log, boot  \* the daemon: the entries it numbered, newest first; its process

screen   == <<page, help, filterOpen, cursor>>
list     == <<contacts, here, filter, selected>>
popup    == <<detail, neighbour>>
stream   == <<packets, locked, packetSelected, packetDetail>>
disk     == <<prefs, unsaved>>
daemon   == <<connected, fed, log, boot>>
vars     == <<running, drawn, screen, list, pendingDelete, popup, stream, disk,
              sent, lastD, asked, daemon>>

\* load_repeater_filter_prefs
Loaded(file) == IF file = None THEN AllShown ELSE file

\* App::new
Init ==
  /\ running = TRUE /\ drawn = FALSE
  /\ page = "dashboard" /\ help = FALSE /\ filterOpen = FALSE /\ cursor = 1
  /\ contacts = <<>> /\ here = 0 /\ selected = None /\ filter = AllShown
  /\ pendingDelete = None /\ detail = None /\ neighbour = None
  /\ packets = <<>> /\ locked = None /\ packetSelected = None /\ packetDetail = None
  /\ prefs = None /\ unsaved = FALSE
  /\ sent = None /\ lastD = None /\ asked = {}
  /\ connected = "no" /\ fed = 0 /\ log = <<>> /\ boot = 1

-----------------------------------------------------------------------------
(* What is on the screen.                                                  *)

Rows == SortedContacts(contacts, filter, here)
VisiblePackets == IF locked # None THEN locked ELSE packets
Groups == GroupPackets(VisiblePackets)

\* The list widgets start at 0 in the code and at 1 here.
At(seq, i) == IF i # None /\ i <= Len(seq) THEN seq[i] ELSE None
SelectedContact == At(Rows, selected)
SelectedGroup   == At(Groups, packetSelected)
NeighbourCount  == IF detail = None THEN 0 ELSE detail.count

\* The four select_next_* and select_prev_*: nothing in an empty list,
\* otherwise around its ends.
NextIn(n, i) == IF n = 0 THEN i ELSE IF i = None THEN 1 ELSE IF i < n THEN i + 1 ELSE 1
PrevIn(n, i) == IF n = 0 THEN i ELSE IF i = None \/ i = 1 THEN n ELSE i - 1
Moved(k, n, i) == IF k = "Down" THEN NextIn(n, i) ELSE PrevIn(n, i)

-----------------------------------------------------------------------------
(* Faulty variants.                                                        *)

\* The second d is taken for a confirmation whatever is selected.
ConfirmsAnyway(c) == pendingDelete # None

\* f closes the popup without saving.
CloseFilterUnsaved == filterOpen' = FALSE /\ UNCHANGED disk

\* The two lists are compared by their lengths.
NewByLength == IF locked = None THEN 0 ELSE Len(packets) - Len(locked)

-----------------------------------------------------------------------------
\* new_packets_since_lock: entries are newest first, numbered by the daemon.
NewSinceLock ==
  IF locked = None THEN 0
  ELSE IF locked = <<>> THEN Len(packets)
  ELSE LET old == {i \in 1..Len(packets) : packets[i].id <= locked[1].id}
       IN Cardinality({i \in 1..Len(packets) : \A j \in old : i < j})

\* truncate
First(s, n) == SubSeq(s, 1, IF Len(s) <= n THEN Len(s) ELSE n)

-----------------------------------------------------------------------------
(* Keys.  HandleKey is the body of the match on the key; the guards follow *)
(* the order of its arms.                                                  *)

\* Any key but d disarms a deletion.
Disarms(k) == k # "d"

\* What stays the same in the arms that only touch the screen.
KeepList == UNCHANGED <<list, popup, stream, disk, sent, asked, running>>

HelpKey ==
  /\ help' = ~help
  /\ packetDetail' = IF help THEN packetDetail ELSE None
  /\ UNCHANGED <<page, filterOpen, cursor, list, popup, packets, locked, packetSelected,
                 disk, sent, asked, running>>

PageKey(p) == page' = p /\ UNCHANGED <<help, filterOpen, cursor>> /\ KeepList

Quit == running' = FALSE /\ UNCHANGED <<screen, list, popup, stream, disk, sent, asked>>

\* close_repeater_filter: best effort, a failed write may leave no usable file.
CloseFilter ==
  /\ filterOpen' = FALSE
  /\ \/ prefs' = filter /\ unsaved' = FALSE
     \/ prefs' \in {prefs, None} /\ unsaved' = TRUE

CloseFilterKey ==
  /\ CloseFilter
  /\ UNCHANGED <<page, help, cursor, list, popup, stream, sent, asked, running>>

\* What Esc closes, shown or not; "nothing" when it quits.
Innermost == CASE help -> "help"
               [] ~help /\ filterOpen -> "filter"
               [] ~help /\ ~filterOpen /\ packetDetail # None -> "packet"
               [] ~help /\ ~filterOpen /\ packetDetail = None /\ detail # None -> "repeater"
               [] OTHER -> "nothing"

EscKey ==
  CASE Innermost = "help"     -> /\ help' = FALSE
                             /\ UNCHANGED <<page, filterOpen, cursor>> /\ KeepList
    [] Innermost = "filter"   -> CloseFilterKey
    [] Innermost = "packet"   -> /\ packetDetail' = None
                             /\ UNCHANGED <<screen, list, popup, packets, locked,
                                            packetSelected, disk, sent, asked, running>>
    [] Innermost = "repeater" -> /\ detail' = None
                             /\ UNCHANGED <<screen, list, neighbour, stream, disk, sent,
                                            asked, running>>
    [] Innermost = "nothing"  -> Quit

\* toggle_selected_filter_row, with the reset of the table's selection.
ToggleRow ==
  LET row == FilterRows[cursor]
  IN /\ filter' = IF row = "group" THEN [filter EXCEPT !.byType = ~@]
                  ELSE IF row \in Sorts THEN [filter EXCEPT !.sort = row]
                  ELSE [filter EXCEPT !.show = IF row \in @ THEN @ \ {row} ELSE @ \cup {row}]
     /\ selected' = IF SortedContacts(contacts, filter', here) = <<>> THEN None ELSE 1
     /\ UNCHANGED <<contacts, here, screen, popup, stream, disk, sent, asked, running>>

FilterKey(k) ==
  CASE k = "Down" -> /\ cursor' = (cursor % Len(FilterRows)) + 1
                     /\ UNCHANGED <<page, help, filterOpen>> /\ KeepList
    [] k = "Up"   -> /\ cursor' = IF cursor = 1 THEN Len(FilterRows) ELSE cursor - 1
                     /\ UNCHANGED <<page, help, filterOpen>> /\ KeepList
    [] k \in {"Enter", "Space"} -> ToggleRow
    [] k = "f"    -> CloseFilterKey
    [] OTHER      -> UNCHANGED screen /\ KeepList

Send(command) == sent' = command
KeepScreen == UNCHANGED <<screen, list, popup, stream, disk, running>>

\* set_repeater_status: the tier again clears it.
SetStatus(tier) ==
  LET c == SelectedContact
  IN /\ IF c = None THEN UNCHANGED sent
        ELSE Send([do |-> "status", on |-> c.key,
                   status |-> IF c.status = tier THEN "none" ELSE tier])
     /\ UNCHANGED asked /\ KeepScreen

\* The confirmation is for the contact it was armed for.
Confirms(c) == pendingDelete = c.key

\* request_repeater_detail
RequestDetail ==
  LET c == SelectedContact
  IN /\ IF c = None THEN UNCHANGED <<popup, sent, asked>>
        ELSE /\ detail' = [key |-> c.key, count |-> 0]
             /\ neighbour' = None
             /\ Send([do |-> "detail", on |-> c.key])
             /\ asked' = asked \cup {c.key}
     /\ UNCHANGED <<screen, list, stream, disk, running>>

MoveOnDashboard(k) ==
  /\ IF detail # None
     THEN neighbour' = Moved(k, NeighbourCount, neighbour) /\ UNCHANGED selected
     ELSE selected' = Moved(k, Len(Rows), selected) /\ UNCHANGED neighbour
  /\ UNCHANGED <<screen, contacts, here, filter, detail, stream, disk, sent, asked, running>>

DashboardKey(k) ==
  CASE k = "r"    -> Send([do |-> "snapshot"]) /\ UNCHANGED asked /\ KeepScreen
    [] k \in {"Down", "Up"} -> MoveOnDashboard(k)
    [] k \in DOMAIN TierKey -> SetStatus(TierKey[k])
    [] k = "f"    -> /\ detail' = None /\ filterOpen' = TRUE
                     /\ UNCHANGED <<page, help, cursor, list, neighbour, stream, disk, sent,
                                    asked, running>>
    [] k = "Enter" -> RequestDetail
    [] k = "d"    -> /\ IF SelectedContact # None /\ Confirms(SelectedContact)
                        THEN Send([do |-> "remove", on |-> SelectedContact.key])
                        ELSE UNCHANGED sent
                     /\ UNCHANGED asked /\ KeepScreen
    [] OTHER      -> UNCHANGED screen /\ KeepList

MoveInLog(k) ==
  /\ packetSelected' = IF packetDetail = None THEN Moved(k, Len(Groups), packetSelected)
                                              ELSE packetSelected
  /\ UNCHANGED <<packets, locked, packetDetail>>

PacketLogKey(k) ==
  /\ CASE k \in {"Down", "Up"} -> MoveInLog(k)
       [] k = "l"    -> /\ locked' = IF locked = None THEN packets ELSE None
                        /\ UNCHANGED <<packets, packetSelected, packetDetail>>
       [] k = "Enter" /\ SelectedGroup # None ->
                        /\ packetDetail' = IF packetDetail = None THEN SelectedGroup ELSE None
                        /\ UNCHANGED <<packets, locked, packetSelected>>
       [] OTHER      -> UNCHANGED stream
  /\ UNCHANGED <<screen, list, popup, disk, sent, asked, running>>

Anywhere == {"F1", "F2", "F3", "q", "Esc"}

HandleKey(k) ==
  CASE k = "F1"  -> HelpKey
    [] k = "F2"  -> PageKey("dashboard")
    [] k = "F3"  -> PageKey("packet_log")
    [] k = "q"   -> Quit
    [] k = "Esc" -> EscKey
    [] k \notin Anywhere /\ help -> UNCHANGED screen /\ KeepList
    [] k \notin Anywhere /\ ~help /\ filterOpen -> FilterKey(k)
    [] OTHER -> IF page = "dashboard" THEN DashboardKey(k) ELSE PacketLogKey(k)

\* confirm_or_arm_delete's part of pending_delete: taken by the key, armed
\* again unless it was confirmed.
ReachesDelete == ~help /\ ~filterOpen /\ page = "dashboard"
PendingAfter(k) ==
  IF Disarms(k) THEN None
  ELSE IF k # "d" \/ ~ReachesDelete THEN pendingDelete
  ELSE IF SelectedContact = None \/ Confirms(SelectedContact) THEN None
  ELSE SelectedContact.key

Press(k) ==
  /\ running /\ drawn
  /\ HandleKey(k)
  /\ pendingDelete' = PendingAfter(k)
  /\ lastD' = IF k = "d" /\ SelectedContact # None THEN SelectedContact.key ELSE None
  /\ drawn' = FALSE
  /\ UNCHANGED daemon

-----------------------------------------------------------------------------
(* Drawing, and the messages of the daemon.                                *)

\* A table that is drawn pulls a selection past its end back to it.
Clamp(i, n) == IF i = None \/ n = 0 THEN None ELSE IF i <= n THEN i ELSE n

Draw ==
  /\ running /\ ~drawn
  /\ drawn' = TRUE /\ sent' = None
  /\ IF page = "dashboard"
     THEN selected' = Clamp(selected, Len(Rows)) /\ UNCHANGED packetSelected
     ELSE packetSelected' = Clamp(packetSelected, Len(Groups)) /\ UNCHANGED selected
  /\ UNCHANGED <<running, screen, contacts, here, filter, pendingDelete, popup, packets,
                 locked, packetDetail, disk, lastD, asked, daemon>>

KeepUser == UNCHANGED <<running, screen, filter, selected, pendingDelete, locked,
                        packetSelected, packetDetail, disk, sent, lastD, asked>>

\* apply_snapshot
ApplySnapshot(s) ==
  /\ running /\ drawn /\ connected # "no"
  /\ contacts' = s.contacts /\ here' = s.here
  /\ drawn' = FALSE
  /\ UNCHANGED <<popup, packets, daemon>> /\ KeepUser

\* apply_repeater_detail_category; n is the length of the neighbour list when
\* that is the category, None for another one.  A list that is there puts the
\* selection back on its first row, whichever category came.
ApplyCategory(key, n) ==
  /\ running /\ drawn /\ connected = "listed"
  /\ key \in asked
  /\ IF detail # None /\ detail.key = key
     THEN /\ detail' = IF n = None THEN detail ELSE [detail EXCEPT !.count = n]
          /\ neighbour' = IF detail'.count > 0 THEN 1 ELSE neighbour
     ELSE UNCHANGED popup
  /\ drawn' = FALSE
  /\ UNCHANGED <<contacts, here, packets, daemon>> /\ KeepUser

\* The daemon numbers a packet, stores it and puts it on the feed.  via says, of
\* an entry in the list, how it came: here, the copy the backlog would give.
HearPacket(key, at) ==
  /\ Len(log) < MaxPackets
  /\ log' = <<[id |-> Len(log) + 1, key |-> key, at |-> at, boot |-> boot,
               via |-> "backlog"]>> \o log
  /\ UNCHANGED <<drawn, contacts, here, popup, packets, connected, fed, boot>> /\ KeepUser

\* A connection: the handler subscribes to the feed before it reads the backlog.
Connect ==
  /\ running /\ drawn /\ connected = "no"
  /\ connected' = "subscribed" /\ fed' = Len(log)
  /\ drawn' = FALSE
  /\ UNCHANGED <<contacts, here, popup, packets, log, boot>> /\ KeepUser

\* set_packet_log: the backlog, whatever has been heard by now, replaces the list.
Backlog ==
  /\ running /\ drawn /\ connected = "subscribed"
  /\ connected' = "listed"
  /\ packets' = First(First(log, LogCapacity), MaxShown)
  /\ drawn' = FALSE
  /\ UNCHANGED <<contacts, here, popup, fed, log, boot>> /\ KeepUser

\* The entry the feed gives next; one that lags goes on with the oldest it holds.
NextFed == IF Len(log) - fed > FeedSlots THEN Len(log) - FeedSlots + 1 ELSE fed + 1

\* push_packet: what the feed brings, in the backlog already or not.
PushPacket ==
  /\ running /\ drawn /\ connected = "listed" /\ fed < Len(log)
  /\ fed' = NextFed
  /\ LET entry == [log[Len(log) + 1 - fed'] EXCEPT !.via = "feed"]
     IN packets' = First(<<entry>> \o packets, MaxShown)
  /\ drawn' = FALSE
  /\ UNCHANGED <<contacts, here, popup, connected, log, boot>> /\ KeepUser

\* The connection is lost, with or without the daemon.
Disconnect ==
  /\ running /\ drawn /\ connected # "no"
  /\ connected' = "no"
  /\ \/ UNCHANGED <<log, boot>>
     \/ boot < MaxBoots /\ boot' = boot + 1 /\ log' = <<>>
  /\ drawn' = FALSE
  /\ UNCHANGED <<contacts, here, popup, packets, fed>> /\ KeepUser

\* The UI is started again, with the preferences it finds.
Restart ==
  /\ ~running
  /\ running' = TRUE /\ drawn' = FALSE
  /\ page' = "dashboard" /\ help' = FALSE /\ filterOpen' = FALSE /\ cursor' = 1
  /\ contacts' = <<>> /\ here' = 0 /\ selected' = None /\ filter' = Loaded(prefs)
  /\ pendingDelete' = None /\ detail' = None /\ neighbour' = None
  /\ packets' = <<>> /\ locked' = None /\ packetSelected' = None /\ packetDetail' = None
  /\ sent' = None /\ lastD' = None /\ asked' = {}
  /\ connected' = "no"
  /\ UNCHANGED <<disk, fed, log, boot>>

Next ==
  \/ \E k \in Keys : Press(k)
  \/ Draw
  \/ \E s \in Snapshots : ApplySnapshot(s)
  \/ \E key \in asked, n \in Neighbours \cup {None} : ApplyCategory(key, n)
  \/ \E key \in Payloads, at \in Times : HearPacket(key, at)
  \/ Connect
  \/ Backlog
  \/ PushPacket
  \/ Disconnect
  \/ Restart

Spec == Init /\ [][Next]_vars

-----------------------------------------------------------------------------
(* Properties.                                                             *)

\* A contact is removed only by two d in a row, both while it was the
\* highlighted one: no snapshot that reorders the table in between, no key and
\* no popup lets a second d confirm the removal of another contact (mod.rs
\* confirm_or_arm_delete, and the footer's "any other key cancels").
DeleteConfirmed ==
  [][\A key \in ContactKey :
       sent' = [do |-> "remove", on |-> key] =>
         lastD = key /\ SelectedContact # None /\ SelectedContact.key = key]_vars

\* With the popup closed the file holds the filter in use, unless its last
\* write failed: every way to close it saves, and nothing else changes the
\* filter (app.rs close_repeater_filter).
PrefsKept == running /\ ~filterOpen /\ ~unsaved => filter = Loaded(prefs)

\* Whatever the snapshot and the filter, the table lists the contacts it should,
\* none the wrong way round, and the comparison is one sort_by accepts although
\* some distances are unknown (repeater_filter.rs sort_repeaters).
TableOrdered == ListedRight(contacts, Rows, filter, here)

\* The rows of the packet log are the transmissions of the visible list: chains
\* of equal packets each within the window of the one before, whatever lies in
\* between and whatever the clock does (packet_group.rs group_packets).
GroupsAreTransmissions == GroupedRight(VisiblePackets, Groups)

\* With every entry from one daemon process, the title's count of new packets is
\* never less than the number of entries newer than all of the frozen list, and is
\* that number when the frozen list begins with its newest, whatever the feed
\* repeated or skipped, however often the connection was made again and whatever
\* truncation dropped (app.rs new_packets_since_lock).  What is counted is entries:
\* a packet that the backlog and the feed both brought after the lock counts twice.
NewerThanLocked ==
  {i \in 1..Len(packets) : \A j \in 1..Len(locked) : packets[i].id > locked[j].id}
CountsSinceLock ==
  /\ locked # None
  /\ \A e, f \in ToSet(packets) \cup ToSet(locked) : e.boot = f.boot
  => /\ NewSinceLock >= Cardinality(NewerThanLocked)
     /\ (\A j \in 1..Len(locked) : locked[j].id <= locked[1].id)
          => NewSinceLock = Cardinality(NewerThanLocked)

\* Of a newest-first list, a group is placed according to its most recent member
\* (packet_group.rs, group_packets): not so, a group keeps the place of its first
\* reception.
NewestGroupFirst ==
  (\A i, j \in 1..Len(VisiblePackets) :
     i < j => VisiblePackets[i].id > VisiblePackets[j].id)
  => \A g \in 1..Len(Groups) - 1 : Groups[g][1].id > Groups[g + 1][1].id
=============================================================================
