--------------------------- MODULE TerminalUiProofs ---------------------------
(*************************************************************************)
(* What holds of the dashboard for any contacts, keys and packets: the   *)
(* preferences on disk are the filter in use, only a deletion that was   *)
(* confirmed for the highlighted contact is sent, the title of the       *)
(* frozen packet log counts what came since, the table of repeaters is   *)
(* in order whatever distances are unknown, and the rows of the packet   *)
(* log are the transmissions received.                                   *)
(*************************************************************************)
EXTENDS TerminalUi, TLAPS, SequenceTheorems, FiniteSetTheorems, WellFoundedInduction

\* The preferences: the filter is one, the file holds one or nothing usable, and
\* the cursor is on a row.
PrefsInv ==
  /\ filter \in Filters /\ prefs \in Filters \cup {None}
  /\ cursor \in 1..Len(FilterRows)
  /\ PrefsKept

\* A deletion is armed only where d reaches it, by the key just pressed; what was
\* sent is gone once the screen is drawn; and a removal that was sent is the one of
\* the highlighted contact, on which d was pressed.
DeleteInv ==
  /\ pendingDelete # None => ReachesDelete /\ lastD = pendingDelete
  /\ sent # None => ~drawn
  /\ \A key \in ContactKey :
       sent = [do |-> "remove", on |-> key] =>
         lastD = key /\ SelectedContact # None /\ SelectedContact.key = key

Entry == [id : Nat \ {0}, key : Payloads, at : Times, boot : Nat, via : {"backlog", "feed"}]

\* The log l of the daemon's process b, numbered without a gap.
LogShape(l, b) ==
  /\ l \in Seq(Entry) /\ b \in Nat
  /\ \A i \in 1..Len(l) : l[i].id = Len(l) - i + 1 /\ l[i].boot = b /\ l[i].via = "backlog"

\* A list of the UI: what the feed brought, then a backlog, each newest first and all of
\* one process.  The feed may repeat what the backlog has.
Listing(s) ==
  /\ s \in Seq(Entry)
  /\ \A i, j \in 1..Len(s) : i < j =>
       /\ s[i].boot = s[j].boot
       /\ s[i].via = "backlog" => s[j].via = "backlog"
       /\ s[i].via = s[j].via => s[i].id > s[j].id

\* No entry of s is of a later process than b, or of b with a number above n.
UpTo(s, n, b) ==
  \A i \in 1..Len(s) : s[i].boot <= b /\ (s[i].boot = b => s[i].id <= n)

\* What p has of a backlog is in the frozen list k, as when p is k with more in front.
Backs(p, k) ==
  \A i \in 1..Len(p) : p[i].via = "backlog" => \E j \in 1..Len(k) : p[i] = k[j]

\* What p has of the feed is newer than the frozen list k, as when p began with a later
\* connection.
Ahead(p, k) ==
  \A i \in 1..Len(p), j \in 1..Len(k) :
    p[i].via = "feed" /\ p[i].boot = k[j].boot => p[i].id > k[j].id

\* The feed stands at a number of the log; the list is of the process it follows and has
\* of the feed what it delivered; and the frozen list is an earlier state of the same
\* list, or older than everything this connection's feed has delivered.
ListInv ==
  /\ Listing(packets) /\ UpTo(packets, Len(log), boot)
  /\ connected = "subscribed" => UpTo(packets, fed, boot)
  /\ connected = "listed" =>
       \A i \in 1..Len(packets) :
         packets[i].boot = boot /\ (packets[i].via = "feed" => packets[i].id <= fed)
LockInv ==
  locked # None =>
    /\ Listing(locked) /\ UpTo(locked, Len(log), boot)
    /\ connected = "subscribed" => UpTo(locked, fed, boot)
    /\ \/ Backs(packets, locked)
       \/ Ahead(packets, locked) /\ (connected = "listed" => UpTo(locked, fed, boot))
LogInv ==
  /\ LogShape(log, boot) /\ fed \in Nat /\ (connected # "no" => fed <= Len(log))
  /\ ListInv /\ LockInv

LEMMA FilterFacts ==
  /\ DOMAIN GroupRank = {"managed", "supervised", "known", "discovered"}
  /\ Sorts = {"last_heard", "name", "distance"}
  /\ AllShown \in Filters /\ None \notin Filters
  /\ Len(FilterRows) \in Nat \ {0}
  /\ \A i \in 1..Len(FilterRows) : FilterRows[i] \in {"group"} \cup Sorts \cup DOMAIN GroupRank
<1>1. /\ DOMAIN GroupRank = {"managed", "supervised", "known", "discovered"}
      /\ Sorts = {"last_heard", "name", "distance"}
  BY DEF GroupRank, Sorts
<1>2. AllShown \in Filters /\ None \notin Filters
  BY <1>1, UiAssumption DEF AllShown, Filters
<1>3. ToSet(AllRows) = {"group"} \cup Sorts \cup DOMAIN GroupRank
  BY <1>1 DEF ToSet, AllRows
<1>4. FilterRows \in Seq({"group"} \cup Sorts \cup DOMAIN GroupRank) /\ FilterRows # <<>>
  BY <1>3, UiAssumption
<1> HIDE DEF Sorts, GroupRank
<1> QED BY <1>1, <1>2, <1>4

LEMMA FilterRecord ==
  ASSUME NEW s, s \subseteq DOMAIN GroupRank, NEW by \in Sorts, NEW group \in BOOLEAN
  PROVE  [show |-> s, sort |-> by, byType |-> group] \in Filters
BY Zenon DEF Filters

\* A row toggled leaves a filter.
LEMMA ToggleFacts ==
  ASSUME PrefsInv, ToggleRow
  PROVE  filter' \in Filters /\ UNCHANGED <<filterOpen, cursor, prefs, unsaved, running>>
<1>1. PICK row : row = FilterRows[cursor]
  OBVIOUS
<1>2. row \in {"group"} \cup Sorts \cup DOMAIN GroupRank
  BY <1>1, FilterFacts DEF PrefsInv
<1>3. filter' = IF row = "group" THEN [filter EXCEPT !.byType = ~@]
                ELSE IF row \in Sorts THEN [filter EXCEPT !.sort = row]
                ELSE [filter EXCEPT !.show = IF row \in @ THEN @ \ {row} ELSE @ \cup {row}]
  BY <1>1 DEF ToggleRow
<1>4. /\ filter = [show |-> filter.show, sort |-> filter.sort, byType |-> filter.byType]
      /\ filter.show \subseteq DOMAIN GroupRank /\ filter.sort \in Sorts
      /\ filter.byType \in BOOLEAN
  BY DEF PrefsInv, Filters
<1>5. filter' \in Filters
  <2>1. CASE row = "group"
    <3>1. filter' = [show |-> filter.show, sort |-> filter.sort, byType |-> ~filter.byType]
      BY <1>3, <1>4, <2>1
    <3>2. (~filter.byType) \in BOOLEAN
      OBVIOUS
    <3> QED BY <1>4, <3>1, <3>2, FilterRecord, Zenon
  <2>2. CASE row \in Sorts /\ row # "group"
    <3>1. filter' = [show |-> filter.show, sort |-> row, byType |-> filter.byType]
      BY <1>3, <1>4, <2>2
    <3> QED BY <1>4, <2>2, <3>1, FilterRecord, Zenon
  <2>3. CASE row \in DOMAIN GroupRank /\ row # "group" /\ row \notin Sorts
    <3>1. PICK s : s = IF row \in filter.show THEN filter.show \ {row} ELSE filter.show \cup {row}
      OBVIOUS
    <3>2. s \subseteq DOMAIN GroupRank
      BY <1>4, <2>3, <3>1
    <3>3. filter' = [show |-> s, sort |-> filter.sort, byType |-> filter.byType]
      BY <1>3, <1>4, <2>3, <3>1
    <3> QED BY <1>4, <3>2, <3>3, FilterRecord, Zenon
  <2> QED BY <1>2, <2>1, <2>2, <2>3
<1>6. UNCHANGED <<filterOpen, cursor, prefs, unsaved, running>>
  BY DEF ToggleRow, screen, disk
<1> QED BY <1>5, <1>6

\* The popup's cursor goes around its rows.
LEMMA CursorFacts ==
  ASSUME NEW n \in Nat \ {0}, NEW c \in 1..n
  PROVE  (c % n) + 1 \in 1..n /\ (IF c = 1 THEN n ELSE c - 1) \in 1..n
OBVIOUS

\* What a key does to the preferences.
LEMMA PrefsKey ==
  ASSUME PrefsInv, NEW k, running, HandleKey(k) PROVE PrefsInv'
<1>1. ASSUME UNCHANGED <<filter, prefs, cursor, unsaved>>, filterOpen' = filterOpen \/ filterOpen'
      PROVE  PrefsInv'
  BY <1>1 DEF PrefsInv, PrefsKept
<1>2. ASSUME CloseFilterKey PROVE PrefsInv'
  <2>1. UNCHANGED <<filter, cursor>> /\ CloseFilter
    BY <1>2 DEF CloseFilterKey, list
  <2>2. \/ prefs' = filter /\ unsaved' = FALSE
        \/ prefs' \in {prefs, None} /\ unsaved' = TRUE
    BY <2>1 DEF CloseFilter
  <2> QED BY <2>1, <2>2, FilterFacts DEF PrefsInv, PrefsKept, Loaded
<1>3. ASSUME filterOpen, FilterKey(k) PROVE PrefsInv'
  <2>1. CASE k \in {"Enter", "Space"}
    <3>1. ToggleRow
      BY <1>3, <2>1 DEF FilterKey
    <3> QED BY <1>3, <3>1, ToggleFacts DEF PrefsInv, PrefsKept
  <2>2. CASE k = "f"
    BY <1>2, <1>3, <2>2 DEF FilterKey
  <2>3. CASE k \in {"Down", "Up"}
    <3>1. /\ UNCHANGED <<filter, prefs, unsaved, filterOpen>>
          /\ \/ cursor' = (cursor % Len(FilterRows)) + 1
             \/ cursor' = IF cursor = 1 THEN Len(FilterRows) ELSE cursor - 1
      BY <1>3, <2>3 DEF FilterKey, KeepList, list, disk
    <3>2. cursor' \in 1..Len(FilterRows)
      BY <3>1, CursorFacts, FilterFacts DEF PrefsInv
    <3> QED BY <1>3, <3>1, <3>2 DEF PrefsInv, PrefsKept
  <2>4. CASE k \notin {"Enter", "Space", "f", "Down", "Up"}
    <3>1. UNCHANGED <<filter, prefs, cursor, unsaved, filterOpen>>
      BY <1>3, <2>4 DEF FilterKey, KeepList, screen, list, disk
    <3> QED BY <1>1, <3>1
  <2> QED BY <2>1, <2>2, <2>3, <2>4
<1>4. ASSUME EscKey PROVE PrefsInv'
  <2>1. \/ CloseFilterKey
        \/ UNCHANGED <<filter, prefs, cursor, unsaved, filterOpen>>
    BY <1>4 DEF EscKey, Innermost, KeepList, Quit, screen, list, disk
  <2> QED BY <1>1, <1>2, <2>1
<1>5. ASSUME DashboardKey(k) \/ PacketLogKey(k) PROVE PrefsInv'
  <2>1. ASSUME DashboardKey(k)
        PROVE  UNCHANGED <<filter, prefs, cursor, unsaved>> /\ (filterOpen' = filterOpen \/ filterOpen')
    <3>1. DOMAIN TierKey = {"m", "k", "s"}
      BY DEF TierKey
    <3> QED BY <2>1, <3>1 DEF DashboardKey, KeepScreen, KeepList, MoveOnDashboard, SetStatus,
              RequestDetail, screen, list, disk
  <2>2. ASSUME PacketLogKey(k) PROVE UNCHANGED <<filter, prefs, cursor, unsaved, filterOpen>>
    BY <2>2 DEF PacketLogKey, screen, list, disk
  <2> QED BY <1>1, <1>5, <2>1, <2>2
<1>6. ASSUME \/ HelpKey \/ (\E p \in {"dashboard", "packet_log"} : PageKey(p)) \/ Quit
             \/ (UNCHANGED screen /\ KeepList)
      PROVE  PrefsInv'
  <2>1. UNCHANGED <<filter, prefs, cursor, unsaved, filterOpen>>
    BY <1>6 DEF HelpKey, PageKey, Quit, KeepList, screen, list, disk
  <2> QED BY <1>1, <2>1
<1>7. CASE k \in Anywhere
  BY <1>4, <1>6, <1>7 DEF HandleKey, Anywhere
<1>8. CASE k \notin Anywhere
  <2>1. k \notin {"F1", "F2", "F3", "q", "Esc"}
    BY <1>8 DEF Anywhere
  <2>2. CASE help
    BY <1>6, <1>8, <2>1, <2>2 DEF HandleKey
  <2>3. CASE ~help /\ filterOpen
    BY <1>3, <1>8, <2>1, <2>3 DEF HandleKey
  <2>4. CASE ~help /\ ~filterOpen
    BY <1>5, <1>8, <2>1, <2>4 DEF HandleKey
  <2> QED BY <2>2, <2>3, <2>4
<1> QED BY <1>7, <1>8

\* Every step keeps the preferences.
LEMMA PrefsStep ==
  ASSUME PrefsInv, [Next]_vars PROVE PrefsInv'
<1>1. CASE \E k \in Keys : Press(k)
  BY <1>1, PrefsKey DEF Press
<1>2. CASE Restart
  BY <1>2, FilterFacts DEF Restart, PrefsInv, PrefsKept, Loaded, disk
<1>3. CASE UNCHANGED <<running, filter, prefs, cursor, unsaved, filterOpen>>
  BY <1>3 DEF PrefsInv, PrefsKept, Loaded
<1> QED BY <1>1, <1>2, <1>3
       DEF Next, Draw, ApplySnapshot, ApplyCategory, HearPacket, Connect, Backlog, PushPacket,
           Disconnect, KeepUser, vars, screen, list, disk

\* With the popup closed the file holds the filter in use, unless its last write
\* failed (app.rs close_repeater_filter).
THEOREM PreferencesAreSaved == Spec => []PrefsKept
<1>1. Init => PrefsInv
  BY FilterFacts DEF Init, PrefsInv, PrefsKept, Loaded
<1>2. PrefsInv /\ [Next]_vars => PrefsInv'
  BY PrefsStep
<1>3. PrefsInv => PrefsKept
  BY DEF PrefsInv
<1> QED BY <1>1, <1>2, <1>3, PTL DEF Spec

-----------------------------------------------------------------------------
(* The deletion.                                                           *)

Removal(key) == [do |-> "remove", on |-> key]

LEMMA RemovalFacts ==
  ASSUME NEW key \in ContactKey PROVE key # None /\ Removal(key) # None
BY UiAssumption DEF Removal

\* What is highlighted depends on the list alone.
LEMMA SelectedKept ==
  ASSUME UNCHANGED list PROVE SelectedContact' = SelectedContact
BY DEF list, SelectedContact, Rows

\* Only d on the dashboard sends a removal, once it was armed for the highlighted
\* contact.
LEMMA KeySends ==
  ASSUME NEW k, HandleKey(k), sent = None, NEW key \in ContactKey, sent' = Removal(key)
  PROVE  /\ k = "d" /\ ReachesDelete /\ SelectedContact # None
         /\ Confirms(SelectedContact) /\ key = SelectedContact.key
<1>0. sent' # None
  BY RemovalFacts
<1>1. k \notin {"F1", "F2", "F3", "q", "Esc"}
  <2>1. k \in {"F1", "F2", "F3", "q"} => sent' = sent
    BY DEF HandleKey, Anywhere, HelpKey, PageKey, Quit, KeepList
  <2>2. k = "Esc" => sent' = sent
    BY DEF HandleKey, Anywhere, EscKey, Innermost, KeepList, CloseFilterKey, Quit
  <2> QED BY <1>0, <2>1, <2>2
<1>2. ~help
  BY <1>0, <1>1 DEF HandleKey, Anywhere, KeepList
<1>3. ~filterOpen
  <2>1. FilterKey(k) => sent' = sent
    BY DEF FilterKey, KeepList, ToggleRow, CloseFilterKey
  <2> QED BY <1>0, <1>1, <1>2, <2>1 DEF HandleKey, Anywhere
<1>4. IF page = "dashboard" THEN DashboardKey(k) ELSE PacketLogKey(k)
  BY <1>1, <1>2, <1>3 DEF HandleKey, Anywhere
<1>5. page = "dashboard" /\ DashboardKey(k)
  BY <1>0, <1>4 DEF PacketLogKey
<1>6. sent'.do = "remove" /\ sent'.on = key
  BY DEF Removal
<1>7. DOMAIN TierKey = {"m", "k", "s"}
  BY DEF TierKey
<1>8. CASE k = "d"
  <2>1. IF SelectedContact # None /\ Confirms(SelectedContact)
        THEN sent' = [do |-> "remove", on |-> SelectedContact.key]
        ELSE UNCHANGED sent
    BY <1>5, <1>7, <1>8 DEF DashboardKey, Send
  <2> QED BY <1>0, <1>2, <1>3, <1>5, <1>6, <1>8, <2>1 DEF ReachesDelete
<1>9. CASE k = "r"
  BY <1>5, <1>6, <1>7, <1>9 DEF DashboardKey, Send
<1>10. CASE k \in {"Down", "Up"}
  BY <1>0, <1>5, <1>7, <1>10 DEF DashboardKey, MoveOnDashboard
<1>11. CASE k \in DOMAIN TierKey
  BY <1>0, <1>5, <1>6, <1>7, <1>11 DEF DashboardKey, SetStatus, Send
<1>12. CASE k = "f"
  BY <1>0, <1>5, <1>7, <1>12 DEF DashboardKey
<1>13. CASE k = "Enter"
  BY <1>0, <1>5, <1>6, <1>7, <1>13 DEF DashboardKey, RequestDetail, Send
<1>14. CASE k \notin {"r", "Down", "Up", "f", "Enter", "d"} \cup DOMAIN TierKey
  BY <1>0, <1>5, <1>14 DEF DashboardKey, KeepList
<1> QED BY <1>8, <1>9, <1>10, <1>11, <1>12, <1>13, <1>14

\* d leaves the screen and the list as they are.
LEMMA DeleteKeeps ==
  ASSUME HandleKey("d") PROVE UNCHANGED <<screen, list>>
<1>1. DOMAIN TierKey = {"m", "k", "s"}
  BY DEF TierKey
<1> QED BY <1>1 DEF HandleKey, Anywhere, FilterKey, DashboardKey, PacketLogKey, KeepList, KeepScreen

\* A key arms, confirms or disarms.
LEMMA DeletePress ==
  ASSUME DeleteInv, NEW k \in Keys, Press(k)
  PROVE  /\ DeleteInv'
         /\ \A key \in ContactKey : sent' = Removal(key) =>
              lastD = key /\ SelectedContact # None /\ SelectedContact.key = key
<1>1. /\ HandleKey(k) /\ pendingDelete' = PendingAfter(k) /\ drawn /\ drawn' = FALSE
      /\ lastD' = IF k = "d" /\ SelectedContact # None THEN SelectedContact.key ELSE None
      /\ sent = None
  BY DEF Press, DeleteInv
<1>2. ASSUME NEW key \in ContactKey, sent' = Removal(key)
      PROVE  /\ lastD = key /\ SelectedContact # None /\ SelectedContact.key = key
             /\ k = "d"
  BY <1>1, <1>2, KeySends, RemovalFacts DEF DeleteInv, Confirms
<1>3. ASSUME NEW key \in ContactKey, sent' = Removal(key)
      PROVE  (lastD = key /\ SelectedContact # None /\ SelectedContact.key = key)'
  <2>1. UNCHANGED list
    BY <1>1, <1>2, <1>3, DeleteKeeps
  <2> QED BY <1>1, <1>2, <1>3, <2>1, SelectedKept
<1>4. pendingDelete' # None => (ReachesDelete /\ lastD = pendingDelete)'
  <2>1. SUFFICES ASSUME pendingDelete' # None PROVE ReachesDelete' /\ lastD' = pendingDelete'
    OBVIOUS
  <2>2. k = "d" /\ ReachesDelete /\ SelectedContact # None /\ pendingDelete' = SelectedContact.key
    BY <1>1, <2>1 DEF PendingAfter, Disarms, DeleteInv
  <2>3. UNCHANGED screen
    BY <1>1, <2>2, DeleteKeeps
  <2> QED BY <1>1, <2>2, <2>3 DEF ReachesDelete, screen
<1> QED BY <1>1, <1>2, <1>3, <1>4 DEF DeleteInv, Removal

\* So does every step, and a removal is sent as it should be.
LEMMA DeleteStep ==
  ASSUME DeleteInv, [Next]_vars
  PROVE  /\ DeleteInv'
         /\ \A key \in ContactKey : sent' = Removal(key) =>
              (lastD = key /\ SelectedContact # None /\ SelectedContact.key = key) \/ UNCHANGED vars
<1>1. CASE \E k \in Keys : Press(k)
  BY <1>1, DeletePress
<1>2. ASSUME UNCHANGED <<help, filterOpen, page, pendingDelete, lastD, sent>>, sent = None PROVE DeleteInv'
  BY <1>2, RemovalFacts DEF DeleteInv, ReachesDelete, Removal
<1>3. CASE Draw
  <2>1. UNCHANGED <<help, filterOpen, page, pendingDelete, lastD>> /\ sent' = None
    BY <1>3 DEF Draw, screen
  <2> QED BY <2>1, RemovalFacts DEF DeleteInv, ReachesDelete, Removal
<1>4. CASE \/ \E s \in Snapshots : ApplySnapshot(s)
           \/ \E key \in asked, n \in Neighbours \cup {None} : ApplyCategory(key, n)
           \/ Connect \/ Backlog \/ PushPacket \/ Disconnect
  <2>1. UNCHANGED <<help, filterOpen, page, pendingDelete, lastD, sent>> /\ drawn
    BY <1>4 DEF ApplySnapshot, ApplyCategory, Connect, Backlog, PushPacket, Disconnect,
                KeepUser, screen
  <2>2. sent = None
    BY <2>1 DEF DeleteInv
  <2> QED BY <1>2, <2>1, <2>2, RemovalFacts
<1>5. CASE UNCHANGED vars \/ \E key \in Payloads, at \in Times : HearPacket(key, at)
  <2>1. UNCHANGED <<help, filterOpen, page, pendingDelete, lastD, sent, list>>
    BY <1>5 DEF HearPacket, KeepUser, screen, list, vars
  <2>2. drawn' = drawn \/ drawn' = FALSE
    BY <1>5 DEF HearPacket, vars
  <2>3. SelectedContact' = SelectedContact
    BY <2>1, SelectedKept
  <2> QED BY <2>1, <2>2, <2>3 DEF DeleteInv, ReachesDelete, Removal
<1>6. CASE Restart
  BY <1>6, RemovalFacts DEF Restart, DeleteInv, Removal
<1> QED BY <1>1, <1>3, <1>4, <1>5, <1>6 DEF Next

\* A contact is removed only by two d in a row, both while it was the highlighted
\* one (mod.rs confirm_or_arm_delete).
THEOREM OnlyTheConfirmedIsDeleted == Spec => DeleteConfirmed
<1>1. Init => DeleteInv
  BY RemovalFacts DEF Init, DeleteInv, Removal
<1>2. DeleteInv /\ [Next]_vars =>
        DeleteInv' /\ [\A key \in ContactKey :
                         sent' = [do |-> "remove", on |-> key] =>
                           lastD = key /\ SelectedContact # None /\ SelectedContact.key = key]_vars
  BY DeleteStep DEF Removal
<1> QED BY <1>1, <1>2, PTL DEF Spec, DeleteConfirmed

-----------------------------------------------------------------------------
(* The packets.                                                            *)

LEMMA EntryFacts ==
  ASSUME NEW s \in Seq(Entry)
  PROVE  /\ Len(s) \in Nat /\ \A i \in 1..Len(s) : s[i] \in Entry
         /\ \A i \in 1..Len(s) : s[i].id \in Nat \ {0} /\ s[i].boot \in Nat
                                 /\ s[i].via \in {"backlog", "feed"}
         /\ s = <<>> <=> Len(s) = 0
<1>1. Len(s) \in Nat /\ (\A i \in 1..Len(s) : s[i] \in Entry)
  BY LenProperties
<1>2. s = <<>> <=> Len(s) = 0
  BY EmptySeq
<1>3. \A e \in Entry : e.id \in Nat \ {0} /\ e.boot \in Nat /\ e.via \in {"backlog", "feed"}
  BY DEF Entry
<1> QED BY <1>1, <1>2, <1>3

\* q is the beginning of s.
Begins(q, s) ==
  q \in Seq(Entry) /\ Len(q) \in Nat /\ Len(q) <= Len(s) /\ \A i \in 1..Len(q) : q[i] = s[i]

\* What truncate keeps.
LEMMA FirstFacts ==
  ASSUME NEW s \in Seq(Entry), NEW m \in Nat \ {0}
  PROVE  Begins(First(s, m), s)
<1>1. /\ Len(s) \in Nat /\ \A i \in 1..Len(s) : s[i] \in Entry
  BY EntryFacts
<1>2. PICK n \in Nat : n = (IF Len(s) <= m THEN Len(s) ELSE m) /\ n <= Len(s)
  BY <1>1
<1>3. First(s, m) = SubSeq(s, 1, n)
  BY <1>2 DEF First
<1>4. \A i \in 1..n : s[i] \in Entry
  BY <1>1, <1>2
<1>5. /\ SubSeq(s, 1, n) \in Seq(Entry) /\ Len(SubSeq(s, 1, n)) = IF 1 <= n THEN n - 1 + 1 ELSE 0
      /\ \A i \in 1..n - 1 + 1 : SubSeq(s, 1, n)[i] = s[1 + i - 1]
  BY <1>4, SubSeqProperties
<1>6. Len(SubSeq(s, 1, n)) = n
  BY <1>5
<1>7. \A i \in 1..n : SubSeq(s, 1, n)[i] = s[i]
  BY <1>5
<1> QED BY <1>2, <1>3, <1>5, <1>6, <1>7 DEF Begins

\* A packet in front of a list.
LEMMA ConsFacts ==
  ASSUME NEW s \in Seq(Entry), NEW e \in Entry
  PROVE  /\ <<e>> \o s \in Seq(Entry) /\ Len(<<e>> \o s) = Len(s) + 1
         /\ (<<e>> \o s)[1] = e
         /\ \A i \in 1..Len(s) + 1 : i = 1 \/ (i - 1 \in 1..Len(s) /\ (<<e>> \o s)[i] = s[i - 1])
<1>1. <<e>> \in Seq(Entry) /\ Len(<<e>>) = 1 /\ <<e>>[1] = e /\ Len(s) \in Nat
  BY EntryFacts
<1>2. /\ <<e>> \o s \in Seq(Entry) /\ Len(<<e>> \o s) = Len(<<e>>) + Len(s)
      /\ \A i \in 1 .. Len(<<e>>) + Len(s) : (<<e>> \o s)[i] =
           IF i <= Len(<<e>>) THEN <<e>>[i] ELSE s[i - Len(<<e>>)]
  BY <1>1, ConcatProperties
<1> QED BY <1>1, <1>2

\* A packet heard leaves a log.
LEMMA LogGrows ==
  ASSUME NEW l, NEW b, LogShape(l, b), NEW e \in Entry,
         e.id = Len(l) + 1, e.boot = b, e.via = "backlog"
  PROVE  LogShape(<<e>> \o l, b) /\ Len(<<e>> \o l) = Len(l) + 1
<1>1. l \in Seq(Entry) /\ b \in Nat /\ Len(l) \in Nat
  BY EntryFacts DEF LogShape
<1>2. PICK m : m = <<e>> \o l
  OBVIOUS
<1>3. /\ m \in Seq(Entry) /\ Len(m) = Len(l) + 1 /\ m[1] = e
      /\ \A i \in 1..Len(l) + 1 : i = 1 \/ (i - 1 \in 1..Len(l) /\ m[i] = l[i - 1])
  BY <1>1, <1>2, ConsFacts
<1>4. ASSUME NEW i \in 1..Len(m)
      PROVE  m[i].id = Len(m) - i + 1 /\ m[i].boot = b /\ m[i].via = "backlog"
  <2>1. CASE i = 1
    BY <1>1, <1>3, <2>1
  <2>2. CASE i - 1 \in 1..Len(l) /\ m[i] = l[i - 1]
    BY <1>1, <1>3, <2>2 DEF LogShape
  <2> QED BY <1>3, <2>1, <2>2
<1> QED BY <1>1, <1>2, <1>3, <1>4 DEF LogShape

\* The backlog a connection delivers.
LEMMA BacklogFacts ==
  ASSUME NEW l, NEW b, LogShape(l, b), NEW q, q = First(First(l, LogCapacity), MaxShown)
  PROVE  /\ Listing(q) /\ UpTo(q, Len(l), b)
         /\ \A i \in 1..Len(q) : q[i].boot = b /\ q[i].via = "backlog"
<1>1. l \in Seq(Entry) /\ b \in Nat /\ Len(l) \in Nat
  BY EntryFacts DEF LogShape
<1>2. MaxShown \in Nat \ {0} /\ LogCapacity \in Nat \ {0}
  BY UiAssumption
<1>3. PICK r : r = First(l, LogCapacity)
  OBVIOUS
<1>4. Begins(r, l)
  BY <1>1, <1>2, <1>3, FirstFacts
<1>5. Begins(q, r)
  BY <1>2, <1>3, <1>4, FirstFacts DEF Begins
<1>6. /\ q \in Seq(Entry) /\ Len(q) \in Nat /\ Len(q) <= Len(l)
      /\ \A i \in 1..Len(q) : i \in 1..Len(l) /\ q[i] = l[i]
  BY <1>1, <1>4, <1>5 DEF Begins
<1>7. \A i \in 1..Len(q) : q[i].id = Len(l) - i + 1 /\ q[i].boot = b /\ q[i].via = "backlog"
  BY <1>6 DEF LogShape
<1>8. Listing(q)
  <2>1. ASSUME NEW i \in 1..Len(q), NEW j \in 1..Len(q), i < j PROVE q[i].id > q[j].id
    BY <1>1, <1>6, <1>7, <2>1
  <2> QED BY <1>6, <1>7, <2>1 DEF Listing
<1>9. UpTo(q, Len(l), b)
  BY <1>1, <1>6, <1>7 DEF UpTo
<1> QED BY <1>7, <1>8, <1>9

\* What the feed brings, in front of a list that has of the feed only older entries of
\* the same process.
LEMMA PushFacts ==
  ASSUME NEW p, Listing(p), NEW e \in Entry, e.via = "feed",
         \A i \in 1..Len(p) : p[i].boot = e.boot /\ (p[i].via = "feed" => p[i].id < e.id),
         NEW q, q = First(<<e>> \o p, MaxShown)
  PROVE  Listing(q) /\ \A i \in 1..Len(q) : q[i] = e \/ \E j \in 1..Len(p) : q[i] = p[j]
<1>1. p \in Seq(Entry) /\ Len(p) \in Nat
  BY EntryFacts DEF Listing
<1>2. PICK r : r = <<e>> \o p
  OBVIOUS
<1>3. /\ r \in Seq(Entry) /\ Len(r) = Len(p) + 1 /\ r[1] = e
      /\ \A i \in 1..Len(p) + 1 : i = 1 \/ (i - 1 \in 1..Len(p) /\ r[i] = p[i - 1])
  BY <1>1, <1>2, ConsFacts
<1>4. Begins(q, r)
  BY <1>2, <1>3, UiAssumption, FirstFacts
<1>5. /\ q \in Seq(Entry) /\ Len(q) \in Nat
      /\ \A i \in 1..Len(q) : (i = 1 /\ q[i] = e) \/ (i - 1 \in 1..Len(p) /\ q[i] = p[i - 1])
  BY <1>1, <1>3, <1>4 DEF Begins
<1>6. ASSUME NEW i \in 1..Len(q), NEW j \in 1..Len(q), i < j
      PROVE  /\ q[i].boot = q[j].boot
             /\ q[i].via = "backlog" => q[j].via = "backlog"
             /\ q[i].via = q[j].via => q[i].id > q[j].id
  <2>1. j - 1 \in 1..Len(p) /\ q[j] = p[j - 1]
    BY <1>5, <1>6
  <2>2. CASE i = 1 /\ q[i] = e
    <3>1. /\ p[j - 1].boot = e.boot /\ (p[j - 1].via = "feed" => p[j - 1].id < e.id)
          /\ e.id \in Nat /\ p[j - 1].id \in Nat
      BY <1>1, <2>1, EntryFacts DEF Entry
    <3> QED BY <2>1, <2>2, <3>1
  <2>3. CASE i - 1 \in 1..Len(p) /\ q[i] = p[i - 1]
    <3>1. PICK g \in 1..Len(p), h \in 1..Len(p) : g = i - 1 /\ h = j - 1
      BY <2>1, <2>3
    <3>2. g < h
      BY <1>5, <1>6, <3>1
    <3>3. /\ p[g].boot = p[h].boot
          /\ p[g].via = "backlog" => p[h].via = "backlog"
          /\ p[g].via = p[h].via => p[g].id > p[h].id
      BY <3>2 DEF Listing
    <3> QED BY <2>1, <2>3, <3>1, <3>3
  <2> QED BY <1>5, <2>2, <2>3
<1> QED BY <1>5, <1>6 DEF Listing

\* A key freezes the list, releases it or leaves it.
LEMMA LockStep ==
  ASSUME LogInv, UNCHANGED <<log, boot, fed, packets, connected>>,
         locked' \in {locked, packets, None}
  PROVE  LogInv'
<1>1. Backs(packets, packets)
  BY DEF Backs
<1>2. ListInv'
  BY DEF LogInv, ListInv, Listing, UpTo
<1>3. LockInv'
  <2>1. CASE locked' = locked
    BY <2>1 DEF LogInv, LockInv
  <2>2. CASE locked' = packets
    BY <1>1, <2>2 DEF LogInv, ListInv, LockInv
  <2>3. CASE locked' = None
    BY <2>3 DEF LockInv
  <2> QED BY <2>1, <2>2, <2>3
<1> QED BY <1>2, <1>3 DEF LogInv

LEMMA LogPress ==
  ASSUME LogInv, NEW k \in Keys, Press(k) PROVE LogInv'
<1>1. UNCHANGED <<log, boot, fed, connected>>
  BY DEF Press, daemon
<1>2. UNCHANGED packets /\ locked' \in {locked, packets, None}
  <2>1. ASSUME DashboardKey(k) PROVE UNCHANGED stream
    <3>1. DOMAIN TierKey = {"m", "k", "s"}
      BY DEF TierKey
    <3> QED BY <2>1, <3>1 DEF DashboardKey, KeepScreen, KeepList, MoveOnDashboard, SetStatus,
                              RequestDetail
  <2>2. ASSUME PacketLogKey(k) PROVE UNCHANGED packets /\ locked' \in {locked, packets, None}
    BY <2>2 DEF PacketLogKey, MoveInLog, stream
  <2>3. ASSUME FilterKey(k) PROVE UNCHANGED stream
    BY <2>3 DEF FilterKey, KeepList, ToggleRow, CloseFilterKey
  <2>4. ASSUME EscKey PROVE UNCHANGED <<packets, locked>>
    BY <2>4 DEF EscKey, Innermost, KeepList, CloseFilterKey, Quit, stream
  <2>5. k \in Anywhere => UNCHANGED <<packets, locked>>
    BY <2>4 DEF Press, HandleKey, Anywhere, HelpKey, PageKey, Quit, KeepList, stream
  <2>6. CASE k \notin Anywhere
    <3>1. k \notin {"F1", "F2", "F3", "q", "Esc"}
      BY <2>6 DEF Anywhere
    <3>2. help => UNCHANGED stream
      BY <2>6, <3>1 DEF Press, HandleKey, KeepList
    <3>3. ~help /\ filterOpen => UNCHANGED stream
      BY <2>3, <2>6, <3>1 DEF Press, HandleKey
    <3>4. ~help /\ ~filterOpen => DashboardKey(k) \/ PacketLogKey(k)
      BY <2>6, <3>1 DEF Press, HandleKey
    <3> QED BY <2>1, <2>2, <3>2, <3>3, <3>4 DEF stream
  <2> QED BY <2>5, <2>6
<1> QED BY <1>1, <1>2, LockStep

\* A packet heard is in the log, and in no list yet.
LEMMA LogHears ==
  ASSUME LogInv, NEW key \in Payloads, NEW at \in Times, HearPacket(key, at) PROVE LogInv'
<1> DEFINE e == [id |-> Len(log) + 1, key |-> key, at |-> at, boot |-> boot,
                 via |-> "backlog"]
<1>1. log' = <<e>> \o log /\ UNCHANGED <<connected, fed, boot, packets, locked>>
  BY DEF HearPacket, KeepUser
<1>2. LogShape(log, boot) /\ Len(log) \in Nat
  BY EntryFacts DEF LogInv, LogShape
<1>3. e \in Entry /\ e.id = Len(log) + 1 /\ e.boot = boot /\ e.via = "backlog"
  BY <1>2 DEF Entry, LogShape
<1> HIDE DEF e
<1>4. LogShape(log', boot) /\ Len(log') = Len(log) + 1
  BY <1>1, <1>2, <1>3, LogGrows
<1>5. ASSUME NEW s, Listing(s), UpTo(s, Len(log), boot) PROVE UpTo(s, Len(log'), boot)
  <2>1. \A i \in 1..Len(s) : s[i].id \in Nat
    BY <1>5, EntryFacts DEF Listing
  <2> QED BY <1>2, <1>4, <1>5, <2>1 DEF UpTo
<1>6. ListInv'
  BY <1>1, <1>5 DEF LogInv, ListInv, Listing, UpTo
<1>7. LockInv'
  BY <1>1, <1>5 DEF LogInv, LockInv, Listing, UpTo, Backs, Ahead
<1>8. fed' \in Nat /\ (connected' # "no" => fed' <= Len(log'))
  BY <1>1, <1>2, <1>4 DEF LogInv
<1> QED BY <1>1, <1>4, <1>6, <1>7, <1>8 DEF LogInv

\* A connection subscribes: nothing it has yet is newer than the feed.
LEMMA LogConnects ==
  ASSUME LogInv, Connect PROVE LogInv'
<1>1. connected' = "subscribed" /\ fed' = Len(log) /\ UNCHANGED <<packets, locked, log, boot>>
  BY DEF Connect, KeepUser
<1>2. LogShape(log, boot) /\ Len(log) \in Nat
  BY EntryFacts DEF LogInv, LogShape
<1>3. ListInv'
  BY <1>1 DEF LogInv, ListInv, Listing, UpTo
<1>4. LockInv'
  BY <1>1 DEF LogInv, LockInv, Listing, UpTo, Backs, Ahead
<1> QED BY <1>1, <1>2, <1>3, <1>4 DEF LogInv

\* The backlog has nothing of the feed, which stands where the frozen list ends or later.
LEMMA LogLists ==
  ASSUME LogInv, Backlog PROVE LogInv'
<1>1. /\ connected = "subscribed" /\ connected' = "listed"
      /\ packets' = First(First(log, LogCapacity), MaxShown)
      /\ UNCHANGED <<locked, fed, log, boot>>
  BY DEF Backlog, KeepUser
<1>2. /\ Listing(packets') /\ UpTo(packets', Len(log), boot)
      /\ \A i \in 1..Len(packets') : packets'[i].boot = boot /\ packets'[i].via = "backlog"
  BY <1>1, BacklogFacts DEF LogInv
<1>3. ListInv'
  BY <1>1, <1>2 DEF ListInv, Listing, UpTo
<1>4. LockInv'
  <2>1. Ahead(packets', locked)
    BY <1>2 DEF Ahead
  <2> QED BY <1>1, <2>1 DEF LogInv, LockInv, Listing, UpTo, Ahead
<1> QED BY <1>1, <1>3, <1>4 DEF LogInv

\* The feed brings the entry e of the log, whose number is beyond all that it brought.
LEMMA LogPushes ==
  ASSUME LogInv, PushPacket PROVE LogInv'
<1>1. /\ connected = "listed" /\ fed < Len(log) /\ fed' = NextFed
      /\ UNCHANGED <<connected, locked, log, boot>>
      /\ packets' = First(<<[log[Len(log) + 1 - fed'] EXCEPT !.via = "feed"]>> \o packets, MaxShown)
  BY DEF PushPacket, KeepUser
<1>2. /\ LogShape(log, boot) /\ Len(log) \in Nat /\ boot \in Nat /\ fed \in Nat
      /\ Listing(packets)
  BY EntryFacts DEF LogInv, LogShape, ListInv
<1>3. fed' \in Nat /\ fed < fed' /\ fed' <= Len(log)
  <2>1. PICK n \in Nat, f \in Nat, m \in Nat \ {0} :
          n = Len(log) /\ f = fed /\ m = FeedSlots
    BY <1>2, UiAssumption
  <2>2. f < n /\ fed' = IF n - f > m THEN n - m + 1 ELSE f + 1
    BY <1>1, <2>1 DEF NextFed
  <2>3. fed' \in Nat /\ f < fed' /\ fed' <= n
    BY <2>2
  <2> QED BY <2>1, <2>3
<1>4. PICK e : e = [log[Len(log) + 1 - fed'] EXCEPT !.via = "feed"]
  OBVIOUS
<1>5. e \in Entry /\ e.id = fed' /\ e.boot = boot /\ e.via = "feed"
  <2>1. PICK i \in 1..Len(log) : i = Len(log) + 1 - fed'
    BY <1>2, <1>3
  <2>2. log[i] \in Entry /\ log[i].id = fed' /\ log[i].boot = boot
    BY <1>2, <1>3, <2>1, EntryFacts DEF LogShape
  <2>3. e = [log[i] EXCEPT !.via = "feed"]
    BY <1>4, <2>1
  <2> QED BY <2>2, <2>3 DEF Entry
<1>6. /\ Listing(packets')
      /\ \A i \in 1..Len(packets') : packets'[i] = e \/ \E j \in 1..Len(packets) : packets'[i] = packets[j]
  <2>1. packets' = First(<<e>> \o packets, MaxShown)
    BY <1>1, <1>4
  <2>2. \A i \in 1..Len(packets) :
          packets[i].boot = e.boot /\ (packets[i].via = "feed" => packets[i].id < e.id)
    <3>1. \A i \in 1..Len(packets) : packets[i].id \in Nat
      BY <1>2, EntryFacts DEF Listing
    <3> QED BY <1>1, <1>2, <1>3, <1>5, <3>1 DEF LogInv, ListInv
  <2> QED BY <1>2, <1>5, <2>1, <2>2, PushFacts
<1>7. ASSUME NEW i \in 1..Len(packets')
      PROVE  /\ packets'[i].boot = boot /\ packets'[i].id <= Len(log)
             /\ packets'[i].via = "feed" => packets'[i].id <= fed'
  <2>1. CASE packets'[i] = e
    BY <1>3, <1>5, <2>1
  <2>2. CASE \E j \in 1..Len(packets) : packets'[i] = packets[j]
    <3>1. PICK j \in 1..Len(packets) : packets'[i] = packets[j]
      BY <2>2
    <3>2. /\ packets[j].boot = boot /\ packets[j].id <= Len(log)
          /\ packets[j].via = "feed" => packets[j].id <= fed
      BY <1>1 DEF LogInv, ListInv, UpTo
    <3>3. packets[j].id \in Nat
      BY <1>2, EntryFacts DEF Listing
    <3> QED BY <1>2, <1>3, <3>1, <3>2, <3>3
  <2> QED BY <1>6, <2>1, <2>2
<1>8. ListInv'
  <2>1. UpTo(packets', Len(log), boot)
    BY <1>2, <1>7 DEF UpTo
  <2> QED BY <1>1, <1>6, <1>7, <2>1 DEF ListInv
<1>9. LockInv'
  <2>1. SUFFICES ASSUME locked # None PROVE LockInv'
    BY <1>1 DEF LockInv
  <2>2. Listing(locked) /\ UpTo(locked, Len(log), boot)
    BY <2>1 DEF LogInv, LockInv
  <2>3. CASE Backs(packets, locked)
    <3>1. Backs(packets', locked)
      BY <1>5, <1>6, <2>3 DEF Backs
    <3> QED BY <1>1, <2>2, <3>1 DEF LockInv
  <2>4. CASE Ahead(packets, locked) /\ UpTo(locked, fed, boot)
    <3>1. \A j \in 1..Len(locked) : locked[j].id \in Nat
      BY <2>2, EntryFacts DEF Listing
    <3>2. Ahead(packets', locked)
      <4>1. \A j \in 1..Len(locked) : locked[j].boot = boot => e.id > locked[j].id
        BY <1>2, <1>3, <1>5, <2>4, <3>1 DEF UpTo
      <4>2. ASSUME NEW i \in 1..Len(packets'), NEW j \in 1..Len(locked),
                   packets'[i].via = "feed", packets'[i].boot = locked[j].boot
            PROVE  packets'[i].id > locked[j].id
        <5>1. CASE packets'[i] = e
          BY <1>5, <4>1, <4>2, <5>1
        <5>2. CASE \E h \in 1..Len(packets) : packets'[i] = packets[h]
          BY <2>4, <4>2, <5>2 DEF Ahead
        <5> QED BY <1>6, <5>1, <5>2
      <4> QED BY <4>2 DEF Ahead
    <3>3. UpTo(locked, fed', boot)
      BY <1>2, <1>3, <2>4, <3>1 DEF UpTo
    <3> QED BY <1>1, <2>2, <3>2, <3>3 DEF LockInv
  <2> QED BY <1>1, <2>1, <2>3, <2>4 DEF LogInv, LockInv
<1> QED BY <1>1, <1>2, <1>3, <1>8, <1>9 DEF LogInv

\* Every list is of a process that was the daemon's by now.
LEMMA LogDisconnects ==
  ASSUME LogInv, Disconnect PROVE LogInv'
<1>1. connected' = "no" /\ UNCHANGED <<packets, locked, fed>>
  BY DEF Disconnect, KeepUser
<1>2. CASE UNCHANGED <<log, boot>>
  BY <1>1, <1>2 DEF LogInv, ListInv, LockInv, Listing, UpTo, Backs, Ahead
<1>3. CASE boot' = boot + 1 /\ log' = <<>>
  <2>1. boot \in Nat
    BY DEF LogInv, LogShape
  <2>2. ASSUME NEW s, Listing(s), UpTo(s, Len(log), boot) PROVE UpTo(s, Len(log'), boot')
    <3>1. \A i \in 1..Len(s) : s[i].boot \in Nat
      BY <2>2, EntryFacts DEF Listing
    <3> QED BY <1>3, <2>1, <2>2, <3>1 DEF UpTo
  <2>3. LogShape(log', boot')
    BY <1>3, <2>1 DEF LogShape
  <2>4. ListInv'
    BY <1>1, <2>2 DEF LogInv, ListInv, Listing, UpTo
  <2>5. LockInv'
    BY <1>1, <2>2 DEF LogInv, LockInv, Listing, UpTo, Backs, Ahead
  <2> QED BY <1>1, <2>3, <2>4, <2>5 DEF LogInv
<1> QED BY <1>2, <1>3 DEF Disconnect

\* Every step keeps what is known of the packet list and the frozen one.
LEMMA LogStep ==
  ASSUME LogInv, [Next]_vars PROVE LogInv'
<1>1. CASE \E k \in Keys : Press(k)
  BY <1>1, LogPress
<1>2. CASE \/ Draw \/ (\E s \in Snapshots : ApplySnapshot(s))
           \/ (\E key \in asked, n \in Neighbours \cup {None} : ApplyCategory(key, n))
           \/ UNCHANGED vars
  <2>1. UNCHANGED <<log, boot, fed, packets, locked, connected>>
    BY <1>2 DEF Draw, ApplySnapshot, ApplyCategory, KeepUser, vars, daemon, stream
  <2> QED BY <2>1, LockStep
<1>3. CASE \E key \in Payloads, at \in Times : HearPacket(key, at)
  BY <1>3, LogHears
<1>4. CASE Connect \/ Backlog \/ PushPacket \/ Disconnect
  BY <1>4, LogConnects, LogLists, LogPushes, LogDisconnects
<1>5. CASE Restart
  <2>1. /\ packets' = <<>> /\ locked' = None /\ connected' = "no"
        /\ UNCHANGED <<fed, log, boot>>
    BY <1>5 DEF Restart
  <2>2. LogShape(log, boot)' /\ fed' \in Nat
    BY <2>1 DEF LogInv, LogShape
  <2>3. ListInv' /\ LockInv'
    BY <2>1 DEF ListInv, LockInv, Listing, UpTo
  <2> QED BY <2>1, <2>2, <2>3 DEF LogInv
<1> QED BY <1>1, <1>2, <1>3, <1>4, <1>5 DEF Next

LEMMA LogInit == Init => LogInv
BY DEF Init, LogInv, LogShape, ListInv, LockInv, Listing, UpTo

\* An entry that is newer than the first of the frozen list, all of whose entries are not
\* newer than itself, has only such entries in front of it.
LEMMA NewInFront ==
  ASSUME NEW p, Listing(p), NEW k, Listing(k), NEW h \in Nat,
         Backs(p, k) \/ Ahead(p, k),
         \E m \in 1..Len(k) : k[m].id = h,
         \A i \in 1..Len(p), m \in 1..Len(k) : p[i].boot = k[m].boot,
         NEW i \in 1..Len(p), \A m \in 1..Len(k) : p[i].id > k[m].id,
         NEW j \in 1..Len(p), j <= i
  PROVE  p[j].id > h
<1>1. PICK m \in 1..Len(k) : k[m].id = h
  OBVIOUS
<1>2. p[i].id \in Nat /\ p[j].id \in Nat /\ p[i].via \in {"backlog", "feed"}
      /\ p[j].via \in {"backlog", "feed"} /\ k[m].id \in Nat
  BY EntryFacts DEF Listing
<1>3. CASE i = j
  BY <1>1, <1>3
<1>4. CASE j < i /\ p[j].via = p[i].via
  <2>1. p[j].id > p[i].id
    BY <1>4 DEF Listing
  <2>2. p[i].id > h
    BY <1>1
  <2> QED BY <1>2, <2>1, <2>2
<1>5. CASE j < i /\ p[j].via # p[i].via
  <2>1. p[i].via = "backlog" /\ p[j].via = "feed"
    BY <1>2, <1>5 DEF Listing
  <2>2. CASE Backs(p, k)
    <3>1. PICK n \in 1..Len(k) : p[i] = k[n]
      BY <2>1, <2>2 DEF Backs
    <3>2. p[i].id > p[i].id
      BY <3>1
    <3> QED BY <1>2, <3>2
  <2>3. CASE Ahead(p, k)
    BY <1>1, <2>1, <2>3 DEF Ahead
  <2> QED BY <2>2, <2>3
<1>6. j < i \/ i = j
  OBVIOUS
<1> QED BY <1>3, <1>4, <1>5, <1>6

LEMMA CountsFromLog ==
  ASSUME LogInv PROVE CountsSinceLock
<1> DEFINE N == NewerThanLocked
<1>1. SUFFICES ASSUME locked # None,
                      \A e, f \in ToSet(packets) \cup ToSet(locked) : e.boot = f.boot
               PROVE  /\ NewSinceLock >= Cardinality(N)
                      /\ (\A j \in 1..Len(locked) : locked[j].id <= locked[1].id)
                           => NewSinceLock = Cardinality(N)
  BY DEF CountsSinceLock
<1>2. /\ Listing(packets) /\ Listing(locked)
      /\ Backs(packets, locked) \/ Ahead(packets, locked)
  BY <1>1 DEF LogInv, ListInv, LockInv
<1>3. /\ Len(packets) \in Nat /\ packets \in Seq(Entry) /\ locked \in Seq(Entry)
      /\ Len(locked) \in Nat
  <2>1. packets \in Seq(Entry) /\ locked \in Seq(Entry)
    BY <1>2 DEF Listing
  <2> QED BY <2>1, EntryFacts
<1>4. IsFiniteSet(1..Len(packets)) /\ Cardinality(1..Len(packets)) = Len(packets)
  <2>1. PICK n \in Nat : n = Len(packets)
    BY <1>3
  <2>2. 1 \in Int /\ n \in Int
    OBVIOUS
  <2>3. IsFiniteSet(1..n) /\ Cardinality(1..n) = IF 1 > n THEN 0 ELSE n - 1 + 1
    BY <2>2, FS_Interval
  <2> QED BY <2>1, <2>3
<1>5. CASE locked = <<>>
  <2>1. NewSinceLock = Len(packets)
    BY <1>1, <1>5 DEF NewSinceLock
  <2>2. Len(locked) = 0
    BY <1>5
  <2>3. N = 1..Len(packets)
    BY <2>2 DEF NewerThanLocked
  <2> QED BY <1>3, <1>4, <2>1, <2>3
<1>6. CASE locked # <<>>
  <2> DEFINE h == locked[1].id
             old == {i \in 1..Len(packets) : packets[i].id <= h}
             K == {i \in 1..Len(packets) : \A j \in old : i < j}
  <2>1. 1 \in 1..Len(locked) /\ h \in Nat
    BY <1>2, <1>3, <1>6, EntryFacts
  <2>2. NewSinceLock = Cardinality(K)
    BY <1>1, <1>6 DEF NewSinceLock
  <2>3. \A i \in 1..Len(packets), m \in 1..Len(locked) : packets[i].boot = locked[m].boot
    <3>1. ASSUME NEW i \in 1..Len(packets), NEW m \in 1..Len(locked)
          PROVE  packets[i].boot = locked[m].boot
      <4>1. packets[i] \in ToSet(packets) /\ locked[m] \in ToSet(locked)
        BY DEF ToSet
      <4> QED BY <1>1, <4>1
    <3> QED BY <3>1
  <2>4. N \subseteq K
    <3>1. SUFFICES ASSUME NEW i \in 1..Len(packets),
                          \A m \in 1..Len(locked) : packets[i].id > locked[m].id,
                          NEW j \in 1..Len(packets), j <= i
                   PROVE  ~(packets[j].id <= h)
      BY DEF NewerThanLocked
    <3>2. packets[j].id > h
      BY <1>2, <2>1, <2>3, <3>1, NewInFront
    <3>3. packets[j].id \in Nat
      BY <1>3, EntryFacts
    <3> QED BY <2>1, <3>2, <3>3
  <2>5. ASSUME \A j \in 1..Len(locked) : locked[j].id <= h PROVE K \subseteq N
    <3>1. SUFFICES ASSUME NEW i \in K, NEW m \in 1..Len(locked)
                   PROVE  packets[i].id > locked[m].id
      BY DEF NewerThanLocked
    <3>2. i \in 1..Len(packets) /\ i \notin old
      OBVIOUS
    <3>3. packets[i].id \in Nat /\ locked[m].id \in Nat
      BY <1>3, <3>2, EntryFacts
    <3>4. packets[i].id > h /\ locked[m].id <= h
      BY <2>1, <2>5, <3>2, <3>3
    <3> QED BY <2>1, <3>3, <3>4
  <2>6. IsFiniteSet(K) /\ IsFiniteSet(N)
    <3>1. K \subseteq 1..Len(packets) /\ N \subseteq 1..Len(packets)
      BY DEF NewerThanLocked
    <3> HIDE DEF K, N
    <3> QED BY <1>4, <3>1, FS_Subset
  <2> HIDE DEF K, N
  <2>7. Cardinality(N) <= Cardinality(K) /\ Cardinality(N) \in Nat /\ Cardinality(K) \in Nat
    BY <2>4, <2>6, FS_Subset, FS_CardinalityType
  <2>8. (\A j \in 1..Len(locked) : locked[j].id <= h) => K = N
    BY <2>4, <2>5
  <2> QED BY <2>2, <2>7, <2>8
<1> QED BY <1>5, <1>6

\* The count in the title of the frozen packet log is never less than the number of
\* entries newer than the frozen list, and is that number when the frozen list begins
\* with its newest (app.rs new_packets_since_lock): a newer entry lies in front of all
\* that are not, since the feed only adds in front, and what a connection's feed adds is
\* newer than a list frozen before that connection.
THEOREM NewPacketsAreCounted == Spec => []CountsSinceLock
<1>1. Init => LogInv
  BY LogInit
<1>2. LogInv /\ [Next]_vars => LogInv'
  BY LogStep
<1>3. LogInv => CountsSinceLock
  BY CountsFromLog
<1> QED BY <1>1, <1>2, <1>3, PTL DEF Spec

-----------------------------------------------------------------------------
(* The table.                                                              *)

LEMMA HasMin ==
  ASSUME NEW T \in SUBSET Nat, T # {}
  PROVE  \E m \in T : \A i \in T : m <= i
<1> DEFINE R == OpToRel(<, Nat)
<1>1. IsWellFoundedOn(R, Nat)
  BY NatLessThanWellFounded
<1>2. \A x, y \in Nat : x < y => <<x, y>> \in R
  BY DEF OpToRel
<1> HIDE DEF R
<1>3. PICK x \in T : \A y \in T : ~ (<<y, x>> \in R)
  BY <1>1, WFMin
<1>4. ASSUME NEW y \in T PROVE x <= y
  <2>1. ~ (y < x)
    BY <1>2, <1>3
  <2> QED BY <2>1
<1> QED BY <1>4

LEMMA HasMax ==
  ASSUME NEW n \in Nat, NEW S \in SUBSET (1..n), S # {}
  PROVE  \E m \in S : \A i \in S : i <= m
<1> DEFINE T == {n - i : i \in S}
<1>1. T \in SUBSET Nat
  <2>1. \A i \in S : n - i \in Nat
  OBVIOUS
  <2> QED BY <2>1
<1>2. T # {} /\ (\A i \in S : n - i \in T) /\ \A t \in T : \E i \in S : t = n - i
  OBVIOUS
<1> HIDE DEF T
<1>3. PICK m \in T : \A i \in T : m <= i
  BY <1>1, <1>2, HasMin
<1>4. PICK k \in S : m = n - k
  BY <1>2
<1>5. ASSUME NEW i \in S PROVE i <= k
  <2>1. m <= n - i
    BY <1>2, <1>3
  <2> QED BY <1>4, <2>1
<1> QED BY <1>5

\* The tables of the first contacts, as many as there are.
TablesOf(f, n, cs, fl, h) ==
  f = [m \in 0..n |-> IF m = 0 THEN <<>> ELSE With(f[m - 1], cs[m], fl, h)]

LEMMA TablesExist ==
  ASSUME NEW n \in Nat, NEW cs, NEW fl, NEW h
  PROVE  \E f : TablesOf(f, n, cs, fl, h)
<1> DEFINE T == {k \in Nat : ~\E f : TablesOf(f, k, cs, fl, h)}
<1>1. SUFFICES ASSUME T # {} PROVE FALSE
  OBVIOUS
<1>2. PICK k \in T : \A i \in T : k <= i
  <2>1. T \in SUBSET Nat
    OBVIOUS
  <2> HIDE DEF T
  <2> QED BY <1>1, <2>1, HasMin
<1>3. CASE k = 0
  <2> DEFINE f == [m \in 0..0 |-> <<>>]
  <2>1. TablesOf(f, 0, cs, fl, h)
    BY DEF TablesOf
  <2> QED BY <1>3, <2>1
<1>4. CASE k # 0
  <2>1. k - 1 \in Nat /\ k \in Nat /\ k - 1 \notin T
    BY <1>2, <1>4
  <2>2. PICK f : TablesOf(f, k - 1, cs, fl, h)
    BY <2>1
  <2>3. \A m \in 0..k - 1 : f[m] = IF m = 0 THEN <<>> ELSE With(f[m - 1], cs[m], fl, h)
    BY <2>2 DEF TablesOf
  <2> DEFINE g == [m \in 0..k |-> IF m = k THEN With(f[k - 1], cs[k], fl, h) ELSE f[m]]
  <2>4. ASSUME NEW m \in 0..k PROVE g[m] = IF m = 0 THEN <<>> ELSE With(g[m - 1], cs[m], fl, h)
    <3>1. CASE m = k
      <4>1. g[m] = With(f[k - 1], cs[k], fl, h) /\ g[m - 1] = f[k - 1]
        BY <2>1, <3>1
      <4> QED BY <1>4, <3>1, <4>1
    <3>2. CASE m # k
      <4>1. m \in 0..k - 1 /\ g[m] = f[m]
        BY <2>1, <3>2
      <4>2. m # 0 => g[m - 1] = f[m - 1]
        BY <2>1, <3>2
      <4> QED BY <2>3, <4>1, <4>2
    <3> QED BY <3>1, <3>2
  <2>5. g = [m \in 0..k |-> g[m]]
    OBVIOUS
  <2> HIDE DEF g
  <2>6. TablesOf(g, k, cs, fl, h)
    BY <2>4, <2>5 DEF TablesOf
  <2> QED BY <1>2, <2>6
<1> QED BY <1>3, <1>4

LEMMA TheTables ==
  ASSUME NEW cs, Len(cs) \in Nat, NEW fl, NEW h
  PROVE  \E f : TablesOf(f, Len(cs), cs, fl, h) /\ SortedContacts(cs, fl, h) = f[Len(cs)]
<1> DEFINE rows == CHOOSE f : f = [n \in 0..Len(cs) |->
                                     IF n = 0 THEN <<>> ELSE With(f[n - 1], cs[n], fl, h)]
<1>1. SortedContacts(cs, fl, h) = rows[Len(cs)]
  BY DEF SortedContacts
<1>2. TablesOf(rows, Len(cs), cs, fl, h)
  BY TablesExist, SMTT(30) DEF TablesOf
<1> HIDE DEF rows
<1> QED BY <1>1, <1>2

LEMMA ContactFacts ==
  ASSUME NEW c \in Contact
  PROVE  /\ c.heard \in Int /\ c.name \in Int /\ c.place \in Int
         /\ RepeaterGroup(c) \in DOMAIN GroupRank /\ GroupRank[RepeaterGroup(c)] \in Int
<1>1. /\ c.heard \in Int /\ c.name \in Int /\ c.place \in Int
      /\ c.status \in {"none"} \cup DOMAIN GroupRank
  BY UiAssumption
<1>2. /\ DOMAIN GroupRank = {"managed", "supervised", "known", "discovered"}
      /\ \A g \in DOMAIN GroupRank : GroupRank[g] \in Int
  BY DEF GroupRank
<1>3. RepeaterGroup(c) \in DOMAIN GroupRank
  BY <1>1, <1>2 DEF RepeaterGroup
<1> QED BY <1>1, <1>2, <1>3

\* Each of the three sorts is a strict weak order, distances that are unknown or not.
LEMMA PrecedesOrders ==
  ASSUME NEW sort \in Sorts, NEW h \in Int
  PROVE  /\ \A a, b \in Contact : Precedes(a, b, sort, h) => ~Precedes(b, a, sort, h)
         /\ \A a, b, c \in Contact :
              Precedes(a, b, sort, h) => Precedes(a, c, sort, h) \/ Precedes(c, b, sort, h)
<1>1. \A a \in Contact : a.heard \in Int /\ a.name \in Int
  BY ContactFacts
<1>2. \A a \in Contact : Distance(a, h) \in Int
  BY ContactFacts DEF Distance, Unknown, Abs
<1>3. CASE sort = "last_heard"
  BY <1>1, <1>3 DEF Precedes
<1>4. CASE sort = "name"
  BY <1>1, <1>4 DEF Precedes
<1>5. CASE sort = "distance"
  <2>1. \A a, b \in Contact : Precedes(a, b, sort, h) = Nearer(Distance(a, h), Distance(b, h))
    BY <1>5 DEF Precedes
  <2>2. /\ \A x, y \in Int : Nearer(x, y) => ~Nearer(y, x)
        /\ \A x, y, z \in Int : Nearer(x, y) => Nearer(x, z) \/ Nearer(z, y)
    BY DEF Nearer, Unknown
  <2> QED BY <1>2, <2>1, <2>2
<1> QED BY <1>3, <1>4, <1>5 DEF Sorts

\* So is the comparison, grouped by type or not.
LEMMA BeforeOrders ==
  ASSUME NEW fl \in Filters, NEW h \in Int
  PROVE  /\ \A a, b \in Contact : Before(a, b, fl, h) => ~Before(b, a, fl, h)
         /\ \A a, b, c \in Contact :
              Before(a, b, fl, h) => Before(a, c, fl, h) \/ Before(c, b, fl, h)
<1> DEFINE g(c) == GroupRank[RepeaterGroup(c)]
           P(a, b) == Precedes(a, b, fl.sort, h)
<1>1. \A a, b \in Contact : Before(a, b, fl, h) = IF fl.byType /\ g(a) # g(b) THEN g(a) < g(b) ELSE P(a, b)
  BY DEF Before
<1>2. \A c \in Contact : g(c) \in Int
  BY ContactFacts
<1>3. fl.sort \in Sorts
  BY DEF Filters
<1>4. /\ \A a, b \in Contact : P(a, b) => ~P(b, a)
      /\ \A a, b, c \in Contact : P(a, b) => P(a, c) \/ P(c, b)
  BY <1>3, PrecedesOrders
<1> HIDE DEF g, P
<1>5. ASSUME NEW a \in Contact, NEW b \in Contact, fl.byType
      PROVE  Before(a, b, fl, h) <=> g(a) < g(b) \/ (g(a) = g(b) /\ P(a, b))
  <2>1. CASE g(a) # g(b)
    BY <1>1, <1>5, <2>1
  <2>2. CASE g(a) = g(b)
    <3>1. ~(g(a) < g(b))
      BY <1>2, <2>2
    <3> QED BY <1>1, <1>5, <2>2, <3>1
  <2> QED BY <2>1, <2>2
<1>6. ASSUME NEW a \in Contact, NEW b \in Contact, ~fl.byType
      PROVE  Before(a, b, fl, h) <=> P(a, b)
  BY <1>1, <1>6
<1>7. ASSUME NEW a \in Contact, NEW b \in Contact, Before(a, b, fl, h) PROVE ~Before(b, a, fl, h)
  BY <1>2, <1>4, <1>7, <1>5, <1>6
<1>8. ASSUME NEW a \in Contact, NEW b \in Contact, NEW c \in Contact, Before(a, b, fl, h)
      PROVE  Before(a, c, fl, h) \/ Before(c, b, fl, h)
  <2>1. CASE fl.byType
    <3>1. CASE g(a) < g(b)
      <4>1. g(a) < g(c) \/ g(c) < g(b)
        BY <1>2, <3>1
      <4> QED BY <1>5, <2>1, <4>1
    <3>2. CASE g(a) = g(b) /\ P(a, b)
      <4>1. CASE g(c) = g(a)
        BY <1>4, <1>5, <2>1, <3>2, <4>1
      <4>2. CASE g(c) # g(a)
        <5>1. g(a) < g(c) \/ g(c) < g(b)
          BY <1>2, <3>2, <4>2
        <5> QED BY <1>5, <2>1, <5>1
      <4> QED BY <4>1, <4>2
    <3> QED BY <1>8, <1>5, <2>1, <3>1, <3>2
  <2>2. CASE ~fl.byType
    BY <1>4, <1>8, <1>6, <2>2
  <2> QED BY <2>1, <2>2
<1> QED BY <1>7, <1>8

\* A table in order.
Ordered(rows, fl, h) ==
  /\ rows \in Seq(Contact)
  /\ \A i, j \in 1..Len(rows) : i < j => ~Before(rows[j], rows[i], fl, h)

\* s is the table with the contact c behind the k first ones.
PutBehind(rows, k, c, s) ==
  /\ rows \in Seq(Contact) /\ k \in 0..Len(rows) /\ c \in Contact
  /\ \E p : p = k + 1 /\ s = InsertAt(rows, p, c)

LEMMA InsertFacts ==
  ASSUME NEW rows, NEW k, NEW c, NEW s, PutBehind(rows, k, c, s)
  PROVE  /\ s \in Seq(Contact) /\ Len(s) = Len(rows) + 1
         /\ \A i \in 1..Len(rows) + 1 :
              s[i] = IF i <= k THEN rows[i] ELSE IF i = k + 1 THEN c ELSE rows[i - 1]
<1> PICK p : p = k + 1 /\ s = InsertAt(rows, p, c)
  BY DEF PutBehind
<1> rows \in Seq(Contact) /\ k \in 0..Len(rows) /\ c \in Contact
  BY DEF PutBehind
<1> DEFINE front == SubSeq(rows, 1, k)
           back  == SubSeq(rows, k + 1, Len(rows))
           mid   == front \o <<c>>
<1>1. Len(rows) \in Nat /\ k \in Nat /\ k <= Len(rows) /\ \A i \in 1..Len(rows) : rows[i] \in Contact
  BY LenProperties
<1>2. s = mid \o back
  <2>1. p - 1 = k
    BY <1>1
  <2>2. s = SubSeq(rows, 1, p - 1) \o <<c>> \o SubSeq(rows, p, Len(rows))
    <3> HIDE DEF front, back, mid
    <3> QED BY Zenon DEF InsertAt
  <2> QED BY <2>1, <2>2
<1>3. /\ front \in Seq(Contact) /\ Len(front) = k /\ \A i \in 1..k : front[i] = rows[i]
  <2>1. \A i \in 1..k : rows[i] \in Contact
    BY <1>1
  <2>2. /\ front \in Seq(Contact) /\ Len(front) = (IF 1 <= k THEN k - 1 + 1 ELSE 0)
        /\ \A i \in 1..k - 1 + 1 : front[i] = rows[1 + i - 1]
    BY <1>1, <2>1, SubSeqProperties
  <2> HIDE DEF front
  <2> QED BY <1>1, <2>2
<1>4. /\ back \in Seq(Contact) /\ Len(back) = Len(rows) - k
      /\ \A i \in 1..Len(rows) - k : back[i] = rows[k + i]
  <2>1. PICK n \in Nat : n = Len(rows) /\ k <= n
    BY <1>1
  <2>2. \A i \in k + 1..n : rows[i] \in Contact
    BY <1>1, <2>1
  <2>3. /\ SubSeq(rows, k + 1, n) \in Seq(Contact)
        /\ Len(SubSeq(rows, k + 1, n)) = (IF k + 1 <= n THEN n - (k + 1) + 1 ELSE 0)
        /\ \A i \in 1..n - (k + 1) + 1 : SubSeq(rows, k + 1, n)[i] = rows[k + 1 + i - 1]
    BY <1>1, <2>1, <2>2, SubSeqProperties
  <2>4. back = SubSeq(rows, k + 1, n)
    BY <2>1
  <2> HIDE DEF back
  <2>5. Len(back) = n - k
    BY <1>1, <2>1, <2>3, <2>4
  <2>6. ASSUME NEW i \in 1..n - k PROVE back[i] = rows[k + i]
    <3>1. i \in 1..n - (k + 1) + 1 /\ k + 1 + i - 1 = k + i
      BY <1>1, <2>1
    <3> QED BY <2>3, <2>4, <3>1
  <2> QED BY <2>1, <2>3, <2>4, <2>5, <2>6
<1> HIDE DEF front, back
<1>5. /\ mid \in Seq(Contact) /\ Len(mid) = k + 1
      /\ \A i \in 1..k + 1 : mid[i] = IF i <= k THEN rows[i] ELSE c
  <2>1. <<c>> \in Seq(Contact) /\ Len(<<c>>) = 1 /\ <<c>>[1] = c
    OBVIOUS
  <2>2. /\ mid \in Seq(Contact) /\ Len(mid) = Len(front) + Len(<<c>>)
        /\ \A i \in 1..Len(front) + Len(<<c>>) :
             mid[i] = IF i <= Len(front) THEN front[i] ELSE <<c>>[i - Len(front)]
    BY <1>3, <2>1, ConcatProperties
  <2> HIDE DEF mid
  <2>3. ASSUME NEW i \in 1..k + 1 PROVE mid[i] = IF i <= k THEN rows[i] ELSE c
    <3>1. mid[i] = IF i <= k THEN front[i] ELSE <<c>>[i - k]
      BY <1>3, <2>1, <2>2
    <3>2. i <= k => front[i] = rows[i]
      BY <1>1, <1>3
    <3>3. ~(i <= k) => i - k = 1
      BY <1>1
    <3> QED BY <2>1, <3>1, <3>2, <3>3
  <2> QED BY <1>3, <2>1, <2>2, <2>3
<1> HIDE DEF mid
<1>6. /\ s \in Seq(Contact) /\ Len(s) = Len(rows) + 1
      /\ \A i \in 1..Len(rows) + 1 : s[i] = IF i <= k + 1 THEN mid[i] ELSE back[i - (k + 1)]
  <2>1. /\ s \in Seq(Contact) /\ Len(s) = Len(mid) + Len(back)
        /\ \A i \in 1..Len(mid) + Len(back) :
             s[i] = IF i <= Len(mid) THEN mid[i] ELSE back[i - Len(mid)]
    <3>1. /\ mid \o back \in Seq(Contact) /\ Len(mid \o back) = Len(mid) + Len(back)
          /\ \A i \in 1..Len(mid) + Len(back) :
               (mid \o back)[i] = IF i <= Len(mid) THEN mid[i] ELSE back[i - Len(mid)]
      BY <1>4, <1>5, ConcatProperties
    <3> QED BY <1>2, <3>1
  <2>2. Len(mid) + Len(back) = Len(rows) + 1
    BY <1>1, <1>4, <1>5
  <2> QED BY <1>5, <2>1, <2>2
<1>7. ASSUME NEW i \in 1..Len(rows) + 1
      PROVE  s[i] = IF i <= k THEN rows[i] ELSE IF i = k + 1 THEN c ELSE rows[i - 1]
  <2>1. CASE i <= k + 1
    BY <1>1, <1>5, <1>6, <2>1
  <2>2. CASE i > k + 1
    <3>1. i - (k + 1) \in 1..Len(rows) - k /\ k + (i - (k + 1)) = i - 1
      BY <1>1, <2>2
    <3>2. s[i] = back[i - (k + 1)]
      BY <1>1, <1>6, <2>2
    <3>3. back[i - (k + 1)] = rows[k + (i - (k + 1))]
      BY <1>4, <3>1
    <3>4. ~(i <= k) /\ i # k + 1
      BY <1>1, <2>2
    <3> QED BY <3>1, <3>2, <3>3, <3>4
  <2> QED BY <1>1, <2>1, <2>2
<1> QED BY <1>6, <1>7

\* sort_by's step keeps the table in order.
LEMMA InsertOrders ==
  ASSUME NEW fl \in Filters, NEW h \in Int, NEW rows, Ordered(rows, fl, h), NEW c \in Contact
  PROVE  /\ Ordered(Insert(rows, c, fl, h), fl, h)
         /\ ToSet(Insert(rows, c, fl, h)) = ToSet(rows) \cup {c}
<1> DEFINE s == Insert(rows, c, fl, h)
           stay == {i \in 1..Len(rows) : ~Before(c, rows[i], fl, h)}
           k == CHOOSE n \in {0} \cup stay : \A i \in stay : i <= n
<1>1. /\ rows \in Seq(Contact) /\ Len(rows) \in Nat
      /\ \A i \in 1..Len(rows) : rows[i] \in Contact
  BY LenProperties DEF Ordered
<1>2. k \in {0} \cup stay /\ \A i \in stay : i <= k
  <2>1. \E n \in {0} \cup stay : \A i \in stay : i <= n
    <3>1. stay \in SUBSET (1..Len(rows))
      OBVIOUS
    <3> HIDE DEF stay
    <3>2. CASE stay = {}
      BY <3>2
    <3>3. CASE stay # {}
      BY <1>1, <3>1, <3>3, HasMax
    <3> QED BY <3>2, <3>3
  <2> HIDE DEF stay
  <2> QED BY <2>1
<1>3. s = InsertAt(rows, 1 + k, c)
  BY DEF Insert
<1>4. /\ k \in 0..Len(rows)
      /\ k # 0 => ~Before(c, rows[k], fl, h)
      /\ \A i \in 1..Len(rows) : i > k => Before(c, rows[i], fl, h)
  <2>1. k # 0 => k \in stay
    BY <1>2
  <2>2. ASSUME NEW i \in 1..Len(rows), i > k PROVE Before(c, rows[i], fl, h)
    <3>1. i \notin stay
      BY <1>1, <1>2, <2>2, SMTT(30)
    <3> QED BY <3>1
  <2>3. \A i \in stay : i \in 0..Len(rows) /\ ~Before(c, rows[i], fl, h)
    BY <1>1
  <2>4. k \in 0..Len(rows)
    <3> HIDE DEF stay, k
    <3>1. 0 \in 0..Len(rows)
      BY <1>1
    <3> QED BY <1>2, <2>3, <3>1
  <2>5. k # 0 => ~Before(c, rows[k], fl, h)
    <3> HIDE DEF stay, k
    <3> QED BY <2>1, <2>3
  <2> HIDE DEF stay, k
  <2> QED BY <2>2, <2>4, <2>5
<1> HIDE DEF s, k, stay
<1>5. /\ s \in Seq(Contact) /\ Len(s) = Len(rows) + 1
      /\ \A i \in 1..Len(rows) + 1 :
           s[i] = IF i <= k THEN rows[i] ELSE IF i = k + 1 THEN c ELSE rows[i - 1]
  <2>1. PICK p : p = 1 + k /\ p = k + 1
    BY <1>4
  <2>2. PutBehind(rows, k, c, s)
    BY <1>1, <1>3, <1>4, <2>1 DEF PutBehind
  <2> QED BY <2>2, InsertFacts
<1>6. \A i \in 1..Len(rows) : i <= k => ~Before(c, rows[i], fl, h)
  <2>1. SUFFICES ASSUME NEW i \in 1..Len(rows), i <= k, Before(c, rows[i], fl, h) PROVE FALSE
    OBVIOUS
  <2>2. k \in 1..Len(rows) /\ i < k
    BY <1>1, <1>4, <2>1
  <2>3. ~Before(rows[k], rows[i], fl, h) /\ ~Before(c, rows[k], fl, h)
    BY <1>4, <2>2 DEF Ordered
  <2> QED BY <1>1, <2>1, <2>2, <2>3, BeforeOrders
<1>7. \A i \in 1..Len(rows) : i > k => ~Before(rows[i], c, fl, h)
  BY <1>1, <1>4, BeforeOrders
<1>8. ASSUME NEW i \in 1..Len(s), NEW j \in 1..Len(s), i < j PROVE ~Before(s[j], s[i], fl, h)
  <2>1. i \in 1..Len(rows) + 1 /\ j \in 1..Len(rows) + 1 /\ k \in Nat /\ Len(rows) \in Nat
    BY <1>1, <1>4, <1>5
  <2>2. CASE j <= k
    <3>1. s[i] = rows[i] /\ s[j] = rows[j] /\ i \in 1..Len(rows) /\ j \in 1..Len(rows)
      BY <1>4, <1>5, <1>8, <2>1, <2>2
    <3> QED BY <1>8, <3>1 DEF Ordered
  <2>3. CASE j = k + 1
    <3>1. s[i] = rows[i] /\ s[j] = c /\ i \in 1..Len(rows) /\ i <= k
      BY <1>4, <1>5, <1>8, <2>1, <2>3
    <3> QED BY <1>6, <3>1
  <2>4. CASE j > k + 1
    <3>1. s[j] = rows[j - 1] /\ j - 1 \in 1..Len(rows) /\ j - 1 > k
      BY <1>4, <1>5, <2>1, <2>4
    <3>2. CASE i <= k
      <4>1. s[i] = rows[i] /\ i \in 1..Len(rows) /\ i < j - 1
        BY <1>4, <1>5, <2>1, <2>4, <3>2
      <4> QED BY <3>1, <4>1 DEF Ordered
    <3>3. CASE i = k + 1
      <4>1. s[i] = c
        BY <1>5, <2>1, <3>3
      <4> QED BY <1>7, <3>1, <4>1
    <3>4. CASE i > k + 1
      <4>1. s[i] = rows[i - 1] /\ i - 1 \in 1..Len(rows) /\ i - 1 < j - 1
        BY <1>4, <1>5, <1>8, <2>1, <3>4
      <4> QED BY <3>1, <4>1 DEF Ordered
    <3> QED BY <2>1, <3>2, <3>3, <3>4
  <2> QED BY <2>1, <2>2, <2>3, <2>4
<1>9. ToSet(s) = ToSet(rows) \cup {c}
  <2>1. ToSet(s) = {s[i] : i \in 1..Len(rows) + 1} /\ ToSet(rows) = {rows[i] : i \in 1..Len(rows)}
    BY <1>1, <1>5 DEF ToSet
  <2>2. \A i \in 1..Len(rows) + 1 : s[i] \in ToSet(rows) \cup {c}
    <3>1. SUFFICES ASSUME NEW i \in 1..Len(rows) + 1 PROVE s[i] \in ToSet(rows) \cup {c}
      OBVIOUS
    <3>2. \/ i \in 1..Len(rows) /\ s[i] = rows[i]
          \/ s[i] = c
          \/ i - 1 \in 1..Len(rows) /\ s[i] = rows[i - 1]
      BY <1>1, <1>4, <1>5
    <3> QED BY <2>1, <3>2
  <2>3. k + 1 \in 1..Len(rows) + 1 /\ s[k + 1] = c
    BY <1>1, <1>4, <1>5
  <2>4. ASSUME NEW i \in 1..Len(rows) PROVE rows[i] \in ToSet(s)
    <3>1. CASE i <= k
      <4>1. i \in 1..Len(rows) + 1 /\ s[i] = rows[i]
        BY <1>1, <1>5, <3>1
      <4> QED BY <2>1, <4>1
    <3>2. CASE i > k
      <4>1. i + 1 \in 1..Len(rows) + 1 /\ s[i + 1] = rows[i + 1 - 1] /\ i + 1 - 1 = i
        BY <1>1, <1>4, <1>5, <3>2
      <4> QED BY <2>1, <4>1
    <3> QED BY <1>1, <1>4, <3>1, <3>2
  <2> QED BY <2>1, <2>2, <2>3, <2>4
<1>10. Ordered(s, fl, h)
  BY <1>5, <1>8 DEF Ordered
<1> QED BY <1>9, <1>10 DEF s

\* The table of contacts that are any, in any order.
LEMMA TableRight ==
  ASSUME NEW cs \in Seq(Contact), NEW fl \in Filters, NEW h \in Int
  PROVE  ListedRight(cs, SortedContacts(cs, fl, h), fl, h)
<1>1. Len(cs) \in Nat /\ \A i \in 1..Len(cs) : cs[i] \in Contact
  BY LenProperties
<1>2. PICK f : TablesOf(f, Len(cs), cs, fl, h) /\ SortedContacts(cs, fl, h) = f[Len(cs)]
  BY <1>1, TheTables
<1>3. \A m \in 0..Len(cs) : f[m] = IF m = 0 THEN <<>> ELSE With(f[m - 1], cs[m], fl, h)
  BY <1>2 DEF TablesOf
<1> DEFINE Of(m) == {c \in {cs[i] : i \in 1..m} : Listed(c, fl)}
           Good(m) == Ordered(f[m], fl, h) /\ ToSet(f[m]) = Of(m)
           T == {m \in 0..Len(cs) : ~Good(m)}
<1>4. Good(0)
  <2>1. f[0] = <<>>
    BY <1>1, <1>3
  <2>2. Ordered(<<>>, fl, h)
    BY DEF Ordered
  <2>3. ToSet(<<>>) = {} /\ Of(0) = {}
    BY DEF ToSet
  <2> QED BY <2>1, <2>2, <2>3
<1>5. ASSUME NEW m \in 0..Len(cs), m # 0, Good(m - 1) PROVE Good(m)
  <2>1. /\ m \in 1..Len(cs) /\ m - 1 \in Nat /\ m \in Nat /\ cs[m] \in Contact
        /\ f[m] = With(f[m - 1], cs[m], fl, h)
    BY <1>1, <1>3, <1>5
  <2>2. 1..m = (1..m - 1) \cup {m}
    BY <2>1
  <2>3. {cs[i] : i \in 1..m} = {cs[i] : i \in 1..m - 1} \cup {cs[m]}
    BY <2>2
  <2>4. CASE Listed(cs[m], fl)
    <3>1. f[m] = Insert(f[m - 1], cs[m], fl, h)
      BY <2>1, <2>4 DEF With
    <3>2. Ordered(f[m], fl, h) /\ ToSet(f[m]) = ToSet(f[m - 1]) \cup {cs[m]}
      BY <1>5, <2>1, <3>1, InsertOrders
    <3>3. Of(m) = Of(m - 1) \cup {cs[m]}
      BY <2>3, <2>4
    <3> QED BY <1>5, <3>2, <3>3
  <2>5. CASE ~Listed(cs[m], fl)
    <3>1. f[m] = f[m - 1]
      BY <2>1, <2>5 DEF With
    <3>2. Of(m) = Of(m - 1)
      BY <2>3, <2>5
    <3> QED BY <1>5, <3>1, <3>2
  <2> QED BY <2>4, <2>5
<1> HIDE DEF Good
<1>6. T = {}
  <2>1. SUFFICES ASSUME T # {} PROVE FALSE
    OBVIOUS
  <2>2. PICK k \in T : \A i \in T : k <= i
    <3>1. T \in SUBSET Nat
      OBVIOUS
    <3> HIDE DEF T
    <3> QED BY <2>1, <3>1, HasMin
  <2>3. k # 0
    BY <1>4, <2>2
  <2>4. k - 1 \in 0..Len(cs) /\ k - 1 \notin T
    BY <1>1, <2>2, <2>3
  <2> QED BY <1>5, <2>2, <2>3, <2>4
<1>7. Good(Len(cs))
  BY <1>1, <1>6
<1> DEFINE rows == SortedContacts(cs, fl, h)
<1>8. Ordered(rows, fl, h) /\ ToSet(rows) = Of(Len(cs))
  BY <1>2, <1>7 DEF Good
<1>9. ToSet(cs) = {cs[i] : i \in 1..Len(cs)}
  BY <1>1 DEF ToSet
<1>10. ToSet(rows) \subseteq Contact
  BY <1>1, <1>8
<1> HIDE DEF rows
<1>11. WeakOrder(ToSet(rows), LAMBDA a, b : Before(a, b, fl, h))
  BY <1>10, BeforeOrders DEF WeakOrder
<1>12. ListedRight(cs, rows, fl, h)
  BY <1>8, <1>9, <1>11 DEF ListedRight, Ordered
<1> QED BY <1>12 DEF rows

\* What the table is made of.
TableInv == contacts \in Seq(Contact) /\ here \in Int

\* No key changes the snapshot.
LEMMA KeyKeepsSnapshot ==
  ASSUME NEW k, HandleKey(k) PROVE UNCHANGED <<contacts, here>>
<1>1. ASSUME FilterKey(k) PROVE UNCHANGED <<contacts, here>>
  BY <1>1 DEF FilterKey, KeepList, ToggleRow, CloseFilterKey, list
<1>2. ASSUME DashboardKey(k) PROVE UNCHANGED <<contacts, here>>
  <2>1. DOMAIN TierKey = {"m", "k", "s"}
    BY DEF TierKey
  <2> QED BY <1>2, <2>1 DEF DashboardKey, KeepScreen, KeepList, MoveOnDashboard, SetStatus,
                            RequestDetail, list
<1>3. ASSUME PacketLogKey(k) PROVE UNCHANGED <<contacts, here>>
  BY <1>3 DEF PacketLogKey, list
<1>4. ASSUME EscKey PROVE UNCHANGED <<contacts, here>>
  BY <1>4 DEF EscKey, Innermost, KeepList, CloseFilterKey, Quit, list
<1>5. k \in Anywhere => UNCHANGED <<contacts, here>>
  BY <1>4 DEF HandleKey, Anywhere, HelpKey, PageKey, Quit, KeepList, list
<1>6. CASE k \notin Anywhere
  <2>1. k \notin {"F1", "F2", "F3", "q", "Esc"}
    BY <1>6 DEF Anywhere
  <2>2. help => UNCHANGED <<contacts, here>>
    BY <1>6, <2>1 DEF HandleKey, KeepList, list
  <2>3. ~help /\ filterOpen => UNCHANGED <<contacts, here>>
    BY <1>1, <1>6, <2>1 DEF HandleKey
  <2>4. ~help /\ ~filterOpen => DashboardKey(k) \/ PacketLogKey(k)
    BY <1>6, <2>1 DEF HandleKey
  <2> QED BY <1>2, <1>3, <2>2, <2>3, <2>4
<1> QED BY <1>5, <1>6

LEMMA TableStep ==
  ASSUME TableInv, [Next]_vars PROVE TableInv'
<1>1. CASE \E k \in Keys : Press(k)
  <2>1. UNCHANGED <<contacts, here>>
    BY <1>1, KeyKeepsSnapshot DEF Press
  <2> QED BY <2>1 DEF TableInv
<1>2. CASE Restart
  BY <1>2 DEF Restart, TableInv
<1>3. ASSUME NEW s \in Snapshots, ApplySnapshot(s) PROVE TableInv'
  BY <1>3, UiAssumption DEF ApplySnapshot, TableInv
<1>4. CASE UNCHANGED <<contacts, here>>
  BY <1>4 DEF TableInv
<1> QED BY <1>1, <1>2, <1>3, <1>4
       DEF Next, Draw, ApplyCategory, HearPacket, Connect, Backlog, PushPacket, Disconnect, vars, list

\* Whatever the snapshot and the filter, the table has the contacts it should and none
\* the wrong way round, and the comparison is one sort_by accepts (repeater_filter.rs
\* compare_by_sort and sort_repeaters, app.rs sorted_contacts).
THEOREM TheTableIsOrdered == Spec => []TableOrdered
<1>1. Init => PrefsInv /\ TableInv
  BY FilterFacts DEF Init, PrefsInv, PrefsKept, Loaded, TableInv
<1>2. PrefsInv /\ TableInv /\ [Next]_vars => PrefsInv' /\ TableInv'
  BY PrefsStep, TableStep
<1>3. PrefsInv /\ TableInv => TableOrdered
  BY TableRight DEF PrefsInv, TableInv, TableOrdered, Rows
<1> QED BY <1>1, <1>2, <1>3, PTL DEF Spec

-----------------------------------------------------------------------------
(* The groups of the packet log.                                           *)

\* p is the newest reception of key from position lo on.
Latest(ps, lo, key, p) ==
  /\ p \in lo..Len(ps) /\ ps[p].key = key
  /\ \A j \in lo..Len(ps) : ps[j].key = key => p <= j

\* A reception that follows the newest one of its key within the window joins its
\* transmission.
LEMMA JoinsTransmission ==
  ASSUME NEW ps, Len(ps) \in Nat, NEW i \in 1..Len(ps), NEW p, NEW j \in i + 1..Len(ps),
         Decoded(ps[i]), Latest(ps, i + 1, ps[i].key, p), Near(ps[i], ps[p].at)
  PROVE  SameTransmission(ps, i, j) <=> SameTransmission(ps, p, j)
<1>1. /\ p \in i + 1..Len(ps) /\ ps[p].key = ps[i].key
      /\ \A h \in i + 1..Len(ps) : ps[h].key = ps[i].key => p <= h
  BY DEF Latest
<1>2. SameTransmission(ps, i, j) <=> Continues(ps, i, j)
  BY DEF SameTransmission
<1>3. ASSUME Continues(ps, i, j) PROVE SameTransmission(ps, p, j)
  <2>1. /\ ps[j].key = ps[i].key
        /\ \A h \in i..j - 1 : ps[h].key = ps[i].key =>
             \E q \in Previous(ps, h) : ps[h].at - ps[q].at <= Window
    BY <1>3 DEF Continues
  <2>2. p <= j
    BY <1>1, <2>1
  <2>3. CASE p < j
    <3>1. \A h \in p..j - 1 : h \in i..j - 1
      BY <1>1, <2>3
    <3>2. Continues(ps, p, j)
      BY <1>1, <2>1, <3>1 DEF Continues, Decoded
    <3> QED BY <2>3, <3>2 DEF SameTransmission
  <2> QED BY <1>1, <2>2, <2>3 DEF SameTransmission
<1>4. ASSUME SameTransmission(ps, p, j) PROVE Continues(ps, i, j)
  <2>1. p = j \/ (p < j /\ Continues(ps, p, j)) \/ (j < p /\ Continues(ps, j, p))
    BY <1>4 DEF SameTransmission
  <2>2. ps[j].key = ps[i].key
    BY <1>1, <2>1 DEF Continues
  <2>3. p <= j
    BY <1>1, <2>2
  <2>4. p \in Previous(ps, i)
    <3>1. \A h \in i + 1..p - 1 : h \in i + 1..Len(ps) /\ ~(p <= h)
      BY <1>1
    <3> QED BY <1>1, <3>1 DEF Previous
  <2>5. ps[i].at - ps[p].at <= Window
    BY DEF Near
  <2>6. ASSUME NEW h \in i..j - 1, ps[h].key = ps[i].key
        PROVE  \E q \in Previous(ps, h) : ps[h].at - ps[q].at <= Window
    <3>1. CASE h = i
      BY <2>4, <2>5, <3>1
    <3>2. CASE h # i
      <4>1. h \in i + 1..Len(ps)
        BY <3>2
      <4>2. p <= h /\ p < j /\ h \in p..j - 1
        BY <1>1, <2>6, <4>1
      <4>3. Continues(ps, p, j)
        BY <1>1, <2>1, <4>2
      <4> QED BY <1>1, <2>6, <4>2, <4>3 DEF Continues
    <3> QED BY <3>1, <3>2
  <2> QED BY <2>2, <2>6 DEF Continues
<1> QED BY <1>2, <1>3, <1>4

\* Any other reception begins a transmission of its own.
LEMMA BeginsTransmission ==
  ASSUME NEW ps, Len(ps) \in Nat, NEW i \in 1..Len(ps), NEW j \in i + 1..Len(ps),
         Decoded(ps[i]) => \A p : Latest(ps, i + 1, ps[i].key, p) => ~Near(ps[i], ps[p].at)
  PROVE  ~SameTransmission(ps, i, j)
<1> SUFFICES ASSUME Continues(ps, i, j) PROVE FALSE
  BY DEF SameTransmission
<1>1. /\ Decoded(ps[i]) /\ i \in i..j - 1
      /\ \E q \in Previous(ps, i) : ps[i].at - ps[q].at <= Window
  BY DEF Continues
<1>2. PICK q \in Previous(ps, i) : ps[i].at - ps[q].at <= Window
  BY <1>1
<1>3. /\ q \in i + 1..Len(ps) /\ ps[q].key = ps[i].key
      /\ \A h \in i + 1..q - 1 : ps[h].key # ps[i].key
  BY <1>2 DEF Previous
<1>4. ASSUME NEW h \in i + 1..Len(ps), ps[h].key = ps[i].key PROVE q <= h
  <2>1. h \notin i + 1..q - 1
    BY <1>3, <1>4
  <2> QED BY <1>3, <2>1
<1>5. Latest(ps, i + 1, ps[i].key, q)
  BY <1>3, <1>4 DEF Latest
<1> QED BY <1>1, <1>2, <1>5 DEF Near

\* A list of distinct entries and where each of them is in it.
Places(ps, pos) ==
  /\ Len(ps) \in Nat
  /\ \A i \in 1..Len(ps) : pos[ps[i]] = i

\* What the loop has when it has taken the positions from lo on: rows of entries, each
\* newest first; every position taken is in one; two entries are in one row exactly
\* when they are of one transmission.
Rowed(ps, pos, lo, rows) ==
  /\ rows \in Seq(Seq(ToSet(ps)))
  /\ \A g \in 1..Len(rows) : rows[g] # <<>>
  /\ \A g \in 1..Len(rows) : \A m \in 1..Len(rows[g]) :
       pos[rows[g][m]] \in lo..Len(ps) /\ rows[g][m] = ps[pos[rows[g][m]]]
  /\ \A g \in 1..Len(rows) : \A m, l \in 1..Len(rows[g]) :
       m < l => pos[rows[g][m]] < pos[rows[g][l]]
  /\ \A i \in lo..Len(ps) : \E g \in 1..Len(rows) : \E m \in 1..Len(rows[g]) : rows[g][m] = ps[i]
  /\ \A g, h \in 1..Len(rows) : \A m \in 1..Len(rows[g]), l \in 1..Len(rows[h]) :
       SameTransmission(ps, pos[rows[g][m]], pos[rows[h][l]]) <=> g = h

\* And of every key it has decoded, the row of its newest reception.
Opened(ps, pos, lo, rows, open) ==
  /\ \A k : k \in DOMAIN open <=> \E i \in lo..Len(ps) : Decoded(ps[i]) /\ ps[i].key = k
  /\ \A k \in DOMAIN open : /\ open[k] \in 1..Len(rows)
                            /\ Latest(ps, lo, k, pos[rows[open[k]][1]])

Grouped(ps, pos, lo, st) ==
  /\ st = [groups |-> st.groups, open |-> st.open]
  /\ st.open = [k \in DOMAIN st.open |-> st.open[k]]
  /\ Rowed(ps, pos, lo, st.groups) /\ Opened(ps, pos, lo, st.groups, st.open)

\* The rows with an entry put in front of row g.
Fronted(rows, g, e) == [rows EXCEPT ![g] = <<e>> \o @]

IsFronted(new, rows, g, e) ==
  /\ Len(new) = Len(rows) /\ \A h \in 1..Len(rows) : h # g => new[h] = rows[h]
  /\ new[g] # <<>> /\ Len(new[g]) = Len(rows[g]) + 1 /\ new[g][1] = e
  /\ \A m \in 2..Len(rows[g]) + 1 : new[g][m] = rows[g][m - 1]

LEMMA FrontedRows ==
  ASSUME NEW E, NEW rows \in Seq(Seq(E)), NEW g \in 1..Len(rows), NEW e \in E
  PROVE  Fronted(rows, g, e) \in Seq(Seq(E)) /\ IsFronted(Fronted(rows, g, e), rows, g, e)
<1> DEFINE row == <<e>> \o rows[g]
<1>1. rows[g] \in Seq(E) /\ <<e>> \in Seq(E) /\ Len(<<e>>) = 1 /\ <<e>>[1] = e
  OBVIOUS
<1>2. /\ row \in Seq(E) /\ Len(row) = Len(rows[g]) + 1 /\ row[1] = e
      /\ \A m \in 2..Len(rows[g]) + 1 : row[m] = rows[g][m - 1]
  BY <1>1, ConcatProperties
<1>3. row # <<>>
  BY <1>1, <1>2
<1> HIDE DEF row
<1>4. /\ Fronted(rows, g, e) \in Seq(Seq(E)) /\ Len(Fronted(rows, g, e)) = Len(rows)
      /\ Fronted(rows, g, e)[g] = row
      /\ \A h \in 1..Len(rows) : h # g => Fronted(rows, g, e)[h] = rows[h]
  <2>1. Fronted(rows, g, e) = [rows EXCEPT ![g] = row]
    BY DEF Fronted, row
  <2> QED BY <1>2, <2>1
<1> QED BY <1>2, <1>3, <1>4 DEF IsFronted

LEMMA JoinRowed ==
  ASSUME NEW ps, NEW pos, Places(ps, pos), NEW i \in 1..Len(ps),
         NEW rows, Rowed(ps, pos, i + 1, rows), NEW g \in 1..Len(rows),
         Decoded(ps[i]), Near(ps[i], ps[pos[rows[g][1]]].at),
         Latest(ps, i + 1, ps[i].key, pos[rows[g][1]])
  PROVE  Rowed(ps, pos, i, Fronted(rows, g, ps[i]))
<1> DEFINE E == ToSet(ps)
           e == ps[i]
           p == pos[rows[g][1]]
           new == Fronted(rows, g, ps[i])
<1>1. Len(ps) \in Nat /\ e \in E /\ rows \in Seq(Seq(E)) /\ pos[e] = i
  BY DEF Places, Rowed, ToSet
<1>2. /\ new \in Seq(Seq(E)) /\ Len(new) = Len(rows)
      /\ \A h \in 1..Len(rows) : h # g => new[h] = rows[h]
      /\ new[g] # <<>> /\ Len(new[g]) = Len(rows[g]) + 1 /\ new[g][1] = e
      /\ \A m \in 2..Len(rows[g]) + 1 : new[g][m] = rows[g][m - 1]
  <2> HIDE DEF E, e
  <2>1. Fronted(rows, g, e) \in Seq(Seq(E)) /\ IsFronted(Fronted(rows, g, e), rows, g, e)
    BY <1>1, FrontedRows
  <2>2. new = Fronted(rows, g, e)
    BY DEF e
  <2> HIDE DEF new
  <2> QED BY <2>1, <2>2 DEF IsFronted
<1>3. /\ \A h \in 1..Len(rows) : rows[h] # <<>> /\ Len(rows[h]) \in Nat
      /\ \A h \in 1..Len(rows) : \A m \in 1..Len(rows[h]) :
           pos[rows[h][m]] \in i + 1..Len(ps) /\ rows[h][m] = ps[pos[rows[h][m]]]
      /\ \A h \in 1..Len(rows) : \A m, l \in 1..Len(rows[h]) :
           m < l => pos[rows[h][m]] < pos[rows[h][l]]
      /\ \A j \in i + 1..Len(ps) : \E h \in 1..Len(rows) : \E m \in 1..Len(rows[h]) : rows[h][m] = ps[j]
      /\ \A h, k \in 1..Len(rows) : \A m \in 1..Len(rows[h]), l \in 1..Len(rows[k]) :
           SameTransmission(ps, pos[rows[h][m]], pos[rows[k][l]]) <=> h = k
  <2>1. \A h \in 1..Len(rows) : Len(rows[h]) \in Nat
    BY <1>1
  <2> QED BY <2>1 DEF Rowed
<1> HIDE DEF E, e, new
<1>4. ASSUME NEW h \in 1..Len(rows), NEW m \in 1..Len(new[h])
      PROVE  \/ h = g /\ m = 1 /\ new[h][m] = e
             \/ \E o \in 1..Len(rows[h]) : /\ new[h][m] = rows[h][o]
                                           /\ o = IF h = g THEN m - 1 ELSE m
  <2>1. CASE h # g
    BY <1>2, <2>1, SMTT(30)
  <2>2. CASE h = g /\ m = 1
    BY <1>2, <2>2, SMTT(30)
  <2>3. CASE h = g /\ m # 1
    <3> HIDE DEF new, e, p, E
    <3>1. m \in 2..Len(rows[g]) + 1 /\ m - 1 \in 1..Len(rows[g])
      BY <1>2, <1>3, <2>3
    <3> QED BY <1>2, <2>3, <3>1
  <2> QED BY <2>1, <2>2, <2>3
<1>5. ASSUME NEW h \in 1..Len(new), NEW m \in 1..Len(new[h])
      PROVE  pos[new[h][m]] \in i..Len(ps) /\ new[h][m] = ps[pos[new[h][m]]]
  <2>1. CASE new[h][m] = e
    BY <1>1, <2>1 DEF e
  <2>2. CASE \E o \in 1..Len(rows[h]) : new[h][m] = rows[h][o]
    <3>1. PICK o \in 1..Len(rows[h]) : new[h][m] = rows[h][o]
      BY <2>2
    <3>2. pos[rows[h][o]] \in i + 1..Len(ps) /\ rows[h][o] = ps[pos[rows[h][o]]]
      BY <1>2, <1>3
    <3>3. pos[new[h][m]] \in i + 1..Len(ps) /\ new[h][m] = ps[pos[new[h][m]]]
      BY <3>1, <3>2
    <3> QED BY <3>3
  <2> QED BY <1>2, <1>4, <2>1, <2>2
<1>6. ASSUME NEW h \in 1..Len(new), NEW m \in 1..Len(new[h]), NEW l \in 1..Len(new[h]), m < l
      PROVE  pos[new[h][m]] < pos[new[h][l]]
  <2>0. h \in 1..Len(rows) /\ Len(new[h]) \in Nat
    BY <1>2
  <2>1. PICK o \in 1..Len(rows[h]) : new[h][l] = rows[h][o] /\ o = IF h = g THEN l - 1 ELSE l
    <3>1. l # 1
      BY <1>6, <2>0
    <3> QED BY <1>4, <2>0, <3>1
  <2>2. CASE h = g /\ m = 1 /\ new[h][m] = e
    <3>1. pos[rows[h][o]] \in i + 1..Len(ps)
      BY <1>3, <2>0
    <3>2. pos[new[h][m]] = i /\ pos[new[h][l]] = pos[rows[h][o]]
      BY <1>1, <2>1, <2>2
    <3> QED BY <3>1, <3>2
  <2>3. CASE \E q \in 1..Len(rows[h]) : new[h][m] = rows[h][q] /\ q = IF h = g THEN m - 1 ELSE m
    <3>1. PICK q \in 1..Len(rows[h]) : new[h][m] = rows[h][q] /\ q = IF h = g THEN m - 1 ELSE m
      BY <2>3
    <3>2. q < o
      BY <1>6, <2>0, <2>1, <3>1
    <3> QED BY <1>3, <2>0, <2>1, <3>1, <3>2
  <2> QED BY <1>4, <2>0, <2>2, <2>3
<1>7. ASSUME NEW j \in i..Len(ps)
      PROVE  \E h \in 1..Len(new) : \E m \in 1..Len(new[h]) : new[h][m] = ps[j]
  <2>1. CASE j = i
    <3>1. 1 \in 1..Len(new[g])
      BY <1>2, <1>3
    <3> QED BY <1>2, <2>1, <3>1 DEF e
  <2>2. CASE j # i
    <3>1. PICK h \in 1..Len(rows) : \E m \in 1..Len(rows[h]) : rows[h][m] = ps[j]
      BY <1>3, <2>2
    <3>2. PICK m \in 1..Len(rows[h]) : rows[h][m] = ps[j]
      BY <3>1
    <3>3. CASE h = g
      <4>1. m + 1 \in 2..Len(rows[g]) + 1 /\ m + 1 \in 1..Len(new[g]) /\ (m + 1) - 1 = m
        BY <1>2, <1>3, <3>2, <3>3
      <4>2. new[g][m + 1] = ps[j]
        BY <1>2, <3>2, <3>3, <4>1
      <4> QED BY <1>2, <4>1, <4>2
    <3>4. CASE h # g
      BY <1>2, <3>2, <3>4
    <3> QED BY <3>3, <3>4
  <2> QED BY <2>1, <2>2
<1>8. ASSUME NEW h \in 1..Len(rows), NEW m \in 1..Len(rows[h])
      PROVE  SameTransmission(ps, i, pos[rows[h][m]]) <=> h = g
  <2>1. pos[rows[h][m]] \in i + 1..Len(ps) /\ 1 \in 1..Len(rows[g])
    BY <1>3, SMTT(30)
  <2>2. SameTransmission(ps, i, pos[rows[h][m]]) <=> SameTransmission(ps, p, pos[rows[h][m]])
    <3> DEFINE j == pos[rows[h][m]]
    <3>1. j \in i + 1..Len(ps) /\ Len(ps) \in Nat
      BY <1>1, <2>1
    <3>2. Latest(ps, i + 1, ps[i].key, p) /\ Near(ps[i], ps[p].at)
      OBVIOUS
    <3> HIDE DEF j, p, new, e, E
    <3>3. SameTransmission(ps, i, j) <=> SameTransmission(ps, p, j)
      BY <3>1, <3>2, JoinsTransmission
    <3> QED BY <3>3 DEF j
  <2>3. SameTransmission(ps, p, pos[rows[h][m]]) <=> g = h
    BY <1>3, <2>1
  <2> QED BY <2>2, <2>3
<1>9. ASSUME NEW h \in 1..Len(new), NEW k \in 1..Len(new),
             NEW m \in 1..Len(new[h]), NEW l \in 1..Len(new[k])
      PROVE  SameTransmission(ps, pos[new[h][m]], pos[new[k][l]]) <=> h = k
  <2>1. \A a, b : SameTransmission(ps, a, b) <=> SameTransmission(ps, b, a)
    BY DEF SameTransmission
  <2>2. CASE h = g /\ new[h][m] = e
    <3>1. CASE k = g /\ new[k][l] = e
      BY <1>1, <2>2, <3>1 DEF SameTransmission
    <3>2. CASE \E o \in 1..Len(rows[k]) : new[k][l] = rows[k][o]
      BY <1>1, <1>2, <1>8, <2>2, <3>2
    <3> QED BY <1>2, <1>4, <3>1, <3>2
  <2>3. CASE \E o \in 1..Len(rows[h]) : new[h][m] = rows[h][o]
    <3>1. CASE k = g /\ new[k][l] = e
      <4>1. PICK o \in 1..Len(rows[h]) : new[h][m] = rows[h][o]
        BY <2>3
      <4>2. SameTransmission(ps, i, pos[rows[h][o]]) <=> h = g
        BY <1>2, <1>8
      <4> QED BY <1>1, <2>1, <3>1, <4>1, <4>2
    <3>2. CASE \E o \in 1..Len(rows[k]) : new[k][l] = rows[k][o]
      <4>1. PICK o \in 1..Len(rows[h]) : new[h][m] = rows[h][o]
        BY <2>3
      <4>2. PICK q \in 1..Len(rows[k]) : new[k][l] = rows[k][q]
        BY <3>2
      <4>3. SameTransmission(ps, pos[rows[h][o]], pos[rows[k][q]]) <=> h = k
        BY <1>2, <1>3
      <4> QED BY <4>1, <4>2, <4>3
    <3> QED BY <1>2, <1>4, <3>1, <3>2
  <2> QED BY <1>2, <1>4, <2>2, <2>3
<1>10. \A h \in 1..Len(new) : new[h] # <<>>
  BY <1>2, <1>3
<1> QED BY <1>2, <1>5, <1>6, <1>7, <1>9, <1>10 DEF Rowed, E, new

LEMMA BeginRowed ==
  ASSUME NEW ps, NEW pos, Places(ps, pos), NEW i \in 1..Len(ps),
         NEW rows, Rowed(ps, pos, i + 1, rows),
         \A j \in i + 1..Len(ps) : ~SameTransmission(ps, i, j)
  PROVE  Rowed(ps, pos, i, Append(rows, <<ps[i]>>))
<1> DEFINE E == ToSet(ps)
           e == ps[i]
           new == Append(rows, <<ps[i]>>)
           n == Len(rows)
<1>1. Len(ps) \in Nat /\ e \in E /\ rows \in Seq(Seq(E)) /\ pos[e] = i /\ n \in Nat
  BY DEF Places, Rowed, ToSet
<1>2. /\ new \in Seq(Seq(E)) /\ Len(new) = n + 1
      /\ \A h \in 1..n : new[h] = rows[h]
      /\ new[n + 1] = <<e>> /\ Len(new[n + 1]) = 1 /\ new[n + 1][1] = e
  <2> HIDE DEF E
  <2>1. <<e>> \in Seq(E)
    BY <1>1
  <2> QED BY <1>1, <2>1
<1>3. /\ \A h \in 1..n : rows[h] # <<>> /\ Len(rows[h]) \in Nat
      /\ \A h \in 1..n : \A m \in 1..Len(rows[h]) :
           pos[rows[h][m]] \in i + 1..Len(ps) /\ rows[h][m] = ps[pos[rows[h][m]]]
      /\ \A h \in 1..n : \A m, l \in 1..Len(rows[h]) :
           m < l => pos[rows[h][m]] < pos[rows[h][l]]
      /\ \A j \in i + 1..Len(ps) : \E h \in 1..n : \E m \in 1..Len(rows[h]) : rows[h][m] = ps[j]
      /\ \A h, k \in 1..n : \A m \in 1..Len(rows[h]), l \in 1..Len(rows[k]) :
           SameTransmission(ps, pos[rows[h][m]], pos[rows[k][l]]) <=> h = k
  <2>1. \A h \in 1..n : Len(rows[h]) \in Nat
    BY <1>1
  <2> QED BY <2>1 DEF Rowed
<1> HIDE DEF E, e, new, n
<1>4. ASSUME NEW h \in 1..n + 1, NEW m \in 1..Len(new[h])
      PROVE  \/ h = n + 1 /\ m = 1 /\ new[h][m] = e
             \/ h \in 1..n /\ m \in 1..Len(rows[h]) /\ new[h][m] = rows[h][m]
  <2>1. CASE h = n + 1
    <3>1. m \in 1..1
      BY <1>2, <2>1
    <3>2. m = 1
      BY <3>1
    <3> QED BY <1>2, <2>1, <3>2
  <2>2. CASE h # n + 1
    <3>1. h \in 1..n
      BY <1>1, <2>2
    <3> QED BY <1>2, <3>1
  <2> QED BY <2>1, <2>2
<1>5. ASSUME NEW h \in 1..n + 1, NEW m \in 1..Len(new[h])
      PROVE  pos[new[h][m]] \in i..Len(ps) /\ new[h][m] = ps[pos[new[h][m]]]
  <2>1. CASE new[h][m] = e
    BY <1>1, <2>1 DEF e
  <2>2. CASE h \in 1..n /\ m \in 1..Len(rows[h]) /\ new[h][m] = rows[h][m]
    <3>1. pos[rows[h][m]] \in i + 1..Len(ps) /\ rows[h][m] = ps[pos[rows[h][m]]]
      BY <1>3, <2>2
    <3>2. pos[new[h][m]] \in i + 1..Len(ps) /\ new[h][m] = ps[pos[new[h][m]]]
      BY <2>2, <3>1
    <3> QED BY <3>2
  <2> QED BY <1>4, <2>1, <2>2
<1>6. ASSUME NEW h \in 1..n + 1, NEW m \in 1..Len(new[h]), NEW l \in 1..Len(new[h]), m < l
      PROVE  pos[new[h][m]] < pos[new[h][l]]
  <2>1. CASE h = n + 1
    <3>1. m \in 1..1 /\ l \in 1..1
      BY <1>2, <2>1
    <3> QED BY <1>6, <3>1
  <2>2. CASE h # n + 1
    <3>1. h \in 1..n /\ new[h] = rows[h]
      BY <1>1, <1>2, <2>2
    <3> QED BY <1>3, <1>6, <3>1
  <2> QED BY <2>1, <2>2
<1>7. ASSUME NEW j \in i..Len(ps)
      PROVE  \E h \in 1..n + 1 : \E m \in 1..Len(new[h]) : new[h][m] = ps[j]
  <2>1. CASE j = i
    <3>1. n + 1 \in 1..n + 1 /\ 1 \in 1..Len(new[n + 1]) /\ new[n + 1][1] = ps[j]
      BY <1>1, <1>2, <2>1 DEF e
    <3> QED BY <3>1
  <2>2. CASE j # i
    <3>1. PICK h \in 1..n : \E m \in 1..Len(rows[h]) : rows[h][m] = ps[j]
      BY <1>3, <2>2
    <3>2. h \in 1..n + 1 /\ new[h] = rows[h]
      BY <1>1, <1>2
    <3> QED BY <3>1, <3>2
  <2> QED BY <2>1, <2>2
<1>8. ASSUME NEW h \in 1..n + 1, NEW k \in 1..n + 1,
             NEW m \in 1..Len(new[h]), NEW l \in 1..Len(new[k])
      PROVE  SameTransmission(ps, pos[new[h][m]], pos[new[k][l]]) <=> h = k
  <2>1. \A a, b : SameTransmission(ps, a, b) <=> SameTransmission(ps, b, a)
    BY DEF SameTransmission
  <2>2. SameTransmission(ps, i, i)
    BY DEF SameTransmission
  <2>3. CASE h = n + 1 /\ k = n + 1
    BY <1>1, <1>2, <2>2, <2>3, SMTT(30)
  <2>4. CASE h = n + 1 /\ k \in 1..n
    <3>1. pos[new[h][m]] = i /\ new[k][l] = rows[k][l] /\ l \in 1..Len(rows[k])
      BY <1>1, <1>2, <1>4, <2>4
    <3>2. pos[new[k][l]] \in i + 1..Len(ps)
      BY <1>3, <2>4, <3>1
    <3> QED BY <1>1, <2>4, <3>1, <3>2, SMTT(30)
  <2>5. CASE h \in 1..n /\ k = n + 1
    <3>1. pos[new[k][l]] = i /\ new[h][m] = rows[h][m] /\ m \in 1..Len(rows[h])
      BY <1>1, <1>2, <1>4, <2>5
    <3>2. pos[new[h][m]] \in i + 1..Len(ps)
      BY <1>3, <2>5, <3>1
    <3> QED BY <1>1, <2>1, <2>5, <3>1, <3>2
  <2>6. CASE h \in 1..n /\ k \in 1..n
    <3>1. /\ new[k][l] = rows[k][l] /\ l \in 1..Len(rows[k])
          /\ new[h][m] = rows[h][m] /\ m \in 1..Len(rows[h])
      BY <1>2, <2>6
    <3> QED BY <1>3, <2>6, <3>1
  <2> QED BY <1>1, <2>3, <2>4, <2>5, <2>6
<1>9. \A h \in 1..n + 1 : new[h] # <<>>
  <2>1. ASSUME NEW h \in 1..n + 1 PROVE new[h] # <<>>
    <3>1. CASE h = n + 1
      <4>1. Len(new[h]) = 1 /\ Len(<<>>) = 0
        BY <1>2, <3>1
      <4> HIDE DEF new
      <4> QED BY <4>1
    <3>2. CASE h # n + 1
      <4>1. h \in 1..n
        BY <1>1, <3>2
      <4> QED BY <1>2, <1>3, <4>1
    <3> QED BY <3>1, <3>2
  <2> QED BY <2>1
<1>10. Len(new) = n + 1 /\ new \in Seq(Seq(E))
  BY <1>2
<1>11. /\ new \in Seq(Seq(ToSet(ps))) /\ Len(new) = n + 1
  BY <1>10 DEF E
<1>12. Rowed(ps, pos, i, new)
  <2>1. 1..Len(new) = 1..n + 1
    BY <1>11
  <2>2. \A h \in 1..Len(new) : new[h] # <<>>
    BY <1>9, <2>1
  <2>3. \A h \in 1..Len(new) : \A m \in 1..Len(new[h]) :
          pos[new[h][m]] \in i..Len(ps) /\ new[h][m] = ps[pos[new[h][m]]]
    BY <1>5, <2>1
  <2>4. \A h \in 1..Len(new) : \A m, l \in 1..Len(new[h]) :
          m < l => pos[new[h][m]] < pos[new[h][l]]
    BY <1>6, <2>1
  <2>5. \A j \in i..Len(ps) : \E h \in 1..Len(new) : \E m \in 1..Len(new[h]) : new[h][m] = ps[j]
    BY <1>7, <2>1
  <2>6. \A h, k \in 1..Len(new) : \A m \in 1..Len(new[h]), l \in 1..Len(new[k]) :
          SameTransmission(ps, pos[new[h][m]], pos[new[k][l]]) <=> h = k
    BY <1>8, <2>1
  <2> QED BY <1>11, <2>2, <2>3, <2>4, <2>5, <2>6 DEF Rowed
<1> QED BY <1>12 DEF new

LEMMA JoinOpened ==
  ASSUME NEW ps, NEW pos, Places(ps, pos), NEW i \in 1..Len(ps),
         NEW rows, Rowed(ps, pos, i + 1, rows),
         NEW open, Opened(ps, pos, i + 1, rows, open),
         Decoded(ps[i]), ps[i].key \in DOMAIN open
  PROVE  Opened(ps, pos, i, Fronted(rows, open[ps[i].key], ps[i]), open)
<1> DEFINE e == ps[i]
           g == open[e.key]
           new == Fronted(rows, g, e)
<1>1. /\ \A k : k \in DOMAIN open <=> \E j \in i + 1..Len(ps) : Decoded(ps[j]) /\ ps[j].key = k
      /\ \A k \in DOMAIN open : /\ open[k] \in 1..Len(rows)
                                /\ Latest(ps, i + 1, k, pos[rows[open[k]][1]])
  BY DEF Opened
<1>2. /\ Len(ps) \in Nat /\ e \in ToSet(ps) /\ rows \in Seq(Seq(ToSet(ps)))
      /\ pos[e] = i /\ g \in 1..Len(rows)
  BY <1>1 DEF Places, Rowed, ToSet
<1>3. IsFronted(new, rows, g, e)
  <2> HIDE DEF e, g
  <2>1. IsFronted(Fronted(rows, g, e), rows, g, e)
    BY <1>2, FrontedRows
  <2> QED BY <2>1
<1>4. /\ Len(new) = Len(rows) /\ \A h \in 1..Len(rows) : h # g => new[h] = rows[h]
      /\ new[g][1] = e
  BY <1>3 DEF IsFronted
<1> HIDE DEF new
<1>5. ASSUME NEW k
      PROVE  k \in DOMAIN open <=> \E j \in i..Len(ps) : Decoded(ps[j]) /\ ps[j].key = k
  <2>1. CASE k = e.key
    BY <2>1
  <2>2. CASE k # e.key
    <3>1. \A j \in i..Len(ps) : ps[j].key = k => j \in i + 1..Len(ps)
      BY <2>2
    <3>2. \A j \in i + 1..Len(ps) : j \in i..Len(ps)
      BY <1>2
    <3> QED BY <1>1, <3>1, <3>2
  <2> QED BY <2>1, <2>2
<1>6. ASSUME NEW k \in DOMAIN open PROVE Latest(ps, i, k, pos[new[open[k]][1]])
  <2>1. CASE k = e.key
    <3>1. pos[new[open[k]][1]] = i
      BY <1>2, <1>4, <2>1
    <3>2. Latest(ps, i, k, i)
      BY <1>2, <2>1 DEF Latest
    <3> QED BY <3>1, <3>2
  <2>2. CASE k # e.key
    <3>1. Latest(ps, i + 1, k, pos[rows[open[k]][1]]) /\ open[k] \in 1..Len(rows)
      BY <1>1
    <3>2. ps[pos[rows[g][1]]].key = e.key /\ ps[pos[rows[open[k]][1]]].key = k
      BY <1>1, <3>1 DEF Latest
    <3>3. new[open[k]] = rows[open[k]]
      BY <1>4, <2>2, <3>1, <3>2
    <3> DEFINE p == pos[rows[open[k]][1]]
    <3>4. Latest(ps, i + 1, k, p)
      BY <3>1
    <3> HIDE DEF p
    <3>5. Latest(ps, i, k, p)
      BY <1>2, <2>2, <3>4 DEF Latest
    <3> QED BY <3>3, <3>5 DEF p
  <2> QED BY <2>1, <2>2
<1>7. Opened(ps, pos, i, new, open)
  BY <1>1, <1>4, <1>5, <1>6 DEF Opened
<1> QED BY <1>7 DEF new

OpenWith(open, e, n) ==
  [k \in DOMAIN open \cup (IF Decoded(e) THEN {e.key} ELSE {}) |->
     IF k = e.key THEN n + 1 ELSE open[k]]

LEMMA BeginOpened ==
  ASSUME NEW ps, NEW pos, Places(ps, pos), NEW i \in 1..Len(ps),
         NEW rows, Rowed(ps, pos, i + 1, rows),
         NEW open, Opened(ps, pos, i + 1, rows, open)
  PROVE  Opened(ps, pos, i, Append(rows, <<ps[i]>>), OpenWith(open, ps[i], Len(rows)))
<1> DEFINE e == ps[i]
           new == Append(rows, <<ps[i]>>)
           n == Len(rows)
           o == OpenWith(open, e, n)
<1>1. /\ \A k : k \in DOMAIN open <=> \E j \in i + 1..Len(ps) : Decoded(ps[j]) /\ ps[j].key = k
      /\ \A k \in DOMAIN open : open[k] \in 1..n /\ Latest(ps, i + 1, k, pos[rows[open[k]][1]])
  BY DEF Opened
<1>2. /\ Len(ps) \in Nat /\ rows \in Seq(Seq(ToSet(ps))) /\ pos[e] = i /\ n \in Nat
      /\ <<e>> \in Seq(ToSet(ps))
  BY DEF Places, Rowed, ToSet
<1>3. /\ Len(new) = n + 1 /\ new[n + 1][1] = e
      /\ \A h \in 1..n : new[h] = rows[h]
  BY <1>2
<1>4. /\ DOMAIN o = DOMAIN open \cup (IF Decoded(e) THEN {e.key} ELSE {})
      /\ \A k \in DOMAIN o : o[k] = IF k = e.key THEN n + 1 ELSE open[k]
  BY DEF OpenWith
<1>5. ~Decoded(e) => e.key \notin DOMAIN open
  BY <1>1 DEF Decoded
<1> HIDE DEF new, n, o
<1>6. ASSUME NEW k
      PROVE  k \in DOMAIN o <=> \E j \in i..Len(ps) : Decoded(ps[j]) /\ ps[j].key = k
  <2>1. CASE k = e.key
    <3>1. Decoded(e) => \E j \in i..Len(ps) : Decoded(ps[j]) /\ ps[j].key = k
      BY <1>2, <2>1
    <3>2. ~Decoded(e) => \A j \in i..Len(ps) : ps[j].key = k => ~Decoded(ps[j])
      BY <2>1 DEF Decoded
    <3> QED BY <1>4, <1>5, <2>1, <3>1, <3>2
  <2>2. CASE k # e.key
    <3>1. \A j \in i..Len(ps) : ps[j].key = k => j \in i + 1..Len(ps)
      BY <2>2
    <3>2. \A j \in i + 1..Len(ps) : j \in i..Len(ps)
      BY <1>2
    <3>3. k \in DOMAIN o <=> k \in DOMAIN open
      BY <1>4, <2>2
    <3> QED BY <1>1, <3>1, <3>2, <3>3
  <2> QED BY <2>1, <2>2
<1>7. ASSUME NEW k \in DOMAIN o
      PROVE  o[k] \in 1..Len(new) /\ Latest(ps, i, k, pos[new[o[k]][1]])
  <2>1. CASE k = e.key
    <3>1. o[k] = n + 1 /\ pos[new[o[k]][1]] = i
      BY <1>2, <1>3, <1>4, <2>1
    <3>2. Latest(ps, i, k, i)
      BY <1>2, <2>1 DEF Latest
    <3>3. n + 1 \in 1..Len(new)
      BY <1>2, <1>3
    <3> QED BY <3>1, <3>2, <3>3
  <2>2. CASE k # e.key
    <3>1. o[k] = open[k] /\ k \in DOMAIN open
      BY <1>4, <2>2
    <3>2. Latest(ps, i + 1, k, pos[rows[open[k]][1]]) /\ open[k] \in 1..n
      BY <1>1, <3>1
    <3>3. new[o[k]] = rows[open[k]] /\ o[k] \in 1..Len(new)
      BY <1>2, <1>3, <3>1, <3>2
    <3> DEFINE p == pos[rows[open[k]][1]]
    <3>4. Latest(ps, i + 1, k, p)
      BY <3>2
    <3> HIDE DEF p
    <3>5. Latest(ps, i, k, p)
      BY <1>2, <2>2, <3>4 DEF Latest
    <3> QED BY <3>3, <3>5 DEF p
  <2> QED BY <2>1, <2>2
<1>8. Opened(ps, pos, i, new, o)
  BY <1>6, <1>7 DEF Opened
<1> QED BY <1>8 DEF new, o, n

\* One step of the loop.
LEMMA GrowGroups ==
  ASSUME NEW ps, NEW pos, Places(ps, pos), NEW i \in 1..Len(ps),
         NEW st, Grouped(ps, pos, i + 1, st)
  PROVE  Grouped(ps, pos, i, Grow(st, ps[i]))
<1> DEFINE e == ps[i]
           g == st.open[e.key]
           rows == st.groups
           joins == Decoded(e) /\ e.key \in DOMAIN st.open /\ Near(e, Head(rows[g]).at)
           new == Grow(st, e)
<1>1. /\ st = [groups |-> rows, open |-> st.open] /\ Rowed(ps, pos, i + 1, rows)
      /\ Opened(ps, pos, i + 1, rows, st.open)
  BY DEF Grouped
<1>2. /\ rows \in Seq(Seq(ToSet(ps))) /\ \A h \in 1..Len(rows) : rows[h] # <<>>
      /\ \A h \in 1..Len(rows) : \A m \in 1..Len(rows[h]) : rows[h][m] = ps[pos[rows[h][m]]]
      /\ Len(ps) \in Nat
  BY <1>1, SMTT(30) DEF Rowed, Places
<1>3. ASSUME e.key \in DOMAIN st.open
      PROVE  /\ g \in 1..Len(rows) /\ Latest(ps, i + 1, e.key, pos[rows[g][1]])
             /\ Head(rows[g]) = ps[pos[rows[g][1]]]
  <2>1. g \in 1..Len(rows) /\ Latest(ps, i + 1, e.key, pos[rows[g][1]])
    BY <1>1, <1>3 DEF Opened
  <2> HIDE DEF e, g, rows, joins, new
  <2>2. rows[g] \in Seq(ToSet(ps)) /\ rows[g] # <<>>
    BY <1>2, <2>1
  <2>3. PICK row \in Seq(ToSet(ps)) : row = rows[g]
    BY <2>2
  <2>4. Head(row) = row[1] /\ 1 \in 1..Len(row)
    BY <2>2, <2>3
  <2>5. Head(rows[g]) = rows[g][1] /\ 1 \in 1..Len(rows[g])
    BY <2>3, <2>4
  <2> QED BY <1>2, <2>1, <2>5
<1>4. CASE joins
  <2>1. new = [st EXCEPT !.groups[g] = <<e>> \o @]
    BY <1>4 DEF Grow
  <2>2. new = [groups |-> Fronted(rows, g, e), open |-> st.open]
    BY <1>1, <2>1 DEF Fronted
  <2>3. Rowed(ps, pos, i, Fronted(rows, g, e))
    <3>1. g \in 1..Len(rows) /\ Decoded(ps[i]) /\ Near(ps[i], ps[pos[rows[g][1]]].at)
      BY <1>3, <1>4
    <3>2. Latest(ps, i + 1, ps[i].key, pos[rows[g][1]])
      BY <1>3, <1>4
    <3> HIDE DEF rows, g
    <3>3. Rowed(ps, pos, i, Fronted(rows, g, ps[i]))
      BY <1>1, <3>1, <3>2, JoinRowed
    <3> QED BY <3>3
  <2>4. Opened(ps, pos, i, Fronted(rows, g, e), st.open)
    <3> HIDE DEF rows
    <3> QED BY <1>1, <1>4, JoinOpened
  <2>5. /\ new.groups = Fronted(rows, g, e) /\ new.open = st.open
        /\ new = [groups |-> new.groups, open |-> new.open]
    BY <2>2
  <2> QED BY <2>3, <2>4, <2>5 DEF Grouped
<1>5. CASE ~joins
  <2>1. new = [groups |-> Append(rows, <<e>>), open |-> OpenWith(st.open, e, Len(rows))]
    BY <1>5 DEF Grow, OpenWith
  <2>2. ASSUME Decoded(e), NEW p, Latest(ps, i + 1, e.key, p) PROVE ~Near(e, ps[p].at)
    <3>1. p \in i + 1..Len(ps) /\ ps[p].key = e.key
      BY <2>2 DEF Latest
    <3>2. e.key \in DOMAIN st.open
      BY <1>1, <2>2, <3>1 DEF Opened, Decoded
    <3> DEFINE q == pos[rows[g][1]]
    <3>3. Latest(ps, i + 1, e.key, q) /\ Head(rows[g]) = ps[q]
      BY <1>3, <3>2
    <3> HIDE DEF q
    <3>4. p = q
      BY <1>2, <2>2, <3>3 DEF Latest
    <3> QED BY <1>5, <2>2, <3>2, <3>3, <3>4
  <2>3. \A j \in i + 1..Len(ps) : ~SameTransmission(ps, i, j)
    BY <1>2, <2>2, BeginsTransmission
  <2>4. Rowed(ps, pos, i, Append(rows, <<e>>))
    <3> HIDE DEF rows
    <3> QED BY <1>1, <2>3, BeginRowed
  <2>5. Opened(ps, pos, i, Append(rows, <<e>>), OpenWith(st.open, e, Len(rows)))
    <3> HIDE DEF rows
    <3> QED BY <1>1, BeginOpened
  <2>6. /\ new.groups = Append(rows, <<e>>) /\ new.open = OpenWith(st.open, e, Len(rows))
        /\ new = [groups |-> new.groups, open |-> new.open]
    BY <2>1
  <2>7. new.open = [k \in DOMAIN new.open |-> new.open[k]]
    BY <2>6 DEF OpenWith
  <2> QED BY <2>4, <2>5, <2>6, <2>7 DEF Grouped
<1> QED BY <1>4, <1>5

\* The states of the loop over the entries, from the oldest on.
StatesOf(f, n, ps) ==
  f = [m \in 0..n |-> IF m = 0 THEN [groups |-> <<>>, open |-> [k \in {} |-> 0]]
                      ELSE Grow(f[m - 1], ps[Len(ps) + 1 - m])]

LEMMA StatesExist ==
  ASSUME NEW n \in Nat, NEW ps
  PROVE  \E f : StatesOf(f, n, ps)
<1> DEFINE Z == [groups |-> <<>>, open |-> [k \in {} |-> 0]]
           G(s, m) == Grow(s, ps[Len(ps) + 1 - m])
           Is(f, m) == f = [l \in 0..m |-> IF l = 0 THEN Z ELSE G(f[l - 1], l)]
           T == {k \in Nat : ~\E f : Is(f, k)}
<1>0. \A f, m : StatesOf(f, m, ps) <=> Is(f, m)
  BY DEF StatesOf
<1> HIDE DEF Z, G
<1>1. SUFFICES ASSUME T # {} PROVE FALSE
  BY <1>0
<1>2. PICK k \in T : \A i \in T : k <= i
  <2>1. T \in SUBSET Nat
    OBVIOUS
  <2> HIDE DEF T
  <2> QED BY <1>1, <2>1, HasMin
<1>3. CASE k = 0
  <2> DEFINE f == [m \in 0..0 |-> Z]
  <2>1. Is(f, 0)
    OBVIOUS
  <2> QED BY <1>3, <2>1
<1>4. CASE k # 0
  <2>1. k - 1 \in Nat /\ k \in Nat /\ k - 1 \notin T
    BY <1>2, <1>4
  <2>2. PICK f : Is(f, k - 1)
    BY <2>1
  <2>3. \A m \in 0..k - 1 : f[m] = IF m = 0 THEN Z ELSE G(f[m - 1], m)
    BY <2>2
  <2> DEFINE g == [m \in 0..k |-> IF m = k THEN G(f[k - 1], k) ELSE f[m]]
  <2>4. ASSUME NEW m \in 0..k PROVE g[m] = IF m = 0 THEN Z ELSE G(g[m - 1], m)
    <3>1. CASE m = k
      <4>1. g[m] = G(f[k - 1], k) /\ g[m - 1] = f[k - 1]
        BY <2>1, <3>1
      <4> QED BY <1>4, <3>1, <4>1
    <3>2. CASE m # k
      <4>1. m \in 0..k - 1 /\ g[m] = f[m]
        BY <2>1, <3>2
      <4>2. m # 0 => g[m - 1] = f[m - 1]
        BY <2>1, <3>2
      <4> QED BY <2>3, <4>1, <4>2
    <3> QED BY <3>1, <3>2
  <2>5. g = [m \in 0..k |-> g[m]]
    OBVIOUS
  <2> HIDE DEF g
  <2>6. Is(g, k)
    BY <2>4, <2>5
  <2> QED BY <1>2, <2>6
<1> QED BY <1>3, <1>4

LEMMA LoopGroups ==
  ASSUME NEW ps, NEW pos, Places(ps, pos), NEW f, StatesOf(f, Len(ps), ps)
  PROVE  Grouped(ps, pos, 1, f[Len(ps)])
<1> DEFINE N == Len(ps)
           Good(m) == Grouped(ps, pos, N + 1 - m, f[m])
           T == {m \in 0..N : ~Good(m)}
<1>1. N \in Nat
  BY DEF Places
<1>2. \A m \in 0..N : f[m] = IF m = 0 THEN [groups |-> <<>>, open |-> [k \in {} |-> 0]]
                             ELSE Grow(f[m - 1], ps[N + 1 - m])
  BY DEF StatesOf
<1>3. Good(0)
  <2> DEFINE st == [groups |-> <<>>, open |-> [k \in {} |-> 0]]
  <2>1. f[0] = st
    BY <1>1, <1>2
  <2>2. /\ st = [groups |-> st.groups, open |-> st.open] /\ st.groups = <<>>
        /\ st.open = [k \in DOMAIN st.open |-> st.open[k]] /\ DOMAIN st.open = {}
    OBVIOUS
  <2>3. N + 1..N = {} /\ Len(<<>>) = 0 /\ <<>> \in Seq(Seq(ToSet(ps)))
    BY <1>1
  <2>4. Rowed(ps, pos, N + 1, <<>>)
    BY <2>3 DEF Rowed
  <2>5. Opened(ps, pos, N + 1, <<>>, st.open)
    BY <2>2, <2>3 DEF Opened
  <2> HIDE DEF st
  <2>6. Grouped(ps, pos, N + 1, st)
    BY <2>2, <2>4, <2>5 DEF Grouped
  <2> QED BY <1>1, <2>1, <2>6
<1>4. ASSUME NEW m \in 0..N, m # 0, Good(m - 1) PROVE Good(m)
  <2> DEFINE i == N + 1 - m
  <2>1. i \in 1..Len(ps) /\ N + 1 - (m - 1) = i + 1
    BY <1>1, <1>4
  <2>2. f[m] = Grow(f[m - 1], ps[i])
    BY <1>2, <1>4
  <2>3. Grouped(ps, pos, i + 1, f[m - 1])
    BY <1>4, <2>1
  <2> HIDE DEF i
  <2>4. Grouped(ps, pos, i, Grow(f[m - 1], ps[i]))
    BY <2>1, <2>3, GrowGroups
  <2> QED BY <2>2, <2>4 DEF i
<1>5. T = {}
  <2> SUFFICES ASSUME T # {} PROVE FALSE
    OBVIOUS
  <2>1. T \in SUBSET Nat
    BY <1>1
  <2> HIDE DEF Good
  <2>2. PICK m \in T : \A j \in T : m <= j
    <3> HIDE DEF T
    <3> QED BY <2>1, HasMin
  <2>3. m \in 0..N /\ ~Good(m) /\ m # 0
    BY <1>3
  <2>4. m - 1 \in 0..N /\ m - 1 \notin T
    BY <1>1, <2>2, <2>3
  <2> QED BY <1>4, <2>3, <2>4
<1>6. Good(N)
  <2> HIDE DEF Good
  <2> QED BY <1>1, <1>5
<1> QED BY <1>1, <1>6

LEMMA RowedIsRight ==
  ASSUME NEW ps, NEW pos, Places(ps, pos), NEW rows, Rowed(ps, pos, 1, rows)
  PROVE  GroupedRight(ps, Reverse(rows))
<1> DEFINE n == Len(rows)
           R == Reverse(rows)
           r(g) == (n - g) + 1
<1>1. Len(ps) \in Nat /\ n \in Nat /\ \A g \in 1..n : Len(rows[g]) \in Nat /\ rows[g] # <<>>
                                         /\ 1 \in 1..Len(rows[g]) /\ DOMAIN rows[g] = 1..Len(rows[g])
  <2>1. rows \in Seq(Seq(ToSet(ps))) /\ \A g \in 1..n : rows[g] # <<>>
    BY DEF Rowed
  <2> QED BY <2>1 DEF Places
<1>2. /\ \A g \in 1..n : \A m \in 1..Len(rows[g]) :
           pos[rows[g][m]] \in 1..Len(ps) /\ rows[g][m] = ps[pos[rows[g][m]]]
      /\ \A g \in 1..n : \A m, l \in 1..Len(rows[g]) :
           m < l => pos[rows[g][m]] < pos[rows[g][l]]
      /\ \A i \in 1..Len(ps) : \E g \in 1..n : \E m \in 1..Len(rows[g]) : rows[g][m] = ps[i]
      /\ \A g, h \in 1..n : \A m \in 1..Len(rows[g]), l \in 1..Len(rows[h]) :
           SameTransmission(ps, pos[rows[g][m]], pos[rows[h][l]]) <=> g = h
  BY DEF Rowed
<1>3. /\ Len(R) = n /\ \A g \in 1..n : R[g] = rows[r(g)] /\ r(g) \in 1..n /\ r(r(g)) = g
  <2>1. R = [g \in 1..n |-> rows[r(g)]]
    BY DEF Reverse
  <2>2. Len(R) = n
    BY <1>1, <2>1
  <2>3. \A g \in 1..n : r(g) \in 1..n /\ r(r(g)) = g
    BY <1>1
  <2> QED BY <2>1, <2>2, <2>3
<1>4. \A i \in 1..Len(ps) : pos[ps[i]] = i
  BY DEF Places
<1> HIDE DEF n, R, r
<1>w. \A g \in 1..n : \A m \in 1..Len(rows[g]) :
        pos[rows[g][m]] \in 1..Len(ps) /\ rows[g][m] = ps[pos[rows[g][m]]]
  BY <1>2
<1>s. \A g, h \in 1..n : \A m \in 1..Len(rows[g]), l \in 1..Len(rows[h]) :
        SameTransmission(ps, pos[rows[g][m]], pos[rows[h][l]]) <=> g = h
  BY <1>2
<1>5. ASSUME NEW g \in 1..n, NEW m \in 1..Len(rows[g])
      PROVE  ToSet(rows[g]) = Transmission(ps, pos[rows[g][m]])
  <2> DEFINE i == pos[rows[g][m]]
  <2>1. i \in 1..Len(ps)
    BY <1>2
  <2>2. ASSUME NEW l \in 1..Len(rows[g]) PROVE rows[g][l] \in Transmission(ps, i)
    <3> DEFINE j == pos[rows[g][l]]
    <3>1. j \in 1..Len(ps) /\ rows[g][l] = ps[j]
      BY <1>w
    <3>2. SameTransmission(ps, i, j)
      BY <1>s
    <3> HIDE DEF i, j
    <3> QED BY <3>1, <3>2 DEF Transmission
  <2>3. ASSUME NEW j \in 1..Len(ps), SameTransmission(ps, i, j) PROVE ps[j] \in ToSet(rows[g])
    <3>1. PICK h \in 1..n : \E l \in 1..Len(rows[h]) : rows[h][l] = ps[j]
      BY <1>2
    <3>2. PICK l \in 1..Len(rows[h]) : rows[h][l] = ps[j]
      BY <3>1
    <3>3. pos[rows[h][l]] = j
      BY <1>4, <3>2
    <3>4. SameTransmission(ps, pos[rows[g][m]], pos[rows[h][l]])
      BY <2>3, <3>3
    <3>5. g = h
      BY <1>2, <3>4
    <3> QED BY <1>1, <3>2, <3>5 DEF ToSet
  <2>4. \A x \in ToSet(rows[g]) : \E l \in 1..Len(rows[g]) : x = rows[g][l]
    BY <1>1 DEF ToSet
  <2>5. \A x \in Transmission(ps, i) : \E j \in 1..Len(ps) : SameTransmission(ps, i, j) /\ x = ps[j]
    BY DEF Transmission
  <2> HIDE DEF i
  <2>6. ToSet(rows[g]) \subseteq Transmission(ps, i)
    BY <2>2, <2>4
  <2>7. Transmission(ps, i) \subseteq ToSet(rows[g])
    BY <2>3, <2>5
  <2>8. ToSet(rows[g]) = Transmission(ps, i)
    BY <2>6, <2>7
  <2> QED BY <2>8 DEF i
<1>6. {ToSet(R[g]) : g \in 1..Len(R)} = {Transmission(ps, i) : i \in 1..Len(ps)}
  <2>1. ASSUME NEW g \in 1..Len(R) PROVE \E i \in 1..Len(ps) : ToSet(R[g]) = Transmission(ps, i)
    <3>1. R[g] = rows[r(g)] /\ r(g) \in 1..n
      BY <1>3
    <3>2. 1 \in 1..Len(rows[r(g)]) /\ pos[rows[r(g)][1]] \in 1..Len(ps)
      BY <1>1, <1>2, <3>1
    <3>3. ToSet(rows[r(g)]) = Transmission(ps, pos[rows[r(g)][1]])
      BY <1>5, <3>1, <3>2
    <3> QED BY <3>1, <3>2, <3>3
  <2>2. ASSUME NEW i \in 1..Len(ps) PROVE \E g \in 1..Len(R) : ToSet(R[g]) = Transmission(ps, i)
    <3>1. PICK h \in 1..n : \E m \in 1..Len(rows[h]) : rows[h][m] = ps[i]
      BY <1>2
    <3>2. PICK m \in 1..Len(rows[h]) : rows[h][m] = ps[i]
      BY <3>1
    <3>3. pos[rows[h][m]] = i
      BY <1>4, <3>2
    <3>4. ToSet(rows[h]) = Transmission(ps, i)
      BY <1>5, <3>3
    <3>5. r(h) \in 1..Len(R) /\ R[r(h)] = rows[h]
      BY <1>3
    <3> QED BY <3>4, <3>5
  <2> QED BY <2>1, <2>2
<1>7. ASSUME NEW g \in 1..Len(R), NEW h \in 1..Len(R),
             NEW m \in 1..Len(R[g]), NEW l \in 1..Len(R[h]), R[g][m] = R[h][l]
      PROVE  g = h /\ m = l
  <2> DEFINE a == r(g)
             b == r(h)
  <2>1. a \in 1..n /\ b \in 1..n /\ R[g] = rows[a] /\ R[h] = rows[b] /\ r(a) = g /\ r(b) = h
    BY <1>3
  <2> HIDE DEF a, b
  <2>2. m \in 1..Len(rows[a]) /\ l \in 1..Len(rows[b]) /\ rows[a][m] = rows[b][l]
    BY <1>7, <2>1
  <2>3. SameTransmission(ps, pos[rows[a][m]], pos[rows[b][l]])
    BY <2>2 DEF SameTransmission
  <2>4. a = b
    BY <1>2, <2>1, <2>2, <2>3
  <2>5. m \in Nat /\ l \in Nat /\ pos[rows[a][m]] \in Nat /\ pos[rows[a][m]] = pos[rows[a][l]]
    BY <1>2, <2>1, <2>2, <2>4
  <2>6. ~(m < l) /\ ~(l < m)
    BY <1>2, <2>1, <2>2, <2>4, <2>5
  <2> QED BY <2>1, <2>4, <2>5, <2>6
<1>8. ASSUME NEW g \in 1..Len(R), NEW m \in 1..Len(R[g]) - 1
      PROVE  \E i, j \in 1..Len(ps) : i < j /\ ps[i] = R[g][m] /\ ps[j] = R[g][m + 1]
  <2> DEFINE a == r(g)
  <2>1. a \in 1..n /\ R[g] = rows[a]
    BY <1>3
  <2> HIDE DEF a
  <2>2. m \in 1..Len(rows[a]) /\ m + 1 \in 1..Len(rows[a]) /\ m < m + 1
    BY <1>1, <2>1
  <2>3. /\ pos[rows[a][m]] \in 1..Len(ps) /\ rows[a][m] = ps[pos[rows[a][m]]]
        /\ pos[rows[a][m + 1]] \in 1..Len(ps) /\ rows[a][m + 1] = ps[pos[rows[a][m + 1]]]
        /\ pos[rows[a][m]] < pos[rows[a][m + 1]]
    BY <1>2, <2>1, <2>2
  <2> QED BY <2>1, <2>3
<1>9. GroupedRight(ps, R)
  BY <1>6, <1>7, <1>8 DEF GroupedRight
<1> QED BY <1>9 DEF R

LEMMA GroupsRight ==
  ASSUME NEW ps, Len(ps) \in Nat, \A i, j \in 1..Len(ps) : ps[i] = ps[j] => i = j
  PROVE  GroupedRight(ps, GroupPackets(ps))
<1> DEFINE pos == [e \in {ps[i] : i \in 1..Len(ps)} |-> CHOOSE i \in 1..Len(ps) : ps[i] = e]
           state == CHOOSE f : f = [n \in 0..Len(ps) |->
                      IF n = 0 THEN [groups |-> <<>>, open |-> [k \in {} |-> 0]]
                      ELSE Grow(f[n - 1], ps[Len(ps) + 1 - n])]
<1>1. Places(ps, pos)
  BY DEF Places
<1>2. StatesOf(state, Len(ps), ps)
  BY StatesExist DEF StatesOf
<1>3. GroupPackets(ps) = Reverse(state[Len(ps)].groups)
  BY DEF GroupPackets
<1> HIDE DEF pos, state
<1>4. Rowed(ps, pos, 1, state[Len(ps)].groups)
  BY <1>1, <1>2, LoopGroups DEF Grouped
<1> QED BY <1>1, <1>3, <1>4, RowedIsRight

\* The rows of the packet log are the transmissions of the visible list, in spite of
\* receptions in between and of clocks set back (packet_group.rs group_packets): of two
\* entries of a list, live or frozen, one is newer or they came differently.
THEOREM RowsAreTransmissions == Spec => []GroupsAreTransmissions
<1>1. Init => LogInv
  BY LogInit
<1>2. LogInv /\ [Next]_vars => LogInv'
  BY LogStep
<1>3. LogInv => GroupsAreTransmissions
  <2> SUFFICES ASSUME LogInv PROVE GroupsAreTransmissions
    OBVIOUS
  <2>1. PICK ps : ps = VisiblePackets
    OBVIOUS
  <2>2. Listing(ps)
    BY <2>1 DEF LogInv, ListInv, LockInv, VisiblePackets
  <2>3. Len(ps) \in Nat /\ \A i \in 1..Len(ps) : ps[i].id \in Nat
    BY <2>2, EntryFacts DEF Listing
  <2>4. ASSUME NEW i \in 1..Len(ps), NEW j \in 1..Len(ps), ps[i] = ps[j] PROVE i = j
    <3>1. ~(i < j) /\ ~(j < i)
      <4>1. \A g, h \in 1..Len(ps) : g < h => ps[g] # ps[h]
        <5>1. ASSUME NEW g \in 1..Len(ps), NEW h \in 1..Len(ps), g < h, ps[g] = ps[h] PROVE FALSE
          <6>1. ps[g].id > ps[g].id
            BY <2>2, <5>1 DEF Listing
          <6> QED BY <2>3, <6>1
        <5> QED BY <5>1
      <4> QED BY <2>4, <4>1
    <3> QED BY <3>1
  <2>5. GroupedRight(ps, GroupPackets(ps))
    BY <2>3, <2>4, GroupsRight
  <2> QED BY <2>1, <2>5 DEF GroupsAreTransmissions, Groups
<1> QED BY <1>1, <1>2, <1>3, PTL DEF Spec
=============================================================================
