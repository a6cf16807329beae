------------------------------- MODULE Wizard -------------------------------
(***************************************************************************)
(* The configuration wizard (cli/wizard.rs, cli/main.rs): the chain of the *)
(* first run, the menu of a later one, the editor of the region tree with  *)
(* its keys, the list of brokers, and the file it writes at the end, while *)
(* the daemon may save its own configuration into the same file.           *)
(***************************************************************************)
EXTENDS Integers, Sequences, FiniteSets, SequencesExt

CONSTANTS Names,        \* what the user may call a region or a broker
          Blank,        \* the empty name
          Repeaters,
          Files,        \* what config.toml may hold at the start
          MaxRegions,   \* bound: rows of the editor
          MaxDepth,     \* bound: how deep a row is made (reordering has no limit)
          MaxBrokers,   \* bound: brokers in the list
          MaxSaves,     \* bound: saves of the daemon
          None,         \* an Option that is None, a file that is absent
          Unreadable    \* a file that cannot be parsed

ASSUME WizardAssumption ==
  /\ Blank \notin Names /\ {MaxRegions, MaxDepth} \subseteq Nat /\ MaxBrokers \in Nat /\ MaxSaves \in Nat

\* config.toml, by the fields the wizard tells apart; connection values are what was
\* in the file, found by a scan, typed or the default of their kind.
Fields == {"label", "regions", "connection", "observer", "brokers", "managed", "other", "capacity"}
Readable == Files \ {None, Unreadable}
RegionConfig == [name : Names \cup {Blank}, parent : Names \cup {Blank, None}]
ConnectionConfig == [kind : {"tcp", "serial", "ble"},
                     value : {"typed", "found", "default"} \cup {c.connection.value : c \in Readable}]

\* Nothing is both a name or a connection and the absence of one.
ASSUME NoneAssumption == None \notin Names \cup {Blank} \cup ConnectionConfig

\* What can be read is a configuration: always with a connection.
ASSUME FilesAssumption ==
  \A c \in Readable :
    /\ c = [field \in Fields |-> c[field]]
    /\ c.regions \in Seq(RegionConfig) /\ Len(c.regions) <= MaxRegions
    /\ c.connection \in ConnectionConfig

VARIABLES
  file,      \* config.toml
  daemon,    \* the configuration in the daemon's memory, or None: not running
  at,        \* where the wizard is
  existing,  \* the configuration it was started with, or None
  work,      \* its working state
  outline, selected, typing,   \* the region editor
  visited,   \* history: sections answered
  saves, agreed  \* the daemon's saves; history: the wizard began from what the daemon knew

editor == <<outline, selected, typing>>
wizardVars == <<file, daemon, at, existing, work, editor, visited, saves, agreed>>

-----------------------------------------------------------------------------
(* Regions and outlines.                                                   *)

\* A set of positions up to n, in their order.
Ascending(S, n) ==
  LET first[i \in 0..n] == IF i = 0 THEN <<>>
                           ELSE IF i \in S THEN Append(first[i - 1], i) ELSE first[i - 1]
  IN first[n]

ChildrenOf(regions, name) ==
  Ascending({i \in DOMAIN regions : regions[i].parent = name}, Len(regions))

\* A region whose parent is not configured is a root.
IsRoot(regions, i) ==
  \A j \in DOMAIN regions : regions[j].name # regions[i].parent

Roots(regions) == Ascending({i \in DOMAIN regions : IsRoot(regions, i)}, Len(regions))

At(depth, positions) == [k \in DOMAIN positions |-> [region |-> positions[k], depth |-> depth]]

\* One call of push_with_children: to visit are the regions whose calls are still to
\* come, the next one first.  A name that is placed already is passed over.
PushWithChildren(regions, state) ==
  LET next == Head(state.visit)
      name == regions[next.region].name
  IN IF state.visit = <<>> THEN state
     ELSE IF \E k \in DOMAIN state.out : state.out[k].name = name
     THEN [state EXCEPT !.visit = Tail(@)]
     ELSE [visit |-> At(next.depth + 1, ChildrenOf(regions, name)) \o Tail(state.visit),
           out   |-> Append(state.out, [name |-> name, depth |-> next.depth])]

\* No region is visited twice: as many calls as there are regions come to the end.
FlattenRegionTree(regions) ==
  LET state[n \in 0..Len(regions)] ==
        IF n = 0 THEN [visit |-> At(0, Roots(regions)), out |-> <<>>]
        ELSE PushWithChildren(regions, state[n - 1])
  IN state[Len(regions)].out

OutlineFromRegions(regions) == FlattenRegionTree(regions)

\* The first of the rows above, instead of the nearest.
FarthestParent(o, i) ==
  LET above == {j \in 1..(i - 1) : o[j].depth = o[i].depth - 1}
  IN IF above = {} THEN None ELSE o[CHOOSE j \in above : \A k \in above : k >= j].name

\* The nearest row above that is one level shallower.
ParentIn(o, i) ==
  LET above == {j \in 1..(i - 1) : o[j].depth = o[i].depth - 1}
  IN IF above = {} THEN None ELSE o[CHOOSE j \in above : \A k \in above : k <= j].name

RegionsFromOutline(o) == [i \in DOMAIN o |-> [name |-> o[i].name, parent |-> ParentIn(o, i)]]

ClampIndent(o, i, delta) ==
  IF delta > 0
  THEN LET limit == IF i = 1 THEN 0 ELSE o[i - 1].depth + 1
       IN IF o[i].depth + 1 < limit THEN o[i].depth + 1 ELSE limit
  ELSE IF o[i].depth = 0 THEN 0 ELSE o[i].depth - 1

\* The rows below row i that belong to it.
Subtree(o, i) ==
  {j \in (i + 1)..Len(o) : \A k \in (i + 1)..j : o[k].depth > o[i].depth}

\* Only the children move up.
PromoteChildren(o, i) ==
  RemoveAt([j \in DOMAIN o |->
              IF j \in Subtree(o, i) /\ o[j].depth = o[i].depth + 1
              THEN [o[j] EXCEPT !.depth = @ - 1] ELSE o[j]], i)

DeleteOutlineEntry(o, i) ==
  RemoveAt([j \in DOMAIN o |->
              IF j \in Subtree(o, i) THEN [o[j] EXCEPT !.depth = @ - 1] ELSE o[j]], i)

SwapRows(o, i, j) == [o EXCEPT ![i] = o[j], ![j] = o[i]]

-----------------------------------------------------------------------------
(* The wizard.                                                             *)

\* The working state of a wizard that has no configuration to start from.
Defaults ==
  [label |-> "random", regions |-> <<>>, connection |-> None, observer |-> TRUE,
   brokers |-> <<>>, managed |-> {}, other |-> "default", capacity |-> "default"]

WizardInit ==
  /\ file \in Files /\ daemon \in {None, file} \ {Unreadable}
  /\ at = "off" /\ existing = None /\ work = Defaults
  /\ outline = <<>> /\ selected = 1 /\ typing = None
  /\ visited = {} /\ saves = 0 /\ agreed = FALSE

\* Two configurations, where there are two, differ in the managed repeaters at most.
Agree(c, d) ==
  c # None /\ d # None => \A field \in Fields \ {"managed"} : c[field] = d[field]

\* `setup` takes a file it cannot read for none; every other command starts the
\* wizard only when there is no file.
StartWizard ==
  /\ at = "off"
  /\ existing' = IF file \in {None, Unreadable} THEN None ELSE file
  /\ work' = IF existing' = None THEN Defaults ELSE existing'
  /\ at' = IF existing' = None THEN "general" ELSE "menu"
  /\ visited' = {} /\ agreed' = Agree(existing', daemon)
  /\ UNCHANGED <<file, daemon, editor, saves>>

\* The first run goes through the sections, later ones return to the menu.
After(section) ==
  CASE existing # None -> "menu"
    [] existing = None /\ section = "general"    -> "connection"
    [] existing = None /\ section = "connection" -> "mqtt"
    [] existing = None /\ section = "mqtt"       -> "summary"

Choose ==
  /\ at = "menu"
  /\ at' \in {"general", "connection", "mqtt", "summary"}
  /\ UNCHANGED <<file, daemon, existing, work, editor, visited, saves, agreed>>

\* run_general_section, up to the editor
AskGeneral ==
  /\ at = "general"
  /\ \E label \in {work.label, "typed"} : work' = [work EXCEPT !.label = label]
  /\ at' = "regions"
  /\ outline' = OutlineFromRegions(work.regions) /\ selected' = 1 /\ typing' = None
  /\ visited' = visited \cup {"label"}
  /\ UNCHANGED <<file, daemon, existing, saves, agreed>>

\* What Enter answers: the value there was, if the kind of connection was the same.
Offered(old, kind) ==
  IF old # None THEN IF old.kind = kind THEN {old.value} ELSE {"default"} ELSE {"default"}

Via(kind, values) == [kind : {kind}, value : values]

\* A list of what was found replaces the old value; one can type in any case.
AskTcp(old) == Via("tcp", Offered(old, "tcp") \cup {"typed"})
AskSerial(old, found) ==
  Via("serial", {"typed"} \cup IF found = {} THEN Offered(old, "serial") ELSE found \cup {"default"})
AskBle(old, found) ==
  Via("ble", {"typed"} \cup IF found = {} THEN Offered(old, "ble") ELSE found)

\* The ports plugged in, or the devices a scan found: none also if it failed.
Found == {{}, {"found"}}

\* run_connection_section
AskConnection ==
  /\ at = "connection"
  /\ \E found \in Found, observer \in BOOLEAN :
     \E connection \in AskSerial(work.connection, found) \cup AskTcp(work.connection)
                       \cup AskBle(work.connection, found) :
       work' = [work EXCEPT !.connection = connection, !.observer = observer]
  /\ at' = After("connection")
  /\ visited' = visited \cup {"connection", "observer"}
  /\ UNCHANGED <<file, daemon, existing, editor, saves, agreed>>

\* What ask_mqtt_brokers appends: a password only for a user name, and no user
\* name for the other methods; a client key only for a client certificate.
Broker ==
  [name : Names, auth : {"passwd"}, user : BOOLEAN, password : BOOLEAN]
  \cup [name : Names, auth : {"device", "none"}, user : {FALSE}, password : {FALSE}]

AddBroker ==
  /\ at = "mqtt" /\ Len(work.brokers) < MaxBrokers
  /\ \E b \in Broker :
       /\ b.password => b.user
       /\ work' = [work EXCEPT !.brokers = Append(@, b)]
  /\ visited' = visited \cup {"brokers"}
  /\ UNCHANGED <<file, daemon, at, existing, editor, saves, agreed>>

BrokersDone ==
  /\ at = "mqtt"
  /\ at' = After("mqtt")
  /\ UNCHANGED <<file, daemon, existing, work, editor, visited, saves, agreed>>

\* What is not asked is reset.
AssembleAfresh(c) == [c EXCEPT !.capacity = "default", !.other = "default"]

\* The capacity of the packet log is not carried over.
Assemble(c) == [c EXCEPT !.capacity = "default"]

Closed ==
  /\ at' = "off" /\ existing' = None /\ work' = Defaults /\ visited' = {} /\ agreed' = FALSE
  /\ outline' = <<>> /\ selected' = 1 /\ typing' = None

Save ==
  /\ at = "summary"
  /\ file' = Assemble(work)
  /\ Closed
  /\ UNCHANGED <<daemon, saves>>

\* The last question declined, or the wizard interrupted at any prompt.
Leave ==
  /\ at # "off"
  /\ Closed
  /\ UNCHANGED <<file, daemon, saves>>

-----------------------------------------------------------------------------
(* The region editor, key by key.                                          *)

Rows == DOMAIN outline
Keep == UNCHANGED <<file, daemon, at, existing, work, visited, saves, agreed>>
Ready == at = "regions" /\ typing = None

Up   == /\ Ready /\ selected' = IF selected = 1 THEN 1 ELSE selected - 1
        /\ UNCHANGED <<outline, typing>> /\ Keep
Down == /\ Ready /\ selected + 1 \in Rows /\ selected' = selected + 1
        /\ UNCHANGED <<outline, typing>> /\ Keep

Indent(delta) ==
  /\ Ready /\ outline # <<>> /\ ClampIndent(outline, selected, delta) <= MaxDepth
  /\ outline' = [outline EXCEPT ![selected].depth = ClampIndent(outline, selected, delta)]
  /\ UNCHANGED <<selected, typing>> /\ Keep

\* j and k
Reorder(by) ==
  /\ Ready /\ selected + by \in Rows
  /\ outline' = SwapRows(outline, selected, selected + by)
  /\ selected' = selected + by
  /\ UNCHANGED typing /\ Keep

\* A blank row below the selected one, at its depth.
Add ==
  /\ Ready /\ Len(outline) < MaxRegions
  /\ LET depth == IF outline = <<>> THEN 0 ELSE outline[selected].depth
         row   == IF outline = <<>> THEN 1 ELSE selected + 1
     IN /\ outline' = InsertAt(outline, row, [name |-> Blank, depth |-> depth])
        /\ selected' = row
  /\ typing' = "add" /\ Keep

Rename ==
  /\ Ready /\ outline # <<>>
  /\ typing' = "rename"
  /\ UNCHANGED <<outline, selected>> /\ Keep

\* edit_outline_entry_inline and what its caller makes of it: nothing typed, or
\* Esc, takes a new row away and leaves an old one its name.
Type ==
  /\ at = "regions" /\ typing # None
  /\ \E name \in Names \cup {Blank} :
       IF name # Blank
       THEN outline' = [outline EXCEPT ![selected].name = name] /\ UNCHANGED selected
       ELSE IF typing = "add"
       THEN /\ outline' = RemoveAt(outline, selected)
            /\ selected' = IF selected = 1 THEN 1 ELSE selected - 1
       ELSE UNCHANGED <<outline, selected>>
  /\ typing' = None /\ Keep

\* The cursor stays on the row that was the last.
DeleteLeavingCursor ==
  /\ Ready /\ outline # <<>>
  /\ outline' = DeleteOutlineEntry(outline, selected)
  /\ UNCHANGED <<selected, typing>> /\ Keep

Delete ==
  /\ Ready /\ outline # <<>>
  /\ outline' = DeleteOutlineEntry(outline, selected)
  /\ selected' = IF selected <= Len(outline') THEN selected
                 ELSE IF outline' = <<>> THEN 1 ELSE Len(outline')
  /\ UNCHANGED typing /\ Keep

\* Enter takes the outline, Esc what was there before.
CloseEditor ==
  /\ Ready
  /\ \/ work' = [work EXCEPT !.regions = RegionsFromOutline(outline)] /\ visited' = visited \cup {"regions"}
     \/ UNCHANGED <<work, visited>>
  /\ at' = After("general")
  /\ outline' = <<>> /\ selected' = 1 /\ typing' = None
  /\ UNCHANGED <<file, daemon, existing, saves, agreed>>

-----------------------------------------------------------------------------
(* The daemon.                                                             *)

\* A repeater is managed or no longer: the configuration in memory is saved as a
\* whole (mesh_task.rs upsert_managed_repeater_config).
DaemonSaves(r) ==
  /\ daemon # None /\ saves < MaxSaves
  /\ daemon' = [daemon EXCEPT !.managed = IF r \in @ THEN @ \ {r} ELSE @ \cup {r}]
  /\ file' = daemon'
  /\ saves' = saves + 1
  /\ UNCHANGED <<at, existing, work, editor, visited, agreed>>

DaemonRestarts ==
  /\ file \notin {None, Unreadable}
  /\ daemon' = file
  /\ UNCHANGED <<file, at, existing, work, editor, visited, saves, agreed>>

WizardNext ==
  \/ StartWizard \/ Choose \/ AskGeneral \/ AskConnection \/ AddBroker \/ BrokersDone
  \/ Save \/ Leave
  \/ Up \/ Down \/ Indent(1) \/ Indent(-1) \/ Reorder(1) \/ Reorder(-1)
  \/ Add \/ Rename \/ Type \/ Delete \/ CloseEditor
  \/ \E r \in Repeaters : DaemonSaves(r)
  \/ DaemonRestarts

WizardSpec == WizardInit /\ [][WizardNext]_wizardVars

-----------------------------------------------------------------------------
(* Properties.                                                             *)

Distinct(o) == \A i, j \in DOMAIN o : i # j => o[i].name # o[j].name

\* No row is more than one level deeper than the one above it.
WellNested(o) ==
  \A i \in DOMAIN o : o[i].depth <= IF i = 1 THEN 0 ELSE o[i - 1].depth + 1

\* Types; the editor's index never leaves the outline, which it indexes with
\* every key, and the summary always has a connection to show (wizard.rs
\* edit_region_tree `outline[selected]`, run `connection.expect`).
WizardTypeOK ==
  /\ at \in {"off", "menu", "general", "regions", "connection", "mqtt", "summary"}
  /\ typing \in {None, "add", "rename"}
  /\ Len(outline) <= MaxRegions
  /\ selected = 1 \/ selected \in DOMAIN outline
  /\ typing # None => selected \in DOMAIN outline
  /\ at = "summary" => work.connection # None

\* What Enter saves is the tree on the screen: no name is lost, whatever keys
\* came before, even when two regions have one name; and as long as names are
\* distinct and no level is skipped, the saved tree read back is the outline row
\* by row (wizard.rs regions_from_outline, region.rs flatten_region_tree).
SavedAsShown ==
  Ready =>
    LET back == FlattenRegionTree(RegionsFromOutline(outline))
    IN /\ {back[i].name : i \in DOMAIN back} = {outline[i].name : i \in DOMAIN outline}
       /\ Distinct(outline) /\ WellNested(outline) => back = outline

ParentOf(o, name) == ParentIn(o, CHOOSE i \in DOMAIN o : o[i].name = name)

\* Deleting a region gives its children to its own parent and leaves every other
\* region where it is (wizard.rs delete_outline_entry).
DeletePromotes ==
  [][Delete /\ Distinct(outline) /\ WellNested(outline) =>
       LET gone == outline[selected].name
       IN \A i \in DOMAIN outline' :
            LET name == outline'[i].name
                was  == ParentOf(outline, name)
            IN ParentOf(outline', name) = IF was = gone THEN ParentOf(outline, gone) ELSE was
    ]_wizardVars

\* Saving writes every field the user was not asked about as it was when the wizard
\* began, but for the packet log's capacity.  What the daemon saved meanwhile is
\* lost by that in one field, the managed repeaters, as long as the daemon knew the
\* file the wizard began from: the others are still in the file as they were
\* (wizard.rs run, main.rs save_and_report, mesh_task.rs
\* upsert_managed_repeater_config).
SaveKeepsUnasked ==
  [][Save /\ existing # None =>
       \A field \in DOMAIN file' \ (visited \cup {"capacity"}) :
         /\ file'[field] = existing[field]
         /\ agreed /\ field # "managed" => file'[field] = file[field]
    ]_wizardVars
=============================================================================
