---------------------------- MODULE RepeaterCli ----------------------------
(***************************************************************************)
(* The repeater commands of the command line (cli/repeater.rs) next to a   *)
(* terminal UI that asks for details: both connections feed one mesh task, *)
(* and a detail request keeps it busy for longer than the command line is  *)
(* prepared to wait.  One command is run; other clients change tiers too.  *)
(***************************************************************************)
EXTENDS RepeaterDetail

CONSTANTS Heard,       \* discovered repeaters, whose full key is known
          Commands,    \* commands the user may run
          MaxChanges   \* bound: changes other clients make

\* How the user may type a public key.
KeyForms == {"lower", "upper"}

\* What the command line may end with.
Reports == {"success", "mismatch", "not found", "error", "timed out",
            "unknown", "cancelled", "already"}

ASSUME CliAssumption ==
  /\ Heard \subseteq Repeaters /\ MaxChanges \in Nat
  /\ None \notin Reports
  /\ Commands \subseteq
       [do : {"manage", "unmanage", "remove", "telemetry"}, on : Repeaters]
       \cup [do : {"add"}, on : Repeaters, manage : BOOLEAN, key : KeyForms]

VARIABLES
  onNode,   \* contacts the node really has
  tiers,    \* repeaters whose configured status makes them managed
  shown,    \* Snapshot.contacts: registered and managed contacts, all listed ones
  cli,      \* the process: where it is, its command, the snapshot it decided on
  handler,  \* its handler in the daemon
  report,   \* what it told the user, or None
  effect,   \* history: what the command came to in the mesh task
  changes,  \* changes other clients have made
  disturbed \* history: the snapshot may not show the command alone

cliVars == <<onNode, tiers, shown, cli, handler, report, effect, changes, disturbed>>
vars == <<detailVars, cliVars>>

View(contacts, managed) ==
  [listed |-> contacts \cup Heard, registered |-> contacts, managed |-> managed]

CliInit ==
  /\ Init
  /\ onNode = Registered /\ tiers \in SUBSET Registered /\ shown = View(Registered, tiers)
  /\ cli = [at |-> "start", cmd |-> None, seen |-> View({}, {})]
  /\ handler = "none" /\ report = None /\ effect = "none"
  /\ changes = 0 /\ disturbed = FALSE

KeepDetail == UNCHANGED <<sessions, strays, kept, readings, mesh, asking, screen, reply>>
KeepDaemon == UNCHANGED <<onNode, tiers, shown, effect, changes, disturbed>>

-----------------------------------------------------------------------------
(* The process.                                                            *)

\* connect_and_await_snapshot
CliConnect(cmd) ==
  /\ cli.at = "start"
  /\ cli' = [at |-> "deciding", cmd |-> cmd, seen |-> shown]
  /\ UNCHANGED <<detailVars, handler, report>> /\ KeepDaemon

\* What the command finds done already.
Already(cmd, seen) ==
  CASE cmd.do = "manage"   -> cmd.on \in seen.managed
    [] cmd.do = "unmanage" -> cmd.on \notin seen.managed
    [] cmd.do = "add"      -> /\ cmd.on \in seen.registered
                              /\ cmd.on \in seen.managed \/ ~cmd.manage
    [] OTHER -> FALSE

\* find_contact, the early returns, and remove's prompt.
Decided ==
  IF cli.cmd.do # "add" /\ cli.cmd.on \notin cli.seen.listed THEN {"unknown"}
  ELSE IF cli.cmd.do = "remove" THEN {"send", "cancelled"}
  ELSE IF Already(cli.cmd, cli.seen) THEN {"already"} ELSE {"send"}

Exit(what) ==
  /\ report' = what /\ handler' = "done"
  /\ cli' = [cli EXCEPT !.at = "gone", !.seen = View({}, {})]

\* What the handler makes of a command's message.
Forwarded(cmd) ==
  [kind |-> IF cmd.do = "telemetry" THEN "telemetry" ELSE "command", id |-> last + 1, on |-> cmd.on]

\* The command, and for all but telemetry a RequestSnapshot behind it.  Its
\* handler passes it on at once.
CliDecide ==
  /\ cli.at = "deciding"
  /\ \E d \in Decided :
       IF d = "send"
       THEN /\ last < MaxRequests
            /\ cli' = [cli EXCEPT !.at = "waiting"]
            /\ handler' = last + 1 /\ last' = last + 1
            /\ result' = Append(result, Blank("none"))
            /\ queue' = Append(queue, Forwarded(cli.cmd))
            /\ UNCHANGED report
       ELSE Exit(d) /\ UNCHANGED <<last, result, queue>>
  /\ UNCHANGED <<air, readings, mesh, reply, srv, toServer, toClient, updates, popup, cut>>
  /\ KeepDaemon

\* wait_for_outcome compares the prefix as it was typed with what the snapshot
\* has, which is lower case.
FindsContact(cmd) == cmd.on \in shown.listed /\ (cmd.do = "add" => cmd.key = "lower")

\* The match on what wait_for_outcome returns.
Verdict(cmd) ==
  LET found == FindsContact(cmd)
      registered == cmd.on \in shown.registered
      managed == cmd.on \in shown.managed
  IN CASE cmd.do = "remove"   -> IF found /\ registered THEN "mismatch" ELSE "success"
       [] cmd.do # "remove" /\ ~found -> "not found"
       [] cmd.do = "manage" /\ found   -> IF managed THEN "success" ELSE "mismatch"
       [] cmd.do = "unmanage" /\ found -> IF ~managed THEN "success" ELSE "mismatch"
       [] cmd.do = "add" /\ found -> IF registered /\ (managed \/ ~cmd.manage)
                                     THEN "success" ELSE "mismatch"

\* The outcome of the command is not looked at.
AnsweredWhatever ==
  /\ cli.at = "waiting" /\ reply # None /\ reply.id = handler
  /\ Exit(IF cli.cmd.do = "telemetry" THEN "success" ELSE Verdict(cli.cmd))
  /\ reply' = None
  /\ UNCHANGED <<air, readings, mesh, asking, screen>> /\ KeepDaemon

\* The handler has its reply: an error ends the command line, otherwise it goes
\* on to the RequestSnapshot.
Answered ==
  /\ cli.at = "waiting" /\ reply # None /\ reply.id = handler
  /\ Exit(IF ~reply.ok THEN "error"
          ELSE IF cli.cmd.do = "telemetry" THEN "success" ELSE Verdict(cli.cmd))
  /\ reply' = None
  /\ UNCHANGED <<air, readings, mesh, asking, screen>> /\ KeepDaemon

\* COMMAND_TIMEOUT and TELEMETRY_COMMAND_TIMEOUT; the command stays queued.
CliTimesOut ==
  /\ cli.at = "waiting" /\ reply = None
  /\ Exit("timed out")
  /\ UNCHANGED detailVars /\ KeepDaemon

-----------------------------------------------------------------------------
(* The mesh task, for commands other than those of RepeaterDetail.         *)

\* refresh_snapshot_contacts, from the node or, failing that, from the cache.
Refresh ==
  \E contacts \in {onNode', cached'} :
    /\ shown' = View(contacts, tiers')
    /\ disturbed' = (disturbed \/ contacts # onNode')

\* What the command does to the node and to the configuration.  The tier of a
\* repeater that is no contact needs its full key.
Effect(cmd) ==
  CASE cmd.do = "manage"   -> /\ cmd.on \in cached \cup Heard
                              /\ onNode' = IF cmd.on \in cached THEN onNode ELSE onNode \cup {cmd.on}
                              /\ tiers' = tiers \cup {cmd.on}
    [] cmd.do = "unmanage" -> UNCHANGED onNode /\ tiers' = tiers \ {cmd.on}
    [] cmd.do = "remove"   -> cmd.on \in cached /\ onNode' = onNode \ {cmd.on} /\ UNCHANGED tiers
    [] cmd.do = "add"      -> /\ onNode' = IF cmd.on \in cached THEN onNode ELSE onNode \cup {cmd.on}
                              /\ tiers' = IF cmd.manage THEN tiers \cup {cmd.on} ELSE tiers

\* It fails as a whole, or when the configuration is saved; then the snapshot is
\* not rebuilt.
PartEffect(cmd) ==
  \/ UNCHANGED <<onNode, tiers>>
  \/ /\ cmd.do \in {"manage", "unmanage", "add"} /\ Effect(cmd)

RunCommand ==
  /\ mesh.at = "idle" /\ queue # <<>> /\ Head(queue).kind = "command"
  /\ queue' = Tail(queue)
  /\ UNCHANGED cached
  /\ \/ Effect(cli.cmd) /\ Refresh /\ effect' = "ok"
     \/ PartEffect(cli.cmd) /\ effect' = "failed" /\ UNCHANGED <<shown, disturbed>>
  /\ reply' = IF cli.at = "waiting" THEN [id |-> handler, ok |-> effect' = "ok"] ELSE None
  /\ UNCHANGED <<sessions, strays, kept, readings, mesh, srv, toServer, toClient, updates,
                 screen, cli, handler, report, changes>>

\* A telemetry request's outcome is in its reply.
NoteTelemetry ==
  effect' = IF reply' # reply /\ reply' # None THEN IF reply'.ok THEN "ok" ELSE "failed"
            ELSE effect

\* Another client changes a tier, between two commands of the mesh task.
OtherChanges(r) ==
  /\ changes < MaxChanges /\ mesh.at = "idle" /\ cli.at \in {"deciding", "waiting"}
  /\ changes' = changes + 1
  /\ tiers' = IF r \in tiers THEN tiers \ {r} ELSE tiers \cup {r}
  /\ UNCHANGED <<onNode, cached>>
  /\ \E contacts \in {onNode, cached} : shown' = View(contacts, tiers')
  /\ disturbed' = TRUE
  /\ UNCHANGED <<cli, handler, report, effect>> /\ KeepDetail

\* The library updates its cache when the node reports a change.
CacheFollows ==
  /\ cached # onNode /\ mesh.at = "idle"
  /\ cached' = onNode
  /\ UNCHANGED cliVars /\ KeepDetail

CliNext ==
  \/ \E cmd \in Commands : CliConnect(cmd)
  \/ CliDecide \/ Answered \/ CliTimesOut
  \/ RunCommand
  \/ \E r \in Repeaters : OtherChanges(r)
  \/ CacheFollows
  \/ /\ DetailNext
     /\ NoteTelemetry
     /\ UNCHANGED <<onNode, tiers, shown, cli, handler, report, changes, disturbed>>

Spec == CliInit /\ [][CliNext]_vars

-----------------------------------------------------------------------------
(* Properties.                                                             *)

AtRest == srv = None /\ toServer = <<>> /\ toClient = <<>> /\ updates = <<>>

Settled(c, outcome) ==
  LET s == Section(c)
  IN \/ outcome = "ok" /\ s = [shows |-> "value", of |-> popup.id]
     \/ outcome = "failed" /\ s.shows = "error"
     \/ outcome = "failed" /\ s.shows = "value" /\ s.of < popup.id

\* The mesh task never waits for a client: the four slots hold all that a
\* request ever sends, however slow its client reads (server.rs
\* dispatch_repeater_detail, mpsc::channel(4)).
MeshNeverWaits ==
  mesh.out # <<>> /\ mesh.cmd = srv => Len(updates) < UpdateSlots

\* Once nothing is on its way, every section of an open popup shows what its
\* request came to, whatever earlier requests for the same repeater brought
\* into it; only a stream that was cut short leaves a section fetching.  A
\* section whose request failed may show an older value instead of the error.
\* And the telemetry it shows is never newer than the snapshot's
\* (mesh_task.rs finalize_telemetry_success, ui.rs category_pending).
PopupSettles ==
  popup # None =>
    /\ popup.value["telemetry"] <= readings[popup.on]
    /\ AtRest /\ popup.id \notin cut => \A c \in Category : Settled(c, result[popup.id][c])

\* Between two commands no repeater holds a login of ours, however the commands
\* ended, except after an answer that came too late or a logout that got lost
\* (mesh_task.rs: "considerate towards the repeater's limited ACL table size").
SessionsClosed == mesh.at = "idle" => sessions \subseteq kept

\* The command line reports success only for what the mesh task did, and a
\* failure only if it failed, the time ran out, or the snapshot shows more than
\* the command; and if a key typed in capitals is not found in it.
ReportTruthful ==
  /\ report = "success" => effect = "ok"
  /\ report = "error" => effect = "failed"
  /\ report \in {"mismatch", "not found"} =>
       effect = "ok" /\ (disturbed \/ (cli.cmd.do = "add" /\ cli.cmd.key = "upper"))
=============================================================================
