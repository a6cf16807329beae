# Formal model of fez-meshcore-controller

TLA+ modules, TLC configurations and TLAPS proofs for the daemon that drives a
MeshCore companion node, for its IPC clients and its MQTT forwarding. Paths
below are relative to the repository (`daemon/src/...`, `core/src/...`,
`cli/src/...`).

## The system

One process, the daemon, holds the connection to one companion node. It runs
these Tokio tasks, which share an `AppState` (`daemon/src/state.rs`):

| Task | Code | State it owns | Talks to |
|---|---|---|---|
| mesh task | `daemon/src/mesh_task.rs` | the `MeshClient`, hence the link to the node and the client library's cached contact list | takes `DaemonCommand`s, writes the snapshot, the discovered nodes and the configuration, broadcasts events and packets |
| IPC server, one handler per client | `daemon/src/server.rs` | the socket, its two broadcast receivers | sends `DaemonCommand`s and waits for their replies |
| MQTT broker tasks, one per broker | `daemon/src/mqtt.rs` | an `AsyncClient` and its event loop, tickers, the token | ask for statistics and signatures over the same command channel; subscribe to raw events |
| reload watcher | `daemon/src/reload.rs` | nothing | on `SIGHUP` replaces the configuration, restarts broker tasks, sends `ResyncObserverConfig` |

The command-line client (`cli/src`) holds a connection to the socket and either
runs one command (`repeater.rs`, `status.rs`) or a terminal UI (`tui/`).

### Components, their state and what makes them correct

* **Command channel** - an mpsc channel of 8 slots with a oneshot per request.
  Correct when no accepted command is lost, when one task's commands take
  effect in order, when an answer is about the request it answers, and when
  nobody waits for ever.
* **Repeater management** - contacts on the node, the library's cached copy,
  the configured entries in memory and in `config.toml`, the contact list shown
  to clients. Correct when what was acknowledged is kept, when connecting heals
  the node, when enforcement removes what is unmanaged and nothing else, and
  when clients see the configured tiers.
* **Repeater detail and telemetry** - login, four sequential requests, logout;
  categories stream back over a channel of four into a popup. Correct when the
  mesh task never waits for a client, when an open popup ends up showing what
  its request came to, and when no login is left open on a repeater.
* **MQTT broker tasks** - connection state, status publication, tokens. Correct
  when the retained status is that of the node and the credentials are the
  newest signed ones.
* **Broker supervision** - which broker tasks exist, keyed by name, across
  reloads. Correct when there is one task per configured broker, with its
  settings.
* **Client streams** - events and packets broadcast to every client on top of a
  backlog and a snapshot. Correct when a client at rest is up to date.
* **Terminal UI** - pages, popups, the filtered table, the packet log, the
  filter file. Correct when a key acts on what the user sees.
* **Commands of the command line** - `repeater add`, `manage`, `unmanage`,
  `remove`, `telemetry`. Correct when they report what happened.
* **Configuration wizard** - sections, an editor of the region tree, the file.
  Correct when it saves what it shows and nothing else.
* **Discovered node store** - a SQLite table and its in-memory mirror. Correct
  when a restart shows the same nodes.
* **Instance lock** - PID file, fork, socket. Correct when one daemon lives.
* **Packets and replies** - the packet log's entries, the nodes, channel texts
  and regions read in them, telemetry and region replies. Correct when what is
  read, shown and published is what was sent.

### What is hard here

The mesh task runs one handler at a time, but each handler awaits the node many
times, and the reload watcher, the broker tasks and the client handlers run in
between. A command outlives its requester's patience. Contact lists are cached
and the node does not report changes the daemon itself made. Three
writers (the mesh task, an editor plus `SIGHUP`, and the wizard) share the
configuration file. Broadcast channels drop what a slow receiver has not read.
`PROJECT.json` lists each hazard at its line with the property that watches it.

## Modules

### CommandService and CommandQueue

`CommandService` is what requesters rely on: a request is issued, takes effect
at most once with an outcome, and its requester is told at most once, either
that outcome or that it gave up. `CommandQueue` models the channel: `queue` is
the mpsc channel, `mesh` and `running` are the position of the mesh task in
`mesh_task::run`, `phase`, `asking` and `reply` are a requester's position in
`dispatch_command`, `sign_via_mesh`, `refresh_node_stats` or `reload_once`.
`effect`, `issued` and `told` are history. One action per step: `Submit`,
`Enqueue` (the send, which no timer covers), `Deliver`, `TimeOut`, `Connect`,
`LoseLink`, `TakeCommand`, `FinishCommand`.

What a command does to the node is left out (`FinishCommand` picks an outcome);
so are the two errors that need a panicked mesh task ("is not running",
"dropped the reply"). `RequestRepeaterDetail` streams its answers and is not
one of the "ipc" commands.

Runs:

* `command_queue`: one client, one broker, the reload watcher, one slot, two
  requests each. One slot and three requesters are enough for a full channel,
  for a late reply meeting a later request of the same task, and for commands
  of several tasks to overtake each other. 76,040 states. It checks that the
  channel implements `CommandService` (`ServiceSpec`), that nothing accepted is
  lost, and that everyone is served whenever the node keeps coming back. That
  commands take effect in order and answers are truthful (`InOrder`,
  `Truthful`) are theorems, not runs.
* `client_gives_up`: fails, see *Divergences*.

Fairness (`FairSpec`): timers expire and scheduled tasks run (weak fairness of
`Deliver`, `TimeOut`, `FinishCommand`: each call a handler makes to the node has
a timeout of its own). `Enqueue` is strongly fair because Tokio hands out
channel permits first come, first served; `TakeCommand` because `select!` picks
among ready branches at random. Nothing forces a client to ask, the link to
break or the node to come back: `ServedWhenNodeReturns` has the node's return
as its premise.

### RepeaterManagement

State: the node (`nodeContacts`, `autoadd`, `channels`), `cache` (the library's
contact list, as `client.contacts()` returns it), `discovered`, `config` and
`disk` (with `extent`: the file is whole, `"part"` of it was written and still
parses, or it is `"torn"` and does not), `shown`
(`Snapshot.contacts`), the mesh task (`pc`, `setup`, `op`, `toPrune`,
`pruned`), the reload watcher (`reload`, `loaded`) and `resyncs`, the
`ResyncObserverConfig` commands sent and not yet executed.

Actions follow the awaits that other tasks can get between: `Connect`,
`Reconcile`, `ReconcileRefresh`, then `EnforceSkip` or `EnforceSettings`,
`EnforcePlan`, `EnforcePrune` per contact, `EnforceEnd`; a command is
`SetRepeaterStatus`, `AddRepeater` or `RemoveContact`, then for the first two
`SaveBegins` and one of `SaveSucceeds`/`SaveFails` (or `SaveRefused`), then
`RefreshAnswer`. A reload is `ReloadLoad`, `ReloadApply`, `ReloadDone`. The
environment is `AutoAdd`, `NodeChanges`, `UserEdit`, `Stop` and `Start`; the
node's events reach the task as `Hear` and `Push`. Calls to the node fail at
will.

A node stands for its public key; two keys that share a 12-digit prefix are not
modelled. `Reconcile` declares the missing entries in one step (they are read
from one clone of the configuration, so a reload in the middle changes
nothing), and `Refresh` likewise takes the configuration at the moment it is
cloned. Channels are one flag. `ResyncObserverConfig` does not wait for a slot
here: that is `CommandQueue`'s subject.

History variables: `acked[n]` is the tier the last successful command left on
`n` (`"free"` once the user rewrites the entry), `missed` the nodes whose tier
the file a reload has read may lack, `behind` those whose tier the memory may
lack since that file was swapped in, `clean` that nothing failed in the current
pass and no reload intervened, `stalePlan` that a reload intervened after the
managed list was cloned, `dirty` that the snapshot misses a reload or a failed
save.

The run `management` (the bounds are the budget of connections, commands,
reloads, edits and restarts in its `.cfg`; symmetry over nodes, sound because
only safety is checked) has two nodes and three scenarios, chosen in the initial
state so that one run covers them without the product of their bounds
(4,377,360 states):

* `"passes"`: two connections, one reload, one edit. Two connections let the
  node be reset in between; two nodes let one be pruned while the other is not.
* `"commands"`: one connection, one command, one reload, while the node hears
  and adds repeaters; from an empty list of entries.
* `"file"`: one connection, two commands, and either one reload, one edit and one
  restart or two reloads, with a node that adds nothing by itself. The first
  command acknowledges a tier, the second tears the file or races with a reload.

A write that does not come to its end (`LeaveUnfinished`), and a reload that reads
while one is under way, find the beginning of the file. `Config` defaults
`managed_repeaters` to an empty list and the observer flag to on, and the entries
come last in the file: a beginning that stops between two entries parses
(`CutShort`), and the daemon takes it for the configuration, with fewer
repeaters or none. Nothing tells it, or the user, that they are gone; the next
save writes the loss down. `BrokerReload` meets such a file as one of the
contents `Edit` gives it.

The premises of the passing properties are exact: each excludes one situation
in which the code does not keep the promise.

| Premise | Situation it excludes |
|---|---|
| `behind` in `AckedKept` | `reload_once` read the file before a save and swapped it in after: that repeater's acknowledged tier is lost in memory until the next reload, and for good if a save comes first; or the file it read, or the daemon started from, was cut short |
| `extent` in `AckedKept` | `std::fs::write` truncated the file and did not finish: torn, the daemon no longer starts from it and a reload keeps the running configuration; cut short, both use what is left |
| `~stalePlan` in `ManagedSurvives` | a reload adds an entry during the prune loop, which removes its contact all the same |
| `cache` in `LockedDown` | a contact the daemon declared since the connection is not in the cached list and survives a resync, as does one added by the node before auto-add was turned off |
| `Declarable` in `HealedAfterConnect` | an entry stored for a repeater that already was a contact holds the prefix only and cannot be declared again |
| `setup = "connect"` in `HealedAfterConnect` | `ResyncObserverConfig` enforces but does not declare: an entry that a reload added waits for the next connection |
| `dirty` in `ShownTiers` | neither a reload nor a failed save rebuilds the snapshot |

### MqttBroker

One broker task between the mesh task and an MQTT server. The mesh task is
reduced to the order in which it changes what a broker reads: `link` goes from
`"down"` to `"opening"` (`snapshot.mesh_connected`, `self_info`), `"described"`
(`device_info`, which a failed query empties), `"up"` (`Connected` is
broadcast), `"lost"` (`Disconnected` is broadcast, the snapshot still says
connected) and back. `pc` is where `run_broker` awaits: `"waiting"` and
`"signing"` for signed credentials, `"setup"`, `"reading"` (subscribed, the
snapshot not read yet), `"select"`, `"stats"` (in `refresh_node_stats`),
`"publishing"`, `"asleep"` (after an error), `"resigning"`, `"ended"`.
`believed` and `mqttUp` are its `mesh_connected` and `mqtt_connected`;
`events`/`lagged` and `raw` its receivers; `out` what the current branch still
has to publish. `requests` and `session` stand for rumqttc: `poll()` writes one
request at a time, forgets what is queued when the connection ends (sessions
are clean) and is only called from `"select"`. `retained`, `willDue` and
`lateWill` are the server: a lost connection's will comes at a time of its own
choosing, but before the ConnAck of a connection with the same client id; the
client id holds the process id, so the will of a previous process is not ordered.

Abstracted: payloads and topics (one kind of `"packet"`), how many raw events
are buffered, the interval of the heartbeat (it may come at any time, or
never), why a connection fails. A reload keeps the broker's server.

There is no budget anywhere: the state space is finite by the capacities.

* `mqtt`: two configurations, a plain broker and one that wants signed
  credentials and raw packets only; two slots in the client's queue instead of
  64 and one event in the receiver instead of 256 - enough for a status behind a
  disconnection, for a lost event with a later one kept, and for the queue to be
  full. `StatusCurrent` and `NewestCredentials` are also proved, for all
  configurations and capacities. 748,052 states.
* `mqtt_loops_forever`: fails, see *Divergences*.

`StatusCurrent` says what a broker at rest retains; `misled` is its exact
exception: the task read `mesh_connected` between the announcement of a
disconnection and its entry in the snapshot, having already received (or
missed) the announcement, or its receiver lost the last transition. Until the
next transition or ConnAck, a heartbeat repeats the wrong status: mqtt.md:166
("`online` only when the mesh node is currently connected") does not hold then.
`OnlineOnlyWhileConnected` states that sentence; TLC refutes it in twelve steps.
`lateWill` excludes the will of a previous process that reaches the server
after the new one's status.

Fairness (`Fairness`): the mesh task does not stop between two of its steps
(each of its calls has a timeout) and takes commands while it is connected; nor
does the broker task stop in an await that has a timer. The send of a command
(`refresh_node_stats`, `sign_via_mesh`) has none: `crowded` says that it waits
for a slot of the mesh task's channel, which only a connected mesh task frees
(`SlotFreed`; slots go first come, first served); `select!` picks among ready
branches at random, hence strong fairness for receiving an event and for
`poll()`; the server is reachable again and again. `StatusReported` assumes that
from some point on the mesh connection stays as it is and the steps that break
the network, reload the configuration or restart the daemon are not taken; it
excuses a misled, wedged or ended task, and one that waits for a slot while the
node is away (`Stranded`): nothing bounds that wait, and the broker then keeps
the status from before.

Other differences from the documentation, visible in the model but not run:
the task ends for good when the first signature fails or `self_info` does not
come within 60 s (`SelfInfoTimesOut`, `FirstSignature`), although it "loops
forever"; the will's placeholders last as long as the task, not "for the
lifetime of the connection" (mqtt.md:181), since options are built once; a
failed device query at a reconnection empties `device_info`, although
`AppState` "never clears" it; `enable_high_level_messages = false` does not
mute the packet topics.

### ClientStream

The path from the mesh task's snapshot and packet log to what a terminal UI
shows. `current` numbers the states of `state.snapshot`; a snapshot message is
its number and an event carries the number current when it was broadcast, so
"the UI shows a snapshot older than the event" is a comparison. The mesh task
makes a change in two steps (`BeginChange`, `EndChange`), because readers get
in between: most handlers write the snapshot and then broadcast, while
`set_repeater_status` broadcasts and then refreshes (`"status"`). `log`,
`nextId` and `packetFeed` are the packet log and its channel.

`srv` is where `handle_client` awaits: it has subscribed, sent the snapshot,
sent the backlog, serves, waits for a slot of the command channel (`"waiting"`,
with no timer) or for the outcome of its command (`"busy"`; in both it reads
neither its receivers nor the socket), or has a refusal to send. `online` says
that the mesh task is connected: only then does it take commands, of which
`jobs` of this client's are in the channel. `ipc` is where the
client's `ipc_task` awaits and `ui` whether the UI loop is blocked in
`cmd_tx.send`. The actions are one per message moved: server (`SendSnapshot`,
`SendBacklog`, `ForwardEvent`, `ForwardPacket`, `AnswerRefresh`,
`DispatchCommand`, `GetSlot`, `GiveUp`, `SendError`), client task (`Connect`,
`ConnectFails`, `TellLink`, `Deliver`, `DeliverBlocks`, `SendCommand`,
`SeeEnd`) and UI (`Apply...`, `Unblock`, `Key`). `Stop` ends the daemon at any
moment; `Start` brings it back; `NodeLeaves` and `NodeReturns` are the mesh
task's connection.

Left out: the repeater-detail stream and the command line (`RepeaterDetail`,
`RepeaterCli`), keys, popups and the scroll lock (`TerminalUi`: here the list of
packets is the one kept, not the one drawn), several commands of other clients
(their effect is a change of the mesh task's own, and the slots they hold make
a handler wait at will).

`client_stream` has one client, two packets, two snapshot states after the
first, two commands by the user, receivers of two entries, and room for one
message in the socket and in each channel: each of them overflows or blocks
within these bounds, and a daemon restart with a new packet log fits too
(12,595,527 states).

* `UpToDateAtRest`, `OwnChangeShown`: at rest the screen is no older than any
  event that made the UI ask, nor than its own successful command. The second
  needs the handler's blocking wait: `RepeaterStatusChanged` precedes the
  change in the cache, and the handler forwards it only after the reply, hence
  after the change. *Another* client's handler does not wait: it may forward
  the event, have its `RefreshSnapshot` answered from the old cache and show
  the old tier until something else makes it ask.
* `PacketsListed`: the backlog and the feed leave no gap and keep the order;
  they overlap in packets recorded between the subscription and the backlog,
  which the list then holds twice.
* `StopsOnlyAtRest`: when nothing is left that runs by itself, everything has
  arrived, and no command is left in the channel of a connected mesh task. Two
  places are named as exceptions. `Wedged`: `ipc_task` awaits room in the channel
  to the UI (256) while the UI awaits room in the channel to `ipc_task` (8);
  neither reads. It takes a UI that is behind by 256 messages and has eight
  requests outstanding. `Stranded`: the handler awaits a slot of the command
  channel while the mesh task reconnects (the finding `client_gives_up`); its
  client is then shown nothing new until the node is back.

### BrokerReload

Which broker tasks run. `file` is `config.toml`, `config` the one in memory;
both are functions from broker names to settings or `Absent`. `reload` is where
`reload_once` awaits: `Receive` (SIGHUP received, file read; a file that does
not parse ends it), `Apply` (`diff_config` and the swap), `Remove` per removed
broker, `Restart` per changed or added one, `Applied`, `Summary`. Tasks are
numbered in the order they are spawned; `tasks` is the map of handles by name,
`status[n]` the task that wrote the entry of `n`. A task writes statuses
(`WriteStatus`), ends by itself (`Return`), or is aborted, in which case it may
still write until it reaches its next await (`Drop`). `Edit`, `Save` and
`Hangup` come at any moment; signals coalesce.

History: `since` is what the file has held since the last SIGHUP, `late` that
an aborted task wrote. Names given twice in one file are outside the model:
nothing in the code refuses them, and the handle map keeps only the last task.

`broker_reload`: two names and two settings, two writes of the file, four tasks,
any number of signals (type correctness is proved and not run): enough for a
broker to be removed and come back, or be restarted twice, during whatever the
others do. 802,775 states up to the symmetry of names and settings (only safety
is checked).

* `OneTaskEach`, `NoTwins`: after any sequence of reloads the running tasks are
  the configured ones, and never two of a name.
* `FollowsFile`: a SIGHUP during a reload leads to one more reading. It allows
  the file to have been overwritten by a save of the mesh task.
* `Forgotten`: a removed broker leaves no status, except a `late` one.

### TerminalUi, RepeaterOrder, PacketGroups

The UI loop draws, then handles one key or one message. `Press` is `match
key.code` of `run_loop` with the precedence of its arms; `Draw` pulls a
selection past the last row back, as the table widget does; `ApplySnapshot`,
`ApplyCategory`, `Backlog` and `PushPacket` are the messages, and `Restart`
starts the UI again with the filter file it finds. A connection is what the
handler makes of it (`server.rs` `handle_client`): `Connect` subscribes to the
feed, `Backlog` replaces the list by what the log holds by then, and
`PushPacket` puts what the feed delivers in front of it. What was heard between
the two is in the backlog and comes again over the feed; a feed that falls
behind by more than its slots passes entries over (`NextFed`). `fed` is where
the feed stands, and each entry of a list remembers how it came (`via`), a
history variable that tells the two copies of a packet apart. The socket and the
channel to the loop are not in the module: `HearPacket` is read by `Backlog` and
`PushPacket` only, so a message that waits in them is one that the handler sends
later. `RepeaterOrder` holds the filter and the sort of the Repeaters table,
`PacketGroups` the grouping of the packet log, each with its reference
definition (`ListedRight`, `GroupedRight`), which does not go through the list
the way the code does.

Left out: the wording of `last_status` and the list of events. The 90 seconds of
a group's window are a parameter: the `.cfg` has `Window` 0 and a clock of two
values, so that a packet may be inside or outside of it, and the clock may go
back. The list keeps three entries, the log two and the feed two (2000, 500 by
default, and 256 in the code).

`terminal_ui` has two users, chosen in the initial state: one mostly on the
Repeaters page (two snapshots that differ in order, distance and length), one
mostly on the packet log (three packets, a daemon restart with at most one more,
any number of connections); both switch pages, so a key may be pressed where it
does something else. The filter popup has three of its eight rows: a tier, the
sort, the grouping. Within these bounds the feed repeats packets of the backlog,
skips packets, and is still behind the backlog when the list is frozen; lists are
truncated on both sides. 5,909,777 states.

* `DeleteConfirmed`: a contact is removed only by two `d` in a row with that
  contact highlighted both times, whatever snapshot reorders the table between.
* `PrefsKept`: closing the popup in any of its ways saves the filter in use.
* `TableOrdered`: the comparison stays one `sort_by` accepts although some
  distances are unknown.
* `GroupsAreTransmissions`: a group is a chain of equal packets, each within the
  window of the one before, whatever lies in between; no entry is in two. A packet
  the list holds twice counts as two receptions.
* `CountsSinceLock`: with all entries from one daemon process (another one starts
  its packet ids over), the scroll lock's count is never less than the number of
  listed entries newer than every frozen one, and is that number when the frozen
  list begins with its newest. A list frozen while the feed still repeats the
  backlog does not: its own entries that come again, over the feed or with the
  backlog of a new connection, may then be counted as new. And entries are what is
  counted: a packet that comes with the backlog and over the feed, both after the
  lock, counts twice. The comment of `new_packets_since_lock` says "packets captured
  since scroll lock was engaged".

Seen in the model and not a property: the filter popup stays open, hidden, on
the packet log and takes its keys; `Esc` closes a hidden packet detail before it
quits; `q` with the filter popup open leaves without saving; every later
category puts the selection of the neighbour list back on its first row.

### RepeaterDetail and RepeaterCli

`mesh` is where `request_repeater_detail` or `request_telemetry` awaits: login,
one request after the other, logout, for the command at the head of `queue`.
`updates` is the channel of four categories, `srv` the request the UI's handler
streams (`dispatch_repeater_detail`, with its deadline), `toServer` and
`toClient` the socket, `popup` what `ui.rs` draws of it: a section is fetching,
shows a value, or an error. `strays` are login answers that arrive when nobody
waits any more: the client library's `wait_for_any_event` takes the next login
answer, whoever sent it. `RepeaterCli` adds a process of the command line
(`cli`, `handler`, `report`), the contacts, tiers and shown snapshot that its
commands are about (`onNode`, `tiers`, `shown`), and another client that changes
them.

`repeater_requests` is the sum of two scenarios: a user who opens two popups
(the same repeater twice, one without password, one that was only overheard),
and the command line next to one popup. 2,160,178 states.

* `MeshNeverWaits`: the four slots hold all that one request ever sends, so a
  client that does not read never holds up the mesh task.
* `PopupSettles`: at rest every section of an open popup shows what its request
  came to. Excused: a stream cut by the deadline or a lost connection (the
  section goes on fetching), and an older value shown in place of an error.
* `SessionsClosed`: between commands no repeater holds a login of ours, except
  where the login was answered too late or the logout was lost.
* `ReportTruthful`: what the command line reports is what the mesh task did.
  Excused: somebody else's change between the command and the snapshot, and a
  key typed in upper case, which `repeater add` does not find again and reports
  as missing although it was added.

### Wizard

`at` is the section, `work` the working configuration, `outline`, `selected`
and `typing` the region editor, `file` what is on disk, `daemon` the
configuration in a running daemon's memory. One action per answer or key;
`DaemonSaves` rewrites the file from memory while the wizard is open.
`FlattenRegionTree` and `RegionsFromOutline` translate `region.rs` and
`wizard.rs`; texts typed in are names from a small set.

`wizard` is the sum of two scenarios: the editor opened on nothing (four rows,
three levels, names that may repeat), and the sections with one broker and one
save of the daemon, over files that are absent, unreadable, a tree, a tree out
of order with a cycle beside it, and two regions of one name.

* `WizardTypeOK`: the editor indexes its outline with every key, and the summary
  expects a connection: neither ever misses.
* `SavedAsShown`: no name is lost in the tree saved; it is the outline row by
  row if names are distinct and no level is skipped. The editor lets a region be
  more than one level below the row above it: the saved tree then hangs it one
  level below.
* `DeletePromotes`: deleting a region gives its children to its parent.
* `SaveKeepsUnasked`: saving writes what was not asked as it was when the wizard
  began, but for the packet log's capacity, which the wizard resets. What the
  daemon saved meanwhile is overwritten; where the daemon knew the file the wizard
  began from (`agreed`), that loses the managed repeaters and no other field. A
  daemon that has not read that file (a wizard saved, the daemon was not restarted)
  writes its older configuration over the whole of it; the wizard's save then puts
  back what it began from, which the property says and `agreed` tells apart.

### DiscoveredStore and DaemonLifecycle

`DiscoveredStore` is `repeater_db.rs` (`upsert`, `load_all`) and the merge of
the mirror. `DaemonLifecycle` runs any number of processes over one data
directory: `phase` is where a process is between `main` and its exit (the lock,
the fork of `--detach`, reading the table, binding the socket, serving,
removing the socket), `holders` the processes that hold the file lock,
`lockFile` the PID written in it, `socket` the process that bound the socket
file, `table` and `mirror` the store. A process may be killed anywhere; a
sighting is written to the table first and then to the mirror, and the write may
fail.

* `OneDaemon`: of the processes that got past the lock one is alive, the PID
  file is its own and the socket the one it bound; no refused or stopping
  process takes it away.
* `RestartShowsTheSame`: the table and the mirror are what the sightings say,
  and a node is announced once, and once more for each failed write of it.

Keys that share a 12-digit prefix are excluded where the property says so
(`Alone`): the table is keyed by prefix.

### PacketDecoding, PacketView, ReplyDecoding and DaemonRadio

`PacketDecoding` translates, byte by byte, what `core/src/mesh.rs` reads in a
packet (addresses, channel, sender, discovery, advertisement), `channel.rs` and
`region.rs`; what the firmware and the library's parser do is written beside it,
marked external. `PacketView` is what the packet log page and the MQTT topics
make of an entry, `ReplyDecoding` telemetry and region lists. `DaemonRadio`
composes them with `DaemonLifecycle`: `ReceivePacket` is the event branch of
`mesh_task::run`, from the bytes to the sighting and the entry.

Ciphers, hashes and region codes are parameters; the instance has toy ones that
keep what the code relies on (decryption inverts encryption, different keys may
share a channel byte and two regions a code). Sizes are parameters too: keys of
a few bytes instead of 32.

`daemon` is the sum of three scenarios, 604,189 states, with symmetry over
process ids (only safety is checked):

* `"processes"`: three process ids, three starts and three sightings, deaths
  anywhere - a second daemon during the first, a third after it.
* `"air"`: every packet and reply of the instance, cut after every byte.
  `ReadsWhatWasSent` and `RepliesRead`: what is read is what was sent, or
  nothing if it was cut short, and what is published gives the bytes back.
* `"log"`: up to three receptions of one transmission by different paths, with
  another packet or an unreadable one in between. `ShownAsHeard`: every
  reception is behind one row, which spans the fewest to the most hops, names
  the destination, and is coloured for a managed repeater at an end of the
  transmission before one on a path.

## Proofs

`CommandQueueProofs` (TLAPS, for any sets of requesters, any capacity, any
number of requests): `Invariance`, `TypeCorrect`, `NoCommandLost`,
`CommandsInOrder`, `AnswersTruthful` and `Refinement` (the channel implements
`CommandService`). None of the properties is inductive alone; `IInv` adds that
queued and running commands are distinct, increase per requester, and are
exactly the issued requests without an effect, and that a reply in a oneshot is
the effect of the requester's last request.

`ConfigurationProofs`, on `RepeaterManagement` (for any set of nodes and any bounds):
`TypeCorrect`, `AcknowledgedTiersKept` (`AckedKept`), `TiersShown`
(`ShownTiers`), and of the passes `ConnectingHeals` (`HealedAfterConnect`),
`EnforcementLocksDown` (`LockedDown`) and `ManagedIsSpared` (`ManagedSurvives`).
The strengthening of the first says that a save in progress has truncated the
file and written the memory (`SaveOnItsWay`), and that a file a reload has read
and not applied agrees with every acknowledged tier it does not miss
(`LoadedAgrees`); without the latter `ReloadApply` would not preserve
`AckedKept`. `ShownTiers` is inductive once types are known. The action
properties rest on `PassInv`: the plan holds no managed contact unless a reload
intervened (`PlanFresh`); a clean pass that prunes has locked the node and
nothing of the cached list is left but what is managed or still planned
(`Locked`); and a clean pass of a new connection starts from a cache the node has
not gone back on, and once past its reconciliation has every entry it can declare
on the node (`Declared`).

`ConfigurationProofs`, on `Wizard` (for any names, brokers, files and bounds):
`WizardInvariance`, `WizardTypes` (`WizardTypeOK`), `WizardSavesShown`
(`SavedAsShown`), `WizardDeletes` (`DeletePromotes`) and `WizardKeepsUnasked`
(`SaveKeepsUnasked`). `WizardInv` says that the outline, the cursor and the text
typed are what each screen of the editor needs. `SavedAsShown` is a claim about
two recursions of the code, the outline read into regions and the regions
flattened again: the second is followed call by call, and at each point the
regions whose calls are still to come are apart from those placed; of a well
nested outline they are the rows at the edge of what is placed, in their order.

`MqttBrokerProofs` (for any capacities and any set of configurations):
`TypeCorrect`, `StatusIsCurrent` (`StatusCurrent`) and `CredentialsAreNewest`
(`NewestCredentials`). The inductive invariant follows a transition on its way
to the server: `Belief` says the last transition in the channel is the state of
the link and, when there is none, so is what the task believes; `Pipeline` says
that from there the last status held by a branch, or else queued, or else
retained, is the right one; `Renewal` says that a disconnection is held or
queued exactly while the connection is older than the credentials; `Shape` says
where the task is.

`ClientStreamProofs` (for any capacities and bounds): `TypeCorrect`, `UpToDate`
(`UpToDateAtRest`), `OwnChangesShown` (`OwnChangeShown`) and `PacketsAreListed`
(`PacketsListed`). The invariant of the first three has an order and a debt. The
order (`Sorted`, `Numbered`): snapshots reach the screen as they were taken, so
it never goes back. The debt (`HeardComing`,
`DoneComing`): as long as the screen is older than what the UI heard of, or
than its own change, a request, a new connection, a recent enough snapshot or
an event that will make it ask is on its way; at rest nothing is, hence the
property. `Announced` is where the handler's wait matters: while it waits, the
event of the change stays in its receiver. For the packets (`PacketInv`) the
channels between the log and the list are one stream: what is in it is in the
order of recording (`InOrder`), the list begins again at one seam, where the
backlog ends and the feed begins (`Seamed`), and every packet of the log is
listed or still in the stream unless the receiver lagged or the list is full
(`Kept`).

`BrokerReloadProofs` (for any sets of names and settings, any number of tasks
and writes): `TypeCorrect`, `TasksMatchConfig` (`OneTaskEach`), `NeverTwins`
(`NoTwins`), `SignalsAnswered` (`FollowsFile`), `RemovedForgotten`
(`Forgotten`). The invariant says that every running task is the one its name's
handle would abort (`Stoppable`), that a handle is that of a live task of its
name (`Handles`), and that whatever the current reload has not left to do is
done (`Progress`); `OneTaskEach` follows because nothing is left between
reloads.

`DaemonProofs`, on `DaemonLifecycle` (for any process ids, sightings and bounds):
`OneDaemonLives` (`OneDaemon`) and `TheTableSurvives` (`RestartShowsTheSame`).
`OneDaemon` speaks of processes that have read the table; the invariant starts
earlier, at the lock: its holders are exactly the processes that exist
(`Holding`), only one of them is not the parent of a fork on its way out
(`Single`), and from the moment it has recorded its process id the file is its
own (`Owned`). `Single` is what a second `acquire` and the child of the fork,
which shares its parent's lock, both have to respect. For the store, `StoreInv`
says that the table is what the written sightings say (`TableSays`), that a
mirror is what its process has read and heard, less the one sighting whose write
it awaits (`Mirrors`), and that a key is announced no more often than it was
heard, and once at most without a failed write (`Announcements`).

`DaemonProofs`, on `DaemonRadio` (for any packets a node can send, of any length,
any sizes of keys and codes, any channels and regions): `RadioIsADaemon` (its
behaviours are `DaemonLifecycle`'s: a packet overheard, whole or cut, is one
sighting or nothing to the store), `RadioKeepsTheDaemon`, which carries the two
results above over to it, and `PacketsReadRight` (`ReadsWhatWasSent`). The
invariant of the last is that every entry of a packet log was made of a first part
of a packet sent (`LogOK`); the rest is about bytes. `ParseFacts` places the header,
the codes and the path in front of what is left of the payload, `Published` puts
them together again, `Payloads` says which bytes each type of packet has where, and
one lemma per reader (`AddressesRead`, `ChannelRead`, `SenderRead`, `ControlRead`,
`AdvertRead`, `TextRead`, `RegionRead`) finds in the bytes left the field that was
sent, or none. A text needs three more: the zeros that pad it to whole blocks are
cut off again (`PlaintextFacts`), numbers of any width survive their bytes
(`LittleEndian`), and no configured channel but its own makes anything of it, nor
its own of a part of it (`ChannelTries`).

`RepeaterCliProofs` (for any repeaters, requests, changes and channels of at
least four slots): `MeshIsNeverHeldUp` (`MeshNeverWaits`), `NoSessionIsForgotten`
(`SessionsClosed`), `ReportsWhatHappened` (`ReportTruthful`), `ThePopupSettles`
(`PopupSettles`). All rest on the order of the requests (`OrderInv`): the command
the mesh task runs precedes those in the queue, which precede what the sockets
still hold. `Slots` counts what is in the channel, what the task holds and what
is left for it to send: never more than four. `Sessions` says whose login a
command in progress holds. `ReportInv` follows the one command of the command
line from the socket to its report, and keeps apart what the snapshot it is
judged by shows and what somebody else changed in between (`Before`, `Shows`).
`PopupInv` follows each category from its request to the popup: the updates of
one request come after those of the one before (`Streams`), none is of a later
request than the popup's (`Newest`), and a section that does not show its result
has the request or the result on its way, unless the stream was cut (`Settling`).

`TerminalUiProofs` (for any contacts, keys, rows of the filter, packets and
snapshots): `PreferencesAreSaved` (`PrefsKept`), `OnlyTheConfirmedIsDeleted`
(`DeleteConfirmed`), `NewPacketsAreCounted` (`CountsSinceLock`),
`TheTableIsOrdered` (`TableOrdered`) and `RowsAreTransmissions`
(`GroupsAreTransmissions`). `DeleteInv` says that a deletion is armed only where
a second `d` would reach it. `LogInv` says that a list is what the feed brought
in front of a backlog, each newest first and of one process (`Listing`), and
that against the frozen list either the live one has nothing of a backlog that
is not frozen too (`Backs`: the same connection), or all that its feed brought
is newer than the frozen list (`Ahead`: a later connection, whose feed began
where the log ended). Hence the count (`NewInFront`): whatever is in front of a
newer entry is not older than the frozen list's first. The table is an insertion
sort: `Before` is a strict weak order whatever distances are unknown, and
inserting keeps a table of the first n contacts in order. The loop over the
packets keeps (`Grouped`) that two receptions are in one row exactly when they
are of one transmission, and which row holds the newest of each key; a reception
joins the transmission of that one or none, because what continues a
transmission does not depend on later packets (`JoinsTransmission`,
`BeginsTransmission`). Of two entries of the visible list, `LogInv` gives that
one is newer or that they came differently.

Some of these proofs are about what a definition computes for every input: the
table of n contacts and the rows of n packets (`TerminalUiProofs`), the newest
of a set of sightings and the bytes of a number (`DaemonProofs`), the tree of an
outline (`ConfigurationProofs`). There the induction is replaced by its
contrapositive: `NatLessThanWellFounded` gives the least n for which the claim
would fail, and the step from n - 1 refutes it. The functions are therefore
written over `0..N` and not with `RECURSIVE`.

Assumptions are the named `ASSUME`s of the modules, which TLC evaluates.
`DetailAssumption` asks for the four slots of `mpsc::channel(4)`; it,
`CliAssumption`, `UiAssumption` and `SightingsAssumption` say that the values
that stand for "nothing" (`None`, `NoSighting`) are not requests, reports,
contacts or sightings; `UiAssumption` also gives the fields of a contact their
types. The assumptions of `Wizard` (`WizardAssumption`, `NoneAssumption`,
`FilesAssumption`) say the same of its values and give the files it may find their
shape.
Those of the packets are about the world outside the program. `SizesAssumption`
bounds the sizes below. `MessagesAssumption` says what a node can send: fields that
fit their bits, the fields of the payload's type and no others, and the transport
code of the region the packet is scoped to. `HeardAssumption` puts what their
advertisements tell, whole or cut, among the sightings, `ConfiguredAssumption` has
channels and regions in an order. `CipherAssumption`: decrypting undoes encrypting
and keeps the length. `MacAssumption`: the code before a text is not, under the key
of another configured channel on the same byte or over the first blocks only, the
same. The code is cut to two bytes, so that a collision is possible on the air (one
in 65,536); the text such a collision would show is outside the property.
The others are `QueueAssumption`, `ManagementAssumption`, `BrokerAssumption`,
`StreamAssumption`, `ReloadAssumption`, `PrefixSizeAssumption`, `WindowAssumption`
and `NoPidAssumption`.

Only model-checked:

* liveness (`ServedWhenNodeReturns`, `StatusReported`), and `StopsOnlyAtRest`,
  which is stated with `ENABLED`: out of the prover's reach;
* telemetry and region replies (`RepliesRead`): both directions are computed with
  the folds and sorts of the library over whole texts, and with powers of two the
  provers know nothing about;
* the rows and popups of the packet log (`ShownAsHeard`): sums and extremes over
  the receptions behind a row. That these are the receptions of one transmission is
  proved (`RowsAreTransmissions`), and so is what each entry says
  (`PacketsReadRight`).

## Divergences between code and comments

* `client_gives_up`: `COMMAND_TIMEOUT` is how long a client "waits ... before
  giving up", but the send itself has no timer. With the node away and eight
  abandoned requests in the channel every later client handler blocks, and so
  do a broker's status publish (`STATS_REFRESH_TIMEOUT` "must never stall the
  status publish") and the reload watcher ("`SIGHUP` must be handled
  repeatedly").
* `mqtt_loops_forever`: a broker task publishes from inside a branch of its
  `select!`, and a publication waits for a slot that only `poll()` frees. 64
  packets received while the broker is unreachable stop the task for good.
* `groups_newest_first`: `group_packets` says that a group is placed by its most
  recent member; it keeps the place of its first reception.

Visible in a premise or in the model, and not run:

* a repeater removed as a contact and given a tier again is acknowledged without
  being a contact (`HealedAfterConnect`); a reload racing with a save undoes that
  save's acknowledged change, and a file cut short by an interrupted save is
  taken for a configuration with fewer repeaters (`AckedKept`);
* `repeater add` with an upper-case key reports the repeater missing
  (`ReportTruthful`); the region editor lets a level be skipped
  (`SavedAsShown`); the wizard resets `packet_log_capacity`
  (`SaveKeepsUnasked`);
* a packet recorded between a client's subscription and its backlog is listed
  twice (`PacketsListed`), and a list frozen meanwhile has its count of new
  packets too large (`CountsSinceLock`);
* the `channel_hash` published over MQTT is the first byte of the channel's
  secret, not of its hash; two configurations with different sockets and the
  same `db_path` share the store, which the lock does not prevent.

## Plan

All components but one are modelled, and what the runs check of the daemon's
tasks, of the command line and of the dashboard is proved but for the list
above. What is left:

1. `ShownAsHeard`, on top of `RowsAreTransmissions` and `PacketsReadRight`.
2. `RepliesRead`, for which powers and folds would have to become functions.
3. Abstract specifications of the store and of the broker supervision, with the
   steps that implement them.

## Not modelled

* Token claims (`mqtt.rs`): the JSON and base64 of one token, a pure conversion
  with tests of its own. When a token is signed and used is in `MqttBroker`.
* Terminal rendering beyond which rows, sections and fields are shown: layout,
  styles, wording, the node panel of the dashboard (`ui.rs`, `format.rs`,
  `theme.rs`, `status.rs`). Nothing in the program depends on it.
* The wording of published payloads and topic names (`event_payload_json`,
  `topic_for`), conversions between the library's types and the messages of
  `core/src/ipc.rs`, logging.
* Ciphers, hashes and signatures, which are parameters; the MeshCore client
  library, the MQTT library, SQLite and the terminal library beyond what the
  program sees of them.
* Two broker entries of one name in the configuration.
