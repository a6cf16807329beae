--------------------------- MODULE ClientStream ---------------------------
(***************************************************************************)
(* What a terminal UI shows of the daemon.  The mesh task changes the      *)
(* cached snapshot and records packets, announcing both on broadcast       *)
(* channels; a connection handler (server.rs, handle_client) forwards the  *)
(* announcements over the socket and answers requests, one at a time; in   *)
(* the client, ipc_task moves messages between the socket and the UI       *)
(* channels, and the UI loop applies them, asking for a fresh snapshot     *)
(* when an event says the cache changed.                                   *)
(*                                                                         *)
(* The states the daemon's snapshot goes through are numbered; a snapshot  *)
(* is its number and an event carries the number current when it is sent.  *)
(***************************************************************************)
EXTENDS Naturals, Sequences, FiniteSets

CONSTANTS EventCap,    \* entries each broadcast channel keeps (256)
          SocketCap,   \* messages the socket takes before a write blocks
          UiCap,       \* the channel from ipc_task to the UI (256)
          CmdCap,      \* the channel from the UI to ipc_task (8)
          JobCap,      \* the command channel of the mesh task (8)
          LogCap,      \* packet_log_capacity
          MaxShown,    \* MAX_PACKETS (2000)
          MaxNumber,   \* bound: states of the snapshot
          MaxPackets,  \* bound: packets of one daemon process
          MaxKeys      \* bound: commands the user gives

ASSUME StreamAssumption ==
  /\ {EventCap, SocketCap, UiCap, CmdCap, JobCap, LogCap, MaxShown} \subseteq Nat \ {0}
  /\ {MaxNumber, MaxPackets, MaxKeys} \subseteq Nat

\* How a step of the mesh task orders the change and its announcement.
\* "removal": the cache, then one of the events that make a UI ask for it
\* (ContactRemoved, NewContact, TelemetryReceived, Connected, ConfigReloaded);
\* "status": RepeaterStatusChanged, then the cache; "quiet": the cache, then an
\* event no UI asks about.
Change  == {"removal", "status", "quiet"}
Command == {"refresh", "change"}

Packet   == 1..MaxPackets
Snap(n)    == [kind |-> "snapshot", number |-> n]
Note(n, f) == [kind |-> "event", number |-> n, refresh |-> f]
Backlog(s) == [kind |-> "log", entries |-> s]
Entry(p)   == [kind |-> "entry", id |-> p]
Plain(k)   == [kind |-> k]

VARIABLES
  alive,     \* the daemon process
  online,    \* its mesh task is connected: it takes commands and hears packets
  current,   \* the number of state.snapshot
  mesh,      \* "idle", a change half made, or "packet" half recorded
  own,       \* that change is a command of this client
  jobs,      \* commands of this client in the command channel
  log,       \* state.packet_log, newest first
  nextId,    \* state.next_packet_id
  srv,       \* the handler: "none", "subscribed", "snapped", "serving",
             \* "waiting" (for a slot of the command channel), "busy" (for the
             \* outcome of its command), "refused" (has its error to send)
  events, packetFeed,      \* its broadcast receivers
  missedEvent, missedPacket,   \* they lagged
  toClient, toServer,      \* the socket
  ipc,       \* "away", "up" and "down" (to tell the UI), "select", "deliver"
  uiQueue, cmdQueue,
  ui,        \* "idle", or the command its blocked send carries
  connected, shown, packets,   \* App: daemon_connected, snapshot, packets
  heard,     \* history: newest number of an event that made the UI ask
  done,      \* history: number after the last own change reported successful
  keys

daemon  == <<alive, online, current, mesh, own, jobs, log, nextId>>
feeds   == <<events, packetFeed, missedEvent, missedPacket>>
handler == <<srv, feeds>>
socket  == <<toClient, toServer>>
client  == <<ipc, uiQueue, cmdQueue, ui, connected, shown, packets, heard, keys>>
vars    == <<daemon, handler, socket, client, done>>

Init ==
  /\ alive = TRUE /\ online = FALSE /\ current = 0 /\ mesh = "idle" /\ own = FALSE /\ jobs = 0
  /\ log = <<>> /\ nextId = 1
  /\ srv = "none"
  /\ events = <<>> /\ packetFeed = <<>> /\ missedEvent = FALSE /\ missedPacket = FALSE
  /\ toClient = <<>> /\ toServer = <<>>
  /\ ipc = "away" /\ uiQueue = <<>> /\ cmdQueue = <<>> /\ ui = "idle"
  /\ connected = FALSE /\ shown = 0 /\ packets = <<>>
  /\ heard = 0 /\ done = 0 /\ keys = 0

First(s, n) == SubSeq(s, 1, IF Len(s) <= n THEN Len(s) ELSE n)
Newest(s, n) == IF Len(s) <= n THEN s ELSE Tail(s)

-----------------------------------------------------------------------------
(* Faulty variants.                                                        *)

\* The handler subscribes once the backlog is written.
SubscribedLate ==
  /\ srv \in {"serving", "waiting", "busy", "refused"}
  /\ \A i \in 1..Len(toClient) : toClient[i].kind # "log"

\* try_send: a command that finds the channel full is dropped.
AskDropping(c) ==
  /\ cmdQueue' = IF Len(cmdQueue) < CmdCap THEN Append(cmdQueue, c) ELSE cmdQueue
  /\ UNCHANGED ui

\* The backlog of a new connection is added to the list.
SetPacketLogAdding(entries) == packets' = First(entries \o packets, MaxShown)

\* set_repeater_status broadcasts nothing of its own.
AnnouncesWithoutStatus(change) == change = "removal"

\* The end of the stream does not end the inner loop.
SeeEndIgnored == FALSE /\ UNCHANGED vars

-----------------------------------------------------------------------------
(* The mesh task.                                                          *)

\* Both receivers exist from the start of handle_client to its end.
Subscribed == srv # "none"

\* A broadcast to the handler, if there is one; a full receiver loses its
\* oldest entry.
BroadcastEvent(m) ==
  IF Subscribed
  THEN /\ events' = Newest(Append(events, m), EventCap)
       /\ missedEvent' = (missedEvent \/ Len(events) = EventCap)
  ELSE UNCHANGED <<events, missedEvent>>

\* The events of needs_fresh_snapshot.
Announces(change) == change \in {"removal", "status"}

\* The mesh task starts a change: a command of this client, or anything else.
BeginChange(change, mine) ==
  /\ alive /\ mesh = "idle"
  /\ current < MaxNumber
  /\ IF mine THEN online /\ jobs > 0 /\ change # "quiet" /\ jobs' = jobs - 1 ELSE UNCHANGED jobs
  /\ mesh' = change
  /\ own' = mine
  /\ IF change = "status"
     THEN BroadcastEvent(Note(current, Announces("status"))) /\ UNCHANGED current
     ELSE current' = current + 1 /\ UNCHANGED <<events, missedEvent>>
  /\ UNCHANGED <<alive, online, log, nextId, srv, packetFeed, missedPacket, socket, client, done>>

\* The handler waits for the last command it forwarded, and for no other.
Awaited == srv = "busy" /\ jobs' = 0

\* The second half of a change, and the reply when it was a command.
EndChange ==
  /\ mesh \in Change
  /\ IF mesh = "status"
     THEN current' = current + 1 /\ UNCHANGED <<events, missedEvent>>
     ELSE BroadcastEvent(Note(current, Announces(mesh))) /\ UNCHANGED current
  /\ mesh' = "idle" /\ own' = FALSE
  /\ UNCHANGED jobs
  /\ IF own /\ Awaited
     THEN srv' = "serving" /\ done' = current'
     ELSE UNCHANGED <<srv, done>>
  /\ UNCHANGED <<alive, online, log, nextId, packetFeed, missedPacket, socket, client>>

\* A command fails and changes nothing.
FailCommand ==
  /\ online /\ mesh = "idle" /\ jobs > 0
  /\ jobs' = jobs - 1
  /\ srv' = IF Awaited THEN "refused" ELSE srv
  /\ UNCHANGED <<alive, online, current, mesh, own, log, nextId, feeds, socket, client, done>>

\* record_packet: first the log, under its lock, ...
BeginPacket ==
  /\ online /\ mesh = "idle"
  /\ nextId <= MaxPackets
  /\ nextId' = nextId + 1
  /\ log' = First(<<nextId>> \o log, LogCap)
  /\ mesh' = "packet"
  /\ UNCHANGED <<alive, online, current, own, jobs, handler, socket, client, done>>

\* ... then the broadcast.
EndPacket ==
  /\ mesh = "packet"
  /\ mesh' = "idle"
  /\ IF Subscribed
     THEN /\ packetFeed' = Newest(Append(packetFeed, Head(log)), EventCap)
          /\ missedPacket' = (missedPacket \/ Len(packetFeed) = EventCap)
     ELSE UNCHANGED <<packetFeed, missedPacket>>
  /\ UNCHANGED <<alive, online, current, own, jobs, log, nextId, srv, events, missedEvent,
                 socket, client, done>>

\* The loop over commands and events ends, and the task tries to connect again; what
\* connecting or the end of a connection changes is a change like any other.
NodeLeaves ==
  /\ online /\ mesh = "idle"
  /\ online' = FALSE
  /\ UNCHANGED <<alive, current, mesh, own, jobs, log, nextId, handler, socket, client, done>>

NodeReturns ==
  /\ alive /\ ~online /\ mesh = "idle"
  /\ online' = TRUE
  /\ UNCHANGED <<alive, current, mesh, own, jobs, log, nextId, handler, socket, client, done>>

\* The daemon ends, its handlers with it, and comes back with an empty snapshot
\* (a state of its own) and an empty packet log.  What it wrote can still be read.
Stop ==
  /\ alive /\ current < MaxNumber
  /\ alive' = FALSE /\ online' = FALSE
  /\ current' = current + 1
  /\ mesh' = "idle" /\ own' = FALSE /\ jobs' = 0
  /\ log' = <<>> /\ nextId' = 1
  /\ srv' = "none"
  /\ events' = <<>> /\ packetFeed' = <<>>
  /\ toServer' = <<>>
  /\ UNCHANGED <<missedEvent, missedPacket, toClient, client, done>>

Start ==
  /\ ~alive /\ alive' = TRUE
  /\ UNCHANGED <<online, current, mesh, own, jobs, log, nextId, handler, socket, client, done>>

-----------------------------------------------------------------------------
(* The connection handler.                                                 *)

\* A message in the socket is written, or being written: the handler does
\* nothing else until it fits.
Send(m) ==
  /\ Len(toClient) < SocketCap
  /\ toClient' = Append(toClient, m)

SendSnapshot ==
  /\ srv = "subscribed" /\ Send(Snap(current))
  /\ srv' = "snapped"
  /\ UNCHANGED <<daemon, feeds, toServer, client, done>>

SendBacklog ==
  /\ srv = "snapped" /\ Send(Backlog(log))
  /\ srv' = "serving"
  /\ UNCHANGED <<daemon, feeds, toServer, client, done>>

ForwardEvent ==
  /\ srv = "serving" /\ events # <<>>
  /\ Send(Head(events))
  /\ events' = Tail(events)
  /\ UNCHANGED <<daemon, srv, packetFeed, missedEvent, missedPacket, toServer, client, done>>

ForwardPacket ==
  /\ srv = "serving" /\ packetFeed # <<>>
  /\ Send(Entry(Head(packetFeed)))
  /\ packetFeed' = Tail(packetFeed)
  /\ UNCHANGED <<daemon, srv, events, missedEvent, missedPacket, toServer, client, done>>

AnswerRefresh ==
  /\ srv = "serving" /\ toServer # <<>> /\ Head(toServer) = "refresh"
  /\ Send(Snap(current))
  /\ toServer' = Tail(toServer)
  /\ UNCHANGED <<daemon, handler, client, done>>

\* dispatch_command: the handler forwards a command and waits for its outcome,
\* reading neither the receivers nor the socket.  No timer runs while it waits for a
\* slot: its own commands given up before, and those of other tasks, may hold them all.
DispatchCommand ==
  /\ srv = "serving" /\ toServer # <<>> /\ Head(toServer) = "change"
  /\ toServer' = Tail(toServer)
  /\ \/ jobs < JobCap /\ jobs' = jobs + 1 /\ srv' = "busy"
     \/ srv' = "waiting" /\ UNCHANGED jobs
  /\ UNCHANGED <<alive, online, current, mesh, own, log, nextId, feeds, toClient, client, done>>

\* The connected mesh task has taken the commands that were before it.
GetSlot ==
  /\ srv = "waiting" /\ online /\ mesh = "idle"
  /\ jobs < JobCap
  /\ jobs' = jobs + 1
  /\ srv' = "busy"
  /\ UNCHANGED <<alive, online, current, mesh, own, log, nextId, feeds, socket, client, done>>

\* COMMAND_TIMEOUT: the handler goes on, the command stays where it is.
GiveUp ==
  /\ srv = "busy"
  /\ srv' = "refused"
  /\ UNCHANGED <<daemon, feeds, socket, client, done>>

SendError ==
  /\ srv = "refused" /\ Send(Plain("error"))
  /\ srv' = "serving"
  /\ UNCHANGED <<daemon, feeds, toServer, client, done>>

-----------------------------------------------------------------------------
(* The client: ipc_task.                                                   *)

Tell(m) ==
  /\ Len(uiQueue) < UiCap
  /\ uiQueue' = Append(uiQueue, m)

\* The connection is made, and the daemon's handler starts by subscribing.
Connect ==
  /\ ipc = "away" /\ alive
  /\ ipc' = "up"
  /\ srv' = "subscribed"
  /\ events' = <<>> /\ packetFeed' = <<>> /\ missedEvent' = FALSE /\ missedPacket' = FALSE
  /\ toClient' = <<>> /\ toServer' = <<>>
  /\ UNCHANGED <<daemon, uiQueue, cmdQueue, ui, connected, shown, packets, heard, keys, done>>

ConnectFails ==
  /\ ipc = "away" /\ ~alive
  /\ ipc' = "down"
  /\ UNCHANGED <<daemon, handler, socket, uiQueue, cmdQueue, ui, connected, shown,
                 packets, heard, keys, done>>

\* ui_tx.send of DaemonConnected or DaemonDisconnected; after the latter
\* ipc_task sleeps and tries again.
TellLink ==
  /\ ipc \in {"up", "down"}
  /\ Tell(Plain(ipc))
  /\ ipc' = IF ipc = "up" THEN "select" ELSE "away"
  /\ UNCHANGED <<daemon, handler, socket, cmdQueue, ui, connected, shown, packets,
                 heard, keys, done>>

Deliver ==
  /\ ipc \in {"select", "deliver"} /\ toClient # <<>>
  /\ Tell(Head(toClient))
  /\ toClient' = Tail(toClient)
  /\ ipc' = "select"
  /\ UNCHANGED <<daemon, handler, toServer, cmdQueue, ui, connected, shown, packets,
                 heard, keys, done>>

\* The message is read but the UI's channel is full: ui_tx.send waits, and the
\* commands wait with it.
DeliverBlocks ==
  /\ ipc = "select" /\ toClient # <<>>
  /\ Len(uiQueue) >= UiCap
  /\ ipc' = "deliver"
  /\ UNCHANGED <<daemon, handler, socket, uiQueue, cmdQueue, ui, connected, shown,
                 packets, heard, keys, done>>

\* conn.send fails when the handler has gone, and the command is lost.
SendCommand ==
  /\ ipc = "select" /\ cmdQueue # <<>>
  /\ cmdQueue' = Tail(cmdQueue)
  /\ IF srv # "none"
     THEN toServer' = Append(toServer, Head(cmdQueue)) /\ UNCHANGED <<toClient, ipc>>
     ELSE toClient' = <<>> /\ ipc' = "down" /\ UNCHANGED toServer
  /\ UNCHANGED <<daemon, handler, uiQueue, ui, connected, shown, packets, heard, keys, done>>

SeeEnd ==
  /\ ipc = "select" /\ toClient = <<>> /\ srv = "none"
  /\ ipc' = "down"
  /\ UNCHANGED <<daemon, handler, socket, uiQueue, cmdQueue, ui, connected, shown,
                 packets, heard, keys, done>>

-----------------------------------------------------------------------------
(* The client: the UI loop.                                                *)

\* cmd_tx.send, which the loop awaits before it does anything else.
Ask(c) ==
  IF Len(cmdQueue) < CmdCap
  THEN cmdQueue' = Append(cmdQueue, c) /\ UNCHANGED ui
  ELSE ui' = c /\ UNCHANGED cmdQueue

Unblock ==
  /\ ui # "idle" /\ Len(cmdQueue) < CmdCap
  /\ cmdQueue' = Append(cmdQueue, ui)
  /\ ui' = "idle"
  /\ UNCHANGED <<daemon, handler, socket, ipc, uiQueue, connected, shown, packets,
                 heard, keys, done>>

\* The next message for the UI is of a kind.
Receive(kinds) ==
  /\ ui = "idle" /\ uiQueue # <<>>
  /\ Head(uiQueue).kind \in kinds
  /\ uiQueue' = Tail(uiQueue)

SetPacketLog(entries) == packets' = First(entries, MaxShown)
PushPacket(p) == packets' = First(<<p>> \o packets, MaxShown)

ApplyLink ==
  /\ Receive({"up", "down"})
  /\ connected' = (Head(uiQueue).kind = "up")
  /\ UNCHANGED <<daemon, handler, socket, ipc, cmdQueue, ui, shown, packets, heard, keys, done>>

ApplySnapshot ==
  /\ Receive({"snapshot"})
  /\ shown' = Head(uiQueue).number
  /\ UNCHANGED <<daemon, handler, socket, ipc, cmdQueue, ui, connected, packets,
                 heard, keys, done>>

ApplyEvent ==
  /\ Receive({"event"})
  /\ LET m == Head(uiQueue) IN
       IF m.refresh
       THEN heard' = m.number /\ Ask("refresh")
       ELSE UNCHANGED <<heard, cmdQueue, ui>>
  /\ UNCHANGED <<daemon, handler, socket, ipc, connected, shown, packets, keys, done>>

ApplyBacklog ==
  /\ Receive({"log"})
  /\ SetPacketLog(Head(uiQueue).entries)
  /\ UNCHANGED <<daemon, handler, socket, ipc, cmdQueue, ui, connected, shown, heard, keys, done>>

ApplyEntry ==
  /\ Receive({"entry"})
  /\ PushPacket(Head(uiQueue).id)
  /\ UNCHANGED <<daemon, handler, socket, ipc, cmdQueue, ui, connected, shown, heard, keys, done>>

ApplyError ==
  /\ Receive({"error"})
  /\ UNCHANGED <<daemon, handler, socket, ipc, cmdQueue, ui, connected, shown, packets,
                 heard, keys, done>>

\* 'r', or a confirmed deletion or a status key on the selected contact.
Key(c) ==
  /\ ui = "idle" /\ keys < MaxKeys
  /\ keys' = keys + 1
  /\ Ask(c)
  /\ UNCHANGED <<daemon, handler, socket, ipc, uiQueue, connected, shown, packets, heard, done>>

-----------------------------------------------------------------------------
ServerStep == SendSnapshot \/ SendBacklog \/ ForwardEvent \/ ForwardPacket
              \/ AnswerRefresh \/ DispatchCommand \/ GetSlot \/ GiveUp \/ SendError

IpcStep == Connect \/ ConnectFails \/ TellLink \/ Deliver \/ DeliverBlocks
           \/ SendCommand \/ SeeEnd

UiStep == Unblock \/ ApplyLink \/ ApplySnapshot \/ ApplyEvent \/ ApplyBacklog
          \/ ApplyEntry \/ ApplyError

\* What runs by itself: everything but the mesh, the node's connection, the user and the
\* end of the daemon.
Machinery == EndChange \/ FailCommand \/ EndPacket \/ Start
             \/ ServerStep \/ IpcStep \/ UiStep

Surroundings ==
  \/ \E change \in Change, mine \in BOOLEAN : BeginChange(change, mine)
  \/ BeginPacket \/ NodeLeaves \/ NodeReturns
  \/ Stop
  \/ \E c \in Command : Key(c)

Next == Machinery \/ Surroundings

Spec == Init /\ [][Next]_vars

-----------------------------------------------------------------------------
(* Properties.                                                             *)

Number  == 0..MaxNumber
Event   == [kind : {"event"}, number : Number, refresh : BOOLEAN]
Message == [kind : {"snapshot"}, number : Number] \cup Event
           \cup [kind : {"log"}, entries : Seq(Packet)]
           \cup [kind : {"entry"}, id : Packet]
           \cup [kind : {"error"}]
UiEvent == Message \cup [kind : {"up", "down"}]

\* The type invariant of the whole path from the mesh task to the screen.
TypeOK ==
  /\ alive \in BOOLEAN /\ online \in BOOLEAN /\ current \in Number
  /\ mesh \in Change \cup {"idle", "packet"} /\ own \in BOOLEAN /\ jobs \in 0..JobCap
  /\ log \in Seq(Packet) /\ Len(log) <= LogCap
  /\ nextId \in 1..MaxPackets + 1
  /\ srv \in {"none", "subscribed", "snapped", "serving", "waiting", "busy", "refused"}
  /\ events \in Seq(Event) /\ Len(events) <= EventCap
  /\ packetFeed \in Seq(Packet) /\ Len(packetFeed) <= EventCap
  /\ missedEvent \in BOOLEAN /\ missedPacket \in BOOLEAN
  /\ toClient \in Seq(Message) /\ Len(toClient) <= SocketCap
  /\ toServer \in Seq(Command)
  /\ ipc \in {"away", "up", "down", "select", "deliver"}
  /\ uiQueue \in Seq(UiEvent) /\ Len(uiQueue) <= UiCap
  /\ cmdQueue \in Seq(Command) /\ Len(cmdQueue) <= CmdCap
  /\ ui \in Command \cup {"idle"}
  /\ connected \in BOOLEAN /\ shown \in Number
  /\ packets \in Seq(Packet) /\ Len(packets) <= MaxShown
  /\ heard \in Number /\ done \in Number
  /\ keys \in 0..MaxKeys

\* The client's part of the path has moved all it was given.
ClientIdle ==
  toClient = <<>> /\ ipc = "select" /\ uiQueue = <<>> /\ cmdQueue = <<>> /\ ui = "idle"

\* Connected, and nothing on its way.
Rest ==
  /\ alive /\ mesh = "idle"
  /\ srv = "serving" /\ events = <<>> /\ packetFeed = <<>>
  /\ toServer = <<>> /\ ClientIdle

\* After whatever reconnections, lost entries and blocked sends: at rest the
\* dashboard says it is connected and shows a snapshot no older than any event
\* that told it the daemon's cache changed (apply_ui_event).
UpToDateAtRest == Rest => connected /\ shown >= heard

\* The handler waits for a command before it forwards an event or answers
\* anything, so a UI whose own command was reported successful ends up showing
\* its effect, even where the event precedes the change (set_repeater_status).
\* Another UI has no such promise.
OwnChangeShown == Rest /\ ~missedEvent => shown >= done

NewestFirst(s) == \A i, j \in 1..Len(s) : i < j => s[i] > s[j]

\* The handler subscribes before it reads the backlog (handle_client), so no
\* packet of the daemon's log falls between the two, unless the receiver lagged
\* or the UI's own list is full.  The packets recorded between the two are in
\* both and come a second time: the list is newest first but for that one seam
\* (set_packet_log, push_packet).
PacketsListed ==
  /\ Rest /\ ~missedPacket /\ Len(packets) < MaxShown =>
       \A i \in 1..Len(log) : \E j \in 1..Len(packets) : packets[j] = log[i]
  /\ \E k \in 0..Len(packets) :
       /\ NewestFirst(SubSeq(packets, 1, k))
       /\ NewestFirst(SubSeq(packets, k + 1, Len(packets)))

\* ipc_task waits for room in the UI's channel while the UI waits for room in
\* the channel to ipc_task.
Wedged ==
  /\ ui # "idle" /\ Len(cmdQueue) >= CmdCap
  /\ ipc \in {"up", "down", "deliver"} /\ Len(uiQueue) >= UiCap

\* The handler waits for a slot of the command channel while the mesh task tries to
\* connect: of the client's requests, what it had sent before is answered.
Stranded == alive /\ ~online /\ mesh = "idle" /\ srv = "waiting" /\ ClientIdle

\* Nothing else stops the machinery short of rest: no message, request or connection is
\* left waiting for ever, and no command but while the node is away.
StopsOnlyAtRest ==
  ~ENABLED Machinery => Wedged \/ Stranded \/ (Rest /\ (online => jobs = 0))
=============================================================================
