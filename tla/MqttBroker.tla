---------------------------- MODULE MqttBroker ----------------------------
(***************************************************************************)
(* One MQTT broker task of the daemon (mqtt.rs, run_broker): it follows    *)
(* the mesh connection over a broadcast channel, keeps the retained status *)
(* topic of its broker up to date, forwards packets, and renews its        *)
(* device-signed credentials.  Around it: the mesh task, which announces   *)
(* the connection, and rumqttc with the MQTT server, known from how the    *)
(* task uses them.                                                         *)
(*                                                                         *)
(* Publishing only puts a request in a bounded queue; the queue is emptied *)
(* by eventloop.poll(), which the same task calls, between two events.     *)
(***************************************************************************)
EXTENDS Naturals, Sequences

CONSTANTS Configs,     \* the configurations a broker can have
          Capacity,    \* requests the client queues (64)
          EventCap,    \* events the broadcast channel keeps (256)
          MaxForwards  \* publications of one raw event (3)

Config == [highLevel : BOOLEAN, deviceAuth : BOOLEAN, tls : BOOLEAN]

ASSUME BrokerAssumption ==
  /\ Configs # {} /\ Configs \subseteq Config
  /\ Capacity \in Nat \ {0}
  /\ EventCap \in Nat \ {0}
  /\ MaxForwards \in Nat

Transition == {"up", "down"}
Event   == Transition \cup {"other"}
Request == {"online", "offline", "packet", "disconnect"}

VARIABLES
  link,       \* the mesh task: "down", then "opening" (the snapshot says connected),
              \* "described" (device_info is set), "up" (announced), "lost" (left, announced)
  selfKnown, deviceKnown,   \* AppState: self_info, device_info
  config,     \* of this broker
  pc,         \* where the task is
  crowded,    \* the command it sends waits for a slot of the mesh task's channel
  believed,   \* its mesh_connected
  mqttUp,     \* its mqtt_connected
  events, lagged,           \* its receiver of mesh events
  raw,        \* there is an event in its receiver of raw events
  out,        \* what the branch it is in still has to publish
  requests,   \* rumqttc's request queue
  session,    \* rumqttc's connection: "none", "up", "broken" (not noticed yet), "closed" (by us)
  renewed,    \* the credentials are newer than those of the connection
  retained,   \* the status topic, on the server
  willDue,    \* the server has yet to publish the will of a lost connection
  lateWill,   \* the same for a previous process: "none", "due", "fired"
  misled      \* history: the task believes something no event will correct

mesh == <<link, selfKnown, deviceKnown>>
task == <<config, pc, crowded, believed, mqttUp, out>>
feed == <<events, lagged, raw>>
net  == <<requests, session, renewed>>
srv  == <<retained, willDue, lateWill>>
vars == <<mesh, task, feed, net, srv, misled>>

\* snapshot.mesh_connected
Snapshot == link # "down"
Subscribed == pc \notin {"waiting", "signing", "setup", "ended"}

Status(connected) == IF connected /\ deviceKnown THEN "online" ELSE "offline"
Announced(e) == \E i \in DOMAIN events : events[i] = e
\* Reading the snapshot is misleading between the announcement and the update
\* of the snapshot, unless the announcement is still to be received.
Misreads == link = "lost" /\ ~Announced("down")

FirstStep(c) == IF c.deviceAuth THEN "waiting" ELSE "setup"

Init ==
  /\ link = "down" /\ selfKnown = FALSE /\ deviceKnown = FALSE
  /\ config \in Configs
  /\ pc = FirstStep(config) /\ crowded = FALSE
  /\ believed = FALSE /\ mqttUp = FALSE /\ out = <<>>
  /\ events = <<>> /\ lagged = FALSE /\ raw = FALSE
  /\ requests = <<>> /\ session = "none" /\ renewed = FALSE
  /\ retained = "none" /\ willDue = FALSE /\ lateWill = "none"
  /\ misled = FALSE

-----------------------------------------------------------------------------
(* The mesh task.                                                          *)

\* broadcast_event: a receiver that is behind loses the oldest event.
Broadcast(e) ==
  IF ~Subscribed THEN UNCHANGED <<events, lagged, misled>>
  ELSE IF Len(events) < EventCap
  THEN events' = Append(events, e) /\ UNCHANGED <<lagged, misled>>
  ELSE /\ events' = Append(Tail(events), e)
       /\ lagged' = TRUE
       /\ misled' = (misled \/ (Head(events) \in Transition
                                /\ \A i \in DOMAIN events' : events'[i] \notin Transition))

MeshConnects ==
  /\ link = "down"
  /\ link' = "opening" /\ selfKnown' = TRUE
  /\ UNCHANGED <<deviceKnown, task, feed, net, srv, misled>>

\* The query is best effort: None replaces what was known.
MeshDescribes ==
  /\ link = "opening"
  /\ link' = "described" /\ deviceKnown' \in BOOLEAN
  /\ UNCHANGED <<selfKnown, task, feed, net, srv, misled>>

MeshAnnounces ==
  /\ link = "described"
  /\ link' = "up"
  /\ Broadcast("up")
  /\ UNCHANGED <<raw, selfKnown, deviceKnown, task, net, srv>>

\* Every event of the node is broadcast as it is; some as a MeshEvent too.
MeshEvent ==
  /\ link = "up"
  /\ raw' = Subscribed
  /\ Broadcast("other") \/ UNCHANGED <<events, lagged, misled>>
  /\ UNCHANGED <<mesh, task, net, srv>>

\* Announced from the event itself or after the loop, once either way.
MeshLost ==
  /\ link = "up"
  /\ link' = "lost"
  /\ Broadcast("down")
  /\ UNCHANGED <<raw, selfKnown, deviceKnown, task, net, srv>>

MeshCleared ==
  /\ link = "lost"
  /\ link' = "down"
  /\ UNCHANGED <<selfKnown, deviceKnown, task, feed, net, srv, misled>>

-----------------------------------------------------------------------------
(* The task: start.                                                        *)

SelfInfoKnown ==
  /\ pc = "waiting" /\ selfKnown
  /\ pc' = "signing" /\ crowded' \in BOOLEAN
  /\ UNCHANGED <<mesh, config, believed, mqttUp, out, feed, net, srv, misled>>

SelfInfoTimesOut ==
  /\ pc = "waiting" /\ ~selfKnown
  /\ pc' = "ended"
  /\ UNCHANGED <<mesh, config, crowded, believed, mqttUp, out, feed, net, srv, misled>>

\* sign_via_mesh: once the command has a slot, the signature or its timeout.
FirstSignature ==
  /\ pc = "signing" /\ ~crowded
  /\ pc' \in {"setup", "ended"}
  /\ UNCHANGED <<mesh, config, crowded, believed, mqttUp, out, feed, net, srv, misled>>

InvalidTransport ==
  /\ pc = "setup" /\ config.tls
  /\ pc' = "ended"
  /\ UNCHANGED <<mesh, config, crowded, believed, mqttUp, out, feed, net, srv, misled>>

Subscribe ==
  /\ pc = "setup"
  /\ pc' = "reading"
  /\ UNCHANGED <<mesh, config, crowded, believed, mqttUp, out, feed, net, srv, misled>>

ReadSnapshot ==
  /\ pc = "reading"
  /\ believed' = Snapshot
  /\ misled' = Misreads
  /\ pc' = "select"
  /\ UNCHANGED <<mesh, config, crowded, mqttUp, out, feed, net, srv>>

-----------------------------------------------------------------------------
(* The task: publications.  The branch of select! that publishes does not  *)
(* return to it before every request is queued.                            *)

\* publish_current_status, up to the wait for fresh statistics.
PublishStatus(connected) ==
  IF config.highLevel /\ selfKnown
  THEN pc' = "stats" /\ crowded' \in BOOLEAN /\ out' = <<Status(connected)>>
  ELSE pc' = "select" /\ UNCHANGED <<crowded, out>>

(* Faulty variants, one for each way the properties below could be lost.   *)

\* An unbounded request queue.
PublishUnbounded ==
  /\ pc = "publishing" /\ out # <<>>
  /\ requests' = Append(requests, Head(out))
  /\ out' = Tail(out)
  /\ pc' = IF out' = <<>> THEN "select" ELSE pc
  /\ UNCHANGED <<mesh, config, crowded, believed, mqttUp, feed, session, renewed, srv, misled>>

\* A new connection publishes no status.
ConnAckSilent ==
  /\ pc = "select" /\ session = "none"
  /\ session' = "up" /\ renewed' = FALSE
  /\ mqttUp' = TRUE
  /\ believed' = Snapshot
  /\ misled' = Misreads
  /\ willDue' = FALSE
  /\ retained' = IF willDue THEN "will" ELSE retained
  /\ UNCHANGED <<mesh, config, crowded, pc, out, feed, requests, lateWill>>

\* New credentials wait for the connection to end by itself.
SignedOnly ==
  /\ pc = "resigning" /\ ~crowded
  /\ renewed' = (session # "none")
  /\ pc' = "select"
  /\ UNCHANGED <<mesh, config, crowded, believed, mqttUp, out, feed, requests, session, srv, misled>>

\* A transition of the mesh connection is left to the next heartbeat.
ReceiveMeshEventSilent ==
  /\ pc = "select" /\ ~lagged
  /\ events # <<>>
  /\ events' = Tail(events)
  /\ IF Head(events) \in Transition
     THEN believed' = (Head(events) = "up") /\ misled' = FALSE
     ELSE UNCHANGED <<believed, misled>>
  /\ UNCHANGED <<mesh, config, crowded, pc, out, mqttUp, lagged, raw, net, srv>>

-----------------------------------------------------------------------------
\* The send of a command, in refresh_node_stats and sign_via_mesh, has no timer: who asked
\* first gets the next slot, and only the loop of the connected mesh task frees one.
SlotFreed ==
  /\ crowded /\ link = "up"
  /\ crowded' = FALSE
  /\ UNCHANGED <<mesh, config, pc, believed, mqttUp, out, feed, net, srv, misled>>

\* refresh_node_stats was answered, or gave up waiting for the answer.
StatsReady ==
  /\ pc = "stats" /\ ~crowded
  /\ pc' = "publishing"
  /\ UNCHANGED <<mesh, config, crowded, believed, mqttUp, out, feed, net, srv, misled>>

Publish ==
  /\ pc = "publishing" /\ out # <<>>
  /\ Len(requests) < Capacity
  /\ requests' = Append(requests, Head(out))
  /\ out' = Tail(out)
  /\ pc' = IF out' = <<>> THEN "select" ELSE pc
  /\ UNCHANGED <<mesh, config, crowded, believed, mqttUp, feed, session, renewed, srv, misled>>

-----------------------------------------------------------------------------
(* The task: the branches of its loop.                                     *)

\* poll() returned a ConnAck.  The server publishes the will of the connection
\* the new one replaces first.
ConnAck ==
  /\ pc = "select" /\ session = "none"
  /\ session' = "up" /\ renewed' = FALSE
  /\ mqttUp' = TRUE
  /\ believed' = Snapshot
  /\ misled' = Misreads
  /\ PublishStatus(Snapshot)
  /\ willDue' = FALSE
  /\ retained' = IF willDue THEN "will" ELSE retained
  /\ UNCHANGED <<mesh, config, feed, requests, lateWill>>

ConnectFails ==
  /\ pc = "select" /\ session = "none"
  /\ mqttUp' = FALSE
  /\ pc' = "asleep"
  /\ UNCHANGED <<mesh, config, crowded, believed, out, feed, net, srv, misled>>

\* poll() wrote the oldest request; only a live connection delivers it.
Send ==
  /\ pc = "select" /\ session # "none"
  /\ requests # <<>>
  /\ requests' = Tail(requests)
  /\ LET r == Head(requests) IN
     /\ session' = IF r = "disconnect" THEN "closed" ELSE session
     /\ IF session = "up" /\ r \in {"online", "offline"}
        THEN /\ retained' = r
             /\ lateWill' = IF lateWill = "fired" THEN "none" ELSE lateWill
        ELSE UNCHANGED <<retained, lateWill>>
  /\ UNCHANGED <<mesh, task, feed, renewed, willDue, misled>>

\* poll() noticed the end of the connection: what was queued is forgotten.
ConnectionLost ==
  /\ pc = "select" /\ session \in {"broken", "closed"}
  /\ session' = "none" /\ requests' = <<>>
  /\ mqttUp' = FALSE
  /\ pc' = "asleep"
  /\ UNCHANGED <<mesh, config, crowded, believed, out, feed, renewed, srv, misled>>

Wake ==
  /\ pc = "asleep"
  /\ pc' = "select"
  /\ UNCHANGED <<mesh, config, crowded, believed, mqttUp, out, feed, net, srv, misled>>

Heartbeat ==
  /\ pc = "select" /\ mqttUp
  /\ PublishStatus(believed)
  /\ UNCHANGED <<mesh, config, believed, mqttUp, feed, net, srv, misled>>

RefreshDue ==
  /\ pc = "select" /\ config.deviceAuth /\ selfKnown
  /\ pc' = "resigning" /\ crowded' \in BOOLEAN
  /\ UNCHANGED <<mesh, config, believed, mqttUp, out, feed, net, srv, misled>>

\* set_credentials, then a disconnection for them to be used.
Signed ==
  /\ pc = "resigning" /\ ~crowded
  /\ renewed' = (session # "none")
  /\ IF mqttUp
     THEN pc' = "publishing" /\ out' = <<"disconnect">>
     ELSE pc' = "select" /\ UNCHANGED out
  /\ UNCHANGED <<mesh, config, crowded, believed, mqttUp, feed, requests, session, srv, misled>>

SigningFails ==
  /\ pc = "resigning" /\ ~crowded
  /\ pc' = "select"
  /\ UNCHANGED <<mesh, config, crowded, believed, mqttUp, out, feed, net, srv, misled>>

ReceiveMeshEvent ==
  /\ pc = "select" /\ ~lagged
  /\ events # <<>>
  /\ events' = Tail(events)
  /\ IF Head(events) \in Transition
     THEN /\ believed' = (Head(events) = "up")
          /\ misled' = FALSE
          /\ PublishStatus(Head(events) = "up")
     ELSE UNCHANGED <<believed, misled, pc, crowded, out>>
  /\ UNCHANGED <<mesh, config, mqttUp, lagged, raw, net, srv>>

ReceiveLagged ==
  /\ pc = "select" /\ lagged
  /\ lagged' = FALSE
  /\ UNCHANGED <<mesh, task, events, raw, net, srv, misled>>

\* publish_event and publish_raw_packet.  How many more raw events are buffered,
\* and how many were lost, makes no difference here.
ReceiveRawEvent ==
  /\ pc = "select" /\ raw
  /\ raw' \in BOOLEAN
  /\ \E n \in 1..MaxForwards :
       out' = [i \in 1..n |-> "packet"]
  /\ pc' = "publishing"
  /\ UNCHANGED <<mesh, config, crowded, believed, mqttUp, events, lagged, net, srv, misled>>

-----------------------------------------------------------------------------
(* The network, the server, and the life of the task.                      *)

NetworkBreaks ==
  /\ session = "up"
  /\ session' = "broken"
  /\ willDue' = config.highLevel
  /\ UNCHANGED <<mesh, task, feed, requests, renewed, retained, lateWill, misled>>

WillPublished ==
  /\ willDue
  /\ willDue' = FALSE /\ retained' = "will"
  /\ UNCHANGED <<mesh, task, feed, net, lateWill, misled>>

\* Client ids hold the process id: no takeover orders this will.
LateWillPublished ==
  /\ lateWill = "due"
  /\ lateWill' = "fired" /\ retained' = "will"
  /\ UNCHANGED <<mesh, task, feed, net, willDue, misled>>

FreshTask ==
  /\ config' \in Configs
  /\ pc' = FirstStep(config') /\ crowded' = FALSE
  /\ believed' = FALSE /\ mqttUp' = FALSE /\ out' = <<>>
  /\ events' = <<>> /\ lagged' = FALSE /\ raw' = FALSE
  /\ requests' = <<>> /\ session' = "none" /\ renewed' = FALSE
  /\ misled' = FALSE

\* The will of the connection that is dropped with the task.
WillLeft == willDue \/ (session = "up" /\ config.highLevel)

\* reload_once: the task is aborted wherever it waits, and started again.
Reloaded ==
  /\ FreshTask
  /\ willDue' = WillLeft
  /\ UNCHANGED <<mesh, retained, lateWill>>

\* The daemon is stopped or dies, and is started again.
Restarted ==
  /\ FreshTask
  /\ link' = "down" /\ selfKnown' = FALSE /\ deviceKnown' = FALSE
  /\ willDue' = FALSE
  /\ lateWill' = IF WillLeft THEN "due" ELSE lateWill
  /\ UNCHANGED retained

MeshTask ==
  \/ MeshConnects \/ MeshDescribes \/ MeshAnnounces
  \/ MeshEvent \/ MeshLost \/ MeshCleared
Start ==
  \/ SelfInfoKnown \/ SelfInfoTimesOut \/ FirstSignature
  \/ InvalidTransport \/ Subscribe \/ ReadSnapshot
Poll == ConnAck \/ ConnectFails \/ Send \/ ConnectionLost
Loop ==
  \/ SlotFreed \/ StatsReady \/ Publish \/ Wake
  \/ Heartbeat \/ RefreshDue \/ Signed \/ SigningFails
  \/ ReceiveMeshEvent \/ ReceiveLagged \/ ReceiveRawEvent
Surroundings ==
  \/ NetworkBreaks \/ WillPublished \/ LateWillPublished
  \/ Reloaded \/ Restarted
Next == MeshTask \/ Start \/ Poll \/ Loop \/ Surroundings
Spec == Init /\ [][Next]_vars

\* The mesh task does not stop between two of its steps, and takes commands as long as
\* it is connected; nor does the task stop, but where it waits for a slot.
\* Strong fairness for the branches of select!, which picks one of the ready
\* ones at random, and for a server that can be reached now and then.
Fairness ==
  /\ WF_vars(MeshDescribes \/ MeshAnnounces \/ MeshCleared)
  /\ WF_vars(Start \/ StatsReady \/ Publish \/ Wake \/ Signed \/ SigningFails)
  /\ WF_vars(SlotFreed)
  /\ SF_vars(ConnAck \/ ConnectionLost) /\ SF_vars(Send)
  /\ SF_vars(ReceiveMeshEvent \/ ReceiveLagged)
LiveSpec == Spec /\ Fairness

-----------------------------------------------------------------------------
(* Properties.                                                             *)

\* Every variable keeps its type (AppState and the locals of run_broker).
TypeOK ==
  /\ link \in {"down", "opening", "described", "up", "lost"}
  /\ selfKnown \in BOOLEAN /\ deviceKnown \in BOOLEAN
  /\ config \in Configs
  /\ pc \in {"waiting", "signing", "setup", "reading", "select", "stats",
             "publishing", "asleep", "resigning", "ended"}
  /\ crowded \in BOOLEAN /\ believed \in BOOLEAN /\ mqttUp \in BOOLEAN
  /\ events \in Seq(Event) /\ Len(events) <= EventCap
  /\ lagged \in BOOLEAN /\ raw \in BOOLEAN
  /\ out \in Seq(Request)
  /\ requests \in Seq(Request) /\ Len(requests) <= Capacity
  /\ session \in {"none", "up", "broken", "closed"}
  /\ renewed \in BOOLEAN
  /\ retained \in {"none", "online", "offline", "will"}
  /\ willDue \in BOOLEAN
  /\ lateWill \in {"none", "due", "fired"}
  /\ misled \in BOOLEAN

AtRest ==
  /\ pc = "select" /\ session = "up"
  /\ events = <<>> /\ ~lagged /\ requests = <<>>
  /\ link \in {"up", "down"}
  /\ lateWill = "none"

\* Whatever was lost, reordered or interrupted before: once a connected broker
\* has nothing left to do, the retained status is the state of the mesh node,
\* unless the task was misled (run_broker, publish_current_status).
StatusCurrent ==
  AtRest /\ ~misled /\ config.highLevel /\ selfKnown
    => retained = Status(link = "up")

\* A connection that is older than the credentials is on its way out, and no
\* disconnection is queued that would end a newer one (the jwt_refresh branch).
NewestCredentials ==
  /\ pc = "select" /\ session = "up" /\ renewed
       => \E i \in DOMAIN requests : requests[i] = "disconnect"
  /\ session = "up" /\ (\E i \in DOMAIN requests : requests[i] = "disconnect")
       => renewed

\* A task blocked on the queue only it can empty.
Wedged == pc = "publishing" /\ out # <<>> /\ Len(requests) = Capacity

\* A task that waits for a slot which nobody frees while the node is away.
Stranded == crowded /\ link = "down"

Excused ==
  \/ misled \/ lateWill # "none" \/ Wedged \/ Stranded
  \/ pc = "ended" \/ ~config.highLevel \/ ~selfKnown

\* Once the mesh connection stays as it is and nothing disturbs the task, the
\* retained status says so again and again: no state of the node stays unreported,
\* unless the task waits for a slot of the command channel that nobody frees while the
\* node is away (the loop of run_broker, refresh_node_stats).
StatusReported ==
  <>[][link' = link /\ ~NetworkBreaks /\ ~Reloaded /\ ~Restarted]_vars
  => []<>(Excused \/ retained = Status(link = "up")
          \/ (retained = "will" /\ Status(link = "up") = "offline"))

\* "Loops forever -- a broker outage must not affect the mesh connection or other
\* brokers" (run_broker): the task never waits for itself.
LoopsForever == ~Wedged

\* mqtt.md:166: "online" only when the mesh node is currently connected.
OnlineOnlyWhileConnected ==
  AtRest /\ retained = "online" => link = "up"

=============================================================================
