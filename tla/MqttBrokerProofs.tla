------------------------- MODULE MqttBrokerProofs -------------------------
(***************************************************************************)
(* Proofs about one MQTT broker task, for every set of configurations and  *)
(* every capacity of the queue and of the channel.  The invariant follows  *)
(* a transition of the mesh connection on its way to the server: pending   *)
(* in the channel, believed by the task, held by the branch that publishes *)
(* it, queued by the client, retained.  What is last on that way is right. *)
(***************************************************************************)
EXTENDS MqttBroker, TLAPS

StatusRequest == {"online", "offline"}

\* No element of s is in S; the last element of s that is in S, if any, is x.
None(s, S) == \A i \in DOMAIN s : s[i] \notin S
LastIs(s, S, x) ==
  \A i \in DOMAIN s :
    s[i] \in S /\ (\A j \in DOMAIN s : j > i => s[j] \notin S) => s[i] = x

-----------------------------------------------------------------------------
(* Sequences.                                                              *)

\* What Append adds is the last element.
LEMMA AppendFacts ==
  ASSUME NEW T, NEW s \in Seq(T), NEW e \in T, NEW S, NEW x
  PROVE  /\ Append(s, e) \in Seq(T) /\ Len(Append(s, e)) = Len(s) + 1
         /\ Append(s, e) # <<>>
         /\ e \in S /\ e = x => LastIs(Append(s, e), S, x)
         /\ e \notin S /\ LastIs(s, S, x) => LastIs(Append(s, e), S, x)
         /\ None(Append(s, e), S) <=> None(s, S) /\ e \notin S
<1>1. /\ Append(s, e) \in Seq(T) /\ Len(Append(s, e)) = Len(s) + 1
      /\ Append(s, e) # <<>>
      /\ DOMAIN Append(s, e) = 1..(Len(s) + 1) /\ DOMAIN s = 1..Len(s)
      /\ \A i \in 1..Len(s) : Append(s, e)[i] = s[i]
      /\ Append(s, e)[Len(s) + 1] = e
      /\ Len(s) \in Nat
  OBVIOUS
<1>2. e \in S /\ e = x => LastIs(Append(s, e), S, x)
  BY <1>1 DEF LastIs
<1>3. e \notin S /\ LastIs(s, S, x) => LastIs(Append(s, e), S, x)
  BY <1>1 DEF LastIs
<1>4. None(Append(s, e), S) <=> None(s, S) /\ e \notin S
  BY <1>1 DEF None
<1> QED BY <1>1, <1>2, <1>3, <1>4

\* Taking the head away does not change what is last.
LEMMA TailFacts ==
  ASSUME NEW T, NEW s \in Seq(T), s # <<>>, NEW S, NEW x
  PROVE  /\ Tail(s) \in Seq(T) /\ Len(Tail(s)) = Len(s) - 1
         /\ Head(s) \in T
         /\ LastIs(s, S, x) => LastIs(Tail(s), S, x)
         /\ None(s, S) <=> None(Tail(s), S) /\ Head(s) \notin S
         /\ LastIs(s, S, x) /\ Head(s) \in S /\ None(Tail(s), S) => Head(s) = x
<1>1. /\ Tail(s) \in Seq(T) /\ Len(Tail(s)) = Len(s) - 1
      /\ Head(s) \in T /\ Head(s) = s[1]
      /\ DOMAIN Tail(s) = 1..(Len(s) - 1) /\ DOMAIN s = 1..Len(s)
      /\ \A i \in 1..(Len(s) - 1) : Tail(s)[i] = s[i + 1]
      /\ Len(s) \in Nat /\ Len(s) > 0
  OBVIOUS
<1>2. \A j \in DOMAIN s : j # 1 => j - 1 \in DOMAIN Tail(s) /\ Tail(s)[j - 1] = s[j]
  BY <1>1
<1>3. LastIs(s, S, x) => LastIs(Tail(s), S, x)
  <2> SUFFICES ASSUME LastIs(s, S, x), NEW i \in DOMAIN Tail(s), Tail(s)[i] \in S,
                      \A j \in DOMAIN Tail(s) : j > i => Tail(s)[j] \notin S
               PROVE  Tail(s)[i] = x
    BY DEF LastIs
  <2>1. i + 1 \in DOMAIN s /\ s[i + 1] = Tail(s)[i]
    BY <1>1
  <2>2. ASSUME NEW j \in DOMAIN s, j > i + 1 PROVE s[j] \notin S
    <3>1. j - 1 \in DOMAIN Tail(s) /\ j - 1 > i
      BY <1>1, <2>2
    <3>2. Tail(s)[j - 1] = s[j]
      BY <1>1, <1>2, <2>2
    <3> QED BY <3>1, <3>2
  <2> QED BY <2>1, <2>2 DEF LastIs
<1>4. None(s, S) <=> None(Tail(s), S) /\ Head(s) \notin S
  <2>1. None(s, S) => None(Tail(s), S) /\ Head(s) \notin S
    BY <1>1 DEF None
  <2>2. None(Tail(s), S) /\ Head(s) \notin S => None(s, S)
    BY <1>1, <1>2 DEF None
  <2> QED BY <2>1, <2>2
<1>5. LastIs(s, S, x) /\ Head(s) \in S /\ None(Tail(s), S) => Head(s) = x
  <2> SUFFICES ASSUME LastIs(s, S, x), s[1] \in S, None(Tail(s), S)
               PROVE  s[1] = x
    BY <1>1
  <2>1. ASSUME NEW j \in DOMAIN s, j > 1 PROVE s[j] \notin S
    <3>1. j - 1 \in DOMAIN Tail(s) /\ Tail(s)[j - 1] = s[j]
      BY <1>1, <1>2, <2>1
    <3> QED BY <3>1 DEF None
  <2> QED BY <1>1, <2>1 DEF LastIs
<1> QED BY <1>1, <1>3, <1>4, <1>5

\* The short sequences a branch publishes.
LEMMA ShortSequences ==
  ASSUME NEW S, NEW x, NEW e
  PROVE  /\ None(<<>>, S) /\ LastIs(<<>>, S, x)
         /\ e = x => LastIs(<<e>>, S, x)
         /\ None(<<e>>, S) <=> e \notin S
         /\ e \notin S => LastIs(<<e>>, S, x)
  BY DEF None, LastIs

\* Their types.
LEMMA ShortTypes ==
  ASSUME NEW T
  PROVE  /\ <<>> \in Seq(T) /\ Len(<<>>) = 0
         /\ \A e \in T : <<e>> \in Seq(T)
  OBVIOUS

\* No last element, no constraint.
LEMMA NoneLast ==
  ASSUME NEW s, NEW S, NEW x, None(s, S)
  PROVE  LastIs(s, S, x)
  BY DEF None, LastIs

-----------------------------------------------------------------------------
(* Types.                                                                  *)

Flags ==
  /\ selfKnown \in BOOLEAN /\ deviceKnown \in BOOLEAN
  /\ believed \in BOOLEAN /\ mqttUp \in BOOLEAN
  /\ lagged \in BOOLEAN /\ raw \in BOOLEAN
  /\ renewed \in BOOLEAN /\ willDue \in BOOLEAN /\ misled \in BOOLEAN
Kinds ==
  /\ link \in {"down", "opening", "described", "up", "lost"}
  /\ config \in Configs
  /\ pc \in {"waiting", "signing", "setup", "reading", "select", "stats",
             "publishing", "asleep", "resigning", "ended"}
  /\ crowded \in BOOLEAN
  /\ session \in {"none", "up", "broken", "closed"}
  /\ retained \in {"none", "online", "offline", "will"}
  /\ lateWill \in {"none", "due", "fired"}
Queues ==
  /\ events \in Seq(Event) /\ Len(events) <= EventCap
  /\ out \in Seq(Request)
  /\ requests \in Seq(Request) /\ Len(requests) <= Capacity

\* The type invariant in parts.
LEMMA TypeParts == (TypeOK <=> Flags /\ Kinds /\ Queues) /\ (TypeOK' <=> Flags' /\ Kinds' /\ Queues')
  BY DEF TypeOK, Flags, Kinds, Queues

\* What broadcast_event does to a receiver.
LEMMA BroadcastCases ==
  ASSUME TypeOK, NEW e \in Event, Broadcast(e)
  PROVE  \/ ~Subscribed /\ UNCHANGED <<events, lagged, misled>>
         \/ /\ Subscribed /\ Len(events) < EventCap
            /\ events' = Append(events, e)
            /\ UNCHANGED <<lagged, misled>>
         \/ /\ Subscribed /\ events # <<>> /\ Tail(events) \in Seq(Event)
            /\ Len(Tail(events)) < EventCap
            /\ events' = Append(Tail(events), e) /\ lagged' = TRUE
            /\ misled' = (misled \/ (Head(events) \in Transition /\ None(events', Transition)))
  <1>1. events \in Seq(Event) /\ Len(events) <= EventCap /\ EventCap \in Nat \ {0}
    BY BrokerAssumption DEF TypeOK
  <1>2. CASE ~Subscribed
    BY <1>2 DEF Broadcast
  <1>3. CASE Subscribed /\ Len(events) < EventCap
    BY <1>3 DEF Broadcast
  <1>4. CASE Subscribed /\ ~(Len(events) < EventCap)
    <2>1. events # <<>> /\ Tail(events) \in Seq(Event) /\ Len(Tail(events)) < EventCap
      BY <1>1, <1>4
    <2>2. /\ events' = Append(Tail(events), e) /\ lagged' = TRUE
          /\ misled' = (misled \/ (Head(events) \in Transition
                                   /\ \A i \in DOMAIN events' : events'[i] \notin Transition))
      BY <1>4 DEF Broadcast
    <2> QED BY <2>1, <2>2, <1>4 DEF None
  <1> QED BY <1>2, <1>3, <1>4

\* The channel keeps its type and its bound.
LEMMA BroadcastTypes ==
  ASSUME TypeOK, NEW e \in Event, Broadcast(e)
  PROVE  /\ events' \in Seq(Event) /\ Len(events') <= EventCap
         /\ lagged' \in BOOLEAN /\ misled' \in BOOLEAN
  <1>1. /\ events \in Seq(Event) /\ Len(events) <= EventCap
        /\ lagged \in BOOLEAN /\ misled \in BOOLEAN /\ EventCap \in Nat
    BY BrokerAssumption DEF TypeOK
  <1>2. events' \in Seq(Event) /\ Len(events') <= EventCap
    <2>1. ASSUME NEW s \in Seq(Event), Len(s) < EventCap
          PROVE  Append(s, e) \in Seq(Event) /\ Len(Append(s, e)) <= EventCap
      BY <1>1, <2>1
    <2> QED BY <1>1, <2>1, BroadcastCases
  <1>3. lagged' \in BOOLEAN /\ misled' \in BOOLEAN
    BY <1>1, BroadcastCases
  <1> QED BY <1>2, <1>3

\* A status is published, or nothing is.
LEMMA PublishStatusCases ==
  ASSUME NEW c \in BOOLEAN, PublishStatus(c)
  PROVE  \/ /\ config.highLevel /\ selfKnown
            /\ pc' = "stats" /\ out' = <<Status(c)>> /\ Status(c) \in StatusRequest
         \/ /\ ~(config.highLevel /\ selfKnown)
            /\ pc' = "select" /\ out' = out
  BY DEF PublishStatus, Status, StatusRequest

\* Every step keeps the flags.
LEMMA FlagsStep == TypeOK /\ [Next]_vars => Flags'
<1> SUFFICES ASSUME TypeOK, [Next]_vars PROVE Flags'
  OBVIOUS
<1>0. Flags
  BY TypeParts
<1> "up" \in Event /\ "down" \in Event /\ "other" \in Event
  BY DEF Event, Transition
<1>1. CASE MeshTask
  <2>1. CASE MeshConnects \/ MeshDescribes \/ MeshCleared
    BY <1>0, <2>1 DEF MeshConnects, MeshDescribes, MeshCleared, Flags, task, feed, net, srv
  <2>2. CASE MeshAnnounces \/ MeshLost
    BY <1>0, <2>2, BroadcastTypes DEF MeshAnnounces, MeshLost, Flags, task, net, srv
  <2>3. CASE MeshEvent
    <3>1. lagged' \in BOOLEAN /\ misled' \in BOOLEAN
      BY <1>0, <2>3, BroadcastTypes DEF MeshEvent, Flags
    <3>2. raw' \in BOOLEAN
      BY <2>3 DEF MeshEvent, Subscribed
    <3> QED BY <1>0, <2>3, <3>1, <3>2 DEF MeshEvent, Flags, mesh, task, net, srv
  <2> QED BY <1>1, <2>1, <2>2, <2>3 DEF MeshTask
<1>2. CASE Start
  <2>1. CASE ReadSnapshot
    <3>1. Snapshot \in BOOLEAN /\ Misreads \in BOOLEAN
      BY DEF Snapshot, Misreads
    <3> QED BY <1>0, <2>1, <3>1 DEF ReadSnapshot, Flags, mesh, feed, net, srv
  <2>2. CASE ~ReadSnapshot
    BY <1>0, <1>2, <2>2 DEF Start, SelfInfoKnown, SelfInfoTimesOut, FirstSignature,
       InvalidTransport, Subscribe, Flags, mesh, feed, net, srv
  <2> QED BY <2>1, <2>2
<1>3. CASE Poll
  <2>1. CASE ConnAck
    <3>1. Snapshot \in BOOLEAN /\ Misreads \in BOOLEAN
      BY DEF Snapshot, Misreads
    <3> QED BY <1>0, <2>1, <3>1 DEF ConnAck, Flags, mesh, feed
  <2>2. CASE ConnectFails \/ Send \/ ConnectionLost
    BY <1>0, <2>2 DEF ConnectFails, Send, ConnectionLost, Flags, mesh, task, feed, net, srv
  <2> QED BY <1>3, <2>1, <2>2 DEF Poll
<1>4. CASE Loop
  <2>1. CASE SlotFreed \/ StatsReady \/ Wake \/ RefreshDue \/ SigningFails \/ Heartbeat
    BY <1>0, <2>1 DEF SlotFreed, StatsReady, Wake, RefreshDue, SigningFails, Heartbeat, Flags,
                      mesh, feed, net, srv
  <2>2. CASE Publish \/ Signed \/ ReceiveLagged
    BY <1>0, <2>2 DEF Publish, Signed, ReceiveLagged, Flags, mesh, task, feed, net, srv
  <2>3. CASE ReceiveMeshEvent \/ ReceiveRawEvent
    BY <1>0, <2>3 DEF ReceiveMeshEvent, ReceiveRawEvent, Flags, mesh, net, srv
  <2> QED BY <1>4, <2>1, <2>2, <2>3 DEF Loop
<1>5. CASE Surroundings
  <2>0. config.highLevel \in BOOLEAN
    BY BrokerAssumption DEF TypeOK, Config
  <2>1. CASE NetworkBreaks \/ WillPublished \/ LateWillPublished
    BY <1>0, <2>0, <2>1 DEF NetworkBreaks, WillPublished, LateWillPublished, Flags,
                            mesh, task, feed, net
  <2>2. CASE Reloaded \/ Restarted
    <3>1. WillLeft \in BOOLEAN
      BY DEF WillLeft
    <3> QED BY <1>0, <2>2, <3>1 DEF Reloaded, Restarted, FreshTask, Flags, mesh
  <2> QED BY <1>5, <2>1, <2>2 DEF Surroundings
<1>6. CASE UNCHANGED vars
  BY <1>0, <1>6 DEF vars, mesh, task, feed, net, srv, Flags
<1> QED BY <1>1, <1>2, <1>3, <1>4, <1>5, <1>6 DEF Next

\* Every step keeps the phases.
LEMMA KindsStep == TypeOK /\ [Next]_vars => Kinds'
<1> SUFFICES ASSUME TypeOK, [Next]_vars PROVE Kinds'
  OBVIOUS
<1>0. Kinds
  BY TypeParts
<1>1. CASE MeshTask
  BY <1>0, <1>1 DEF MeshTask, MeshConnects, MeshDescribes, MeshAnnounces, MeshEvent,
     MeshLost, MeshCleared, Kinds, mesh, task, net, srv
<1>2. CASE Start
  BY <1>0, <1>2 DEF Start, SelfInfoKnown, SelfInfoTimesOut, FirstSignature,
     InvalidTransport, Subscribe, ReadSnapshot, Kinds, mesh, net, srv
<1>3. CASE Poll
  BY <1>0, <1>3 DEF Poll, ConnAck, ConnectFails, Send, ConnectionLost, PublishStatus,
     Kinds, mesh, task, net, srv
<1>4. CASE Loop
  BY <1>0, <1>4 DEF Loop, SlotFreed, StatsReady, Wake, RefreshDue, SigningFails, Heartbeat, Publish,
     Signed, ReceiveLagged, ReceiveMeshEvent, ReceiveRawEvent, PublishStatus,
     Kinds, mesh, task, net, srv
<1>5. CASE Surroundings
  BY <1>0, <1>5 DEF Surroundings, NetworkBreaks, WillPublished, LateWillPublished,
     Reloaded, Restarted, FreshTask, FirstStep, Kinds, mesh, task, net
<1>6. CASE UNCHANGED vars
  BY <1>0, <1>6 DEF vars, mesh, task, net, srv, Kinds
<1> QED BY <1>1, <1>2, <1>3, <1>4, <1>5, <1>6 DEF Next

\* Every step keeps the queues, and their bounds.
LEMMA QueuesStep == TypeOK /\ [Next]_vars => Queues'
<1> SUFFICES ASSUME TypeOK, [Next]_vars PROVE Queues'
  OBVIOUS
<1>0. Queues
  BY TypeParts
<1>a. EventCap \in Nat \ {0} /\ Capacity \in Nat \ {0} /\ MaxForwards \in Nat
  BY BrokerAssumption
<1>b. "up" \in Event /\ "down" \in Event /\ "other" \in Event
  BY DEF Event, Transition
<1>c. "packet" \in Request /\ "disconnect" \in Request /\ StatusRequest \subseteq Request
  BY DEF Request, StatusRequest
<1>d. ASSUME NEW c \in BOOLEAN, PublishStatus(c) PROVE out' \in Seq(Request)
  <2>1. out' = out \/ \E e \in StatusRequest : out' = <<e>>
    BY <1>d, PublishStatusCases
  <2> QED BY <1>0, <1>c, <2>1, ShortTypes DEF Queues
<1>1. CASE MeshTask
  <2>1. events' \in Seq(Event) /\ Len(events') <= EventCap
    BY <1>0, <1>1, <1>b, BroadcastTypes DEF MeshTask, MeshConnects, MeshDescribes,
       MeshAnnounces, MeshEvent, MeshLost, MeshCleared, Queues, feed
  <2>2. UNCHANGED <<out, requests>>
    BY <1>1 DEF MeshTask, MeshConnects, MeshDescribes, MeshAnnounces, MeshEvent,
       MeshLost, MeshCleared, task, net
  <2> QED BY <1>0, <2>1, <2>2 DEF Queues
<1>2. CASE Start
  BY <1>0, <1>2 DEF Start, SelfInfoKnown, SelfInfoTimesOut, FirstSignature,
     InvalidTransport, Subscribe, ReadSnapshot, Queues, feed, net
<1>3. CASE Poll
  <2>1. CASE ConnAck
    <3>1. Snapshot \in BOOLEAN
      BY DEF Snapshot
    <3> QED BY <1>0, <2>1, <3>1, <1>d DEF ConnAck, Queues, feed
  <2>2. CASE ConnectFails \/ ConnectionLost
    <3>1. /\ requests' = requests \/ requests' = <<>>
          /\ UNCHANGED <<events, out>>
      BY <2>2 DEF ConnectFails, ConnectionLost, feed, net
    <3>2. requests' \in Seq(Request) /\ Len(requests') <= Capacity
      <4>1. CASE requests' = requests
        BY <1>0, <4>1 DEF Queues
      <4>2. CASE requests' = <<>>
        BY <1>a, <4>2, ShortTypes
      <4> QED BY <3>1, <4>1, <4>2
    <3> QED BY <1>0, <3>1, <3>2 DEF Queues
  <2>3. CASE Send
    <3>1. /\ requests' = Tail(requests) /\ requests # <<>>
          /\ UNCHANGED <<events, out>>
      BY <2>3 DEF Send, feed, task
    <3> QED BY <1>0, <1>a, <3>1 DEF Queues
  <2> QED BY <1>3, <2>1, <2>2, <2>3 DEF Poll
<1>4. CASE Loop
  <2>1. CASE SlotFreed \/ StatsReady \/ Wake \/ RefreshDue \/ SigningFails \/ ReceiveLagged
    BY <1>0, <2>1 DEF SlotFreed, StatsReady, Wake, RefreshDue, SigningFails, ReceiveLagged, Queues,
                      feed, net, task
  <2>2. CASE Heartbeat
    <3>1. believed \in BOOLEAN
      BY DEF TypeOK
    <3> QED BY <1>0, <2>2, <3>1, <1>d DEF Heartbeat, Queues, feed, net
  <2>3. CASE Publish
    <3>1. /\ out # <<>> /\ Len(requests) < Capacity
          /\ requests' = Append(requests, Head(out)) /\ out' = Tail(out)
          /\ UNCHANGED events
      BY <2>3 DEF Publish, feed
    <3>2. Head(out) \in Request /\ Tail(out) \in Seq(Request)
      BY <1>0, <3>1 DEF Queues
    <3> QED BY <1>0, <1>a, <3>1, <3>2 DEF Queues
  <2>4. CASE Signed
    <3>1. /\ out' = <<"disconnect">> \/ out' = out
          /\ UNCHANGED <<events, requests>>
      BY <2>4 DEF Signed, feed
    <3> QED BY <1>0, <1>c, <3>1, ShortTypes DEF Queues
  <2>5. CASE ReceiveMeshEvent
    <3>1. /\ events # <<>> /\ events' = Tail(events)
          /\ UNCHANGED requests
      BY <2>5 DEF ReceiveMeshEvent, net
    <3>2. out' \in Seq(Request)
      BY <1>0, <2>5, <1>d DEF ReceiveMeshEvent, Queues
    <3>3. Tail(events) \in Seq(Event) /\ Len(Tail(events)) <= EventCap
      BY <1>0, <1>a, <3>1 DEF Queues
    <3> QED BY <1>0, <3>1, <3>2, <3>3 DEF Queues
  <2>6. CASE ReceiveRawEvent
    <3>1. UNCHANGED <<events, requests>>
      BY <2>6 DEF ReceiveRawEvent, net
    <3>2. PICK n \in 1..MaxForwards : out' = [i \in 1..n |-> "packet"]
      BY <2>6 DEF ReceiveRawEvent
    <3>3. out' \in Seq(Request)
      BY <1>a, <1>c, <3>2
    <3> QED BY <1>0, <3>1, <3>3 DEF Queues
  <2> QED BY <1>4, <2>1, <2>2, <2>3, <2>4, <2>5, <2>6 DEF Loop
<1>5. CASE Surroundings
  <2>1. CASE NetworkBreaks \/ WillPublished \/ LateWillPublished
    BY <1>0, <2>1 DEF NetworkBreaks, WillPublished, LateWillPublished, Queues, task, feed, net
  <2>2. CASE Reloaded \/ Restarted
    <3>1. events' = <<>> /\ requests' = <<>> /\ out' = <<>>
      BY <2>2 DEF Reloaded, Restarted, FreshTask
    <3> QED BY <1>a, <3>1, ShortTypes DEF Queues
  <2> QED BY <1>5, <2>1, <2>2 DEF Surroundings
<1>6. CASE UNCHANGED vars
  BY <1>0, <1>6 DEF vars, task, feed, net, Queues
<1> QED BY <1>1, <1>2, <1>3, <1>4, <1>5, <1>6 DEF Next

\* The types hold at first.
LEMMA TypeInit == Init => TypeOK
<1> SUFFICES ASSUME Init PROVE TypeOK
  OBVIOUS
<1>1. Flags
  BY DEF Init, Flags
<1>2. Kinds
  BY DEF Init, Kinds, FirstStep
<1>3. events = <<>> /\ requests = <<>> /\ out = <<>>
  BY DEF Init
<1>4. Queues
  BY <1>3, ShortTypes, BrokerAssumption DEF Queues
<1> QED BY <1>1, <1>2, <1>4, TypeParts

\* Every variable of the broker task keeps its type; the queue and the channel
\* keep their bounds (run_broker).
THEOREM TypeCorrect == Spec => []TypeOK
<1>1. TypeOK /\ [Next]_vars => TypeOK'
  BY FlagsStep, KindsStep, QueuesStep, TypeParts
<1> QED BY <1>1, TypeInit, PTL DEF Spec

-----------------------------------------------------------------------------
(* The inductive invariant.                                                *)

Running == pc \in {"select", "stats", "publishing", "asleep", "resigning"}
Target == Status(link = "up")

\* Where the task is, and what it holds there.
Shape ==
  /\ pc \notin {"stats", "publishing"} => out = <<>>
  /\ mqttUp <=> session # "none"
  /\ session # "none" => Running
  /\ session = "up" => ~willDue
  /\ ~Subscribed => events = <<>>

\* What the channel holds, and what the task believes once it holds nothing.
Belief ==
  /\ LastIs(events, Transition, IF link = "up" THEN "up" ELSE "down")
  /\ Running /\ ~misled /\ None(events, Transition)
       => (link = "up" => believed) /\ (link \in {"down", "lost"} => ~believed)

\* From there on: the branch, the client's queue, the server.
Informed ==
  /\ config.highLevel /\ selfKnown /\ session = "up" /\ ~misled
  /\ None(events, Transition) /\ link \in {"up", "down", "lost"}
Delivers(x) ==
  /\ LastIs(out, StatusRequest, x)
  /\ None(out, StatusRequest) => LastIs(requests, StatusRequest, x)
  /\ None(out, StatusRequest) /\ None(requests, StatusRequest)
       => lateWill = "fired" \/ retained = x
Pipeline == Informed => Delivers(Target)

Ends(s) == ~None(s, {"disconnect"})
Renewal ==
  /\ session = "up" => (renewed <=> Ends(requests) \/ Ends(out))
  /\ session = "none" => ~Ends(requests) /\ ~Ends(out)

IInv == TypeOK /\ Shape /\ Belief /\ Pipeline /\ Renewal

\* The invariant holds at first.
LEMMA InvariantInit == Init => IInv
<1> SUFFICES ASSUME Init PROVE IInv
  OBVIOUS
<1>1. events = <<>> /\ out = <<>> /\ requests = <<>> /\ session = "none"
  BY DEF Init
<1>2. TypeOK
  BY TypeInit
<1>3. Shape
  BY <1>1 DEF Init, Shape, FirstStep, Running
<1>4. Belief
  BY <1>1, ShortSequences DEF Init, Belief, FirstStep, Running
<1>5. Pipeline
  BY <1>1 DEF Pipeline, Informed
<1>6. Renewal
  BY <1>1, ShortSequences DEF Renewal, Ends
<1> QED BY <1>2, <1>3, <1>4, <1>5, <1>6 DEF IInv

\* The task never waits in a branch that holds nothing, nor the other way round.
LEMMA ShapeStep == TypeOK /\ Shape /\ [Next]_vars => Shape'
<1> SUFFICES ASSUME TypeOK, Shape, [Next]_vars PROVE Shape'
  OBVIOUS
<1>0. Flags
  BY TypeParts
<1>1. CASE MeshTask
  <2>1. UNCHANGED <<pc, out, mqttUp, session, willDue>>
    BY <1>1 DEF MeshTask, MeshConnects, MeshDescribes, MeshAnnounces, MeshEvent, MeshLost,
       MeshCleared, task, net, srv
  <2>2. ~Subscribed => events' = events
    BY <1>1 DEF MeshTask, MeshConnects, MeshDescribes, MeshAnnounces, MeshEvent, MeshLost,
       MeshCleared, Broadcast, feed
  <2> QED BY <2>1, <2>2 DEF Shape, Subscribed, Running
<1>2. CASE Start
  BY <1>2 DEF Start, SelfInfoKnown, SelfInfoTimesOut, FirstSignature, InvalidTransport,
     Subscribe, ReadSnapshot, Shape, Subscribed, Running, feed, net, srv
<1>3. CASE Poll
  <2>1. CASE ConnAck
    <3>1. pc = "select" /\ session' = "up" /\ mqttUp' = TRUE /\ willDue' = FALSE
          /\ PublishStatus(Snapshot) /\ events' = events
      BY <2>1 DEF ConnAck, feed
    <3> QED BY <3>1 DEF Shape, PublishStatus, Subscribed, Running
  <2>2. CASE ConnectFails
    BY <2>2 DEF ConnectFails, Shape, Subscribed, Running, feed, net, srv
  <2>3. CASE Send
    <3>1. session # "none" /\ session' # "none" /\ (session' = "up" => session = "up")
          /\ UNCHANGED <<pc, out, mqttUp, willDue, events>>
      BY <2>3 DEF Send, task, feed
    <3> QED BY <3>1 DEF Shape, Subscribed, Running
  <2>4. CASE ConnectionLost
    BY <2>4 DEF ConnectionLost, Shape, Subscribed, Running, feed, srv
  <2> QED BY <1>3, <2>1, <2>2, <2>3, <2>4 DEF Poll
<1>4. CASE Loop
  <2>1. /\ UNCHANGED <<mqttUp, session, willDue>>
        /\ (Running /\ Running') \/ UNCHANGED <<pc, out, events>>
    BY <1>4 DEF Loop, SlotFreed, StatsReady, Wake, RefreshDue, SigningFails, Heartbeat, Publish, Signed,
       ReceiveLagged, ReceiveMeshEvent, ReceiveRawEvent, PublishStatus, Running, task, feed, net, srv
  <2>2. pc' \notin {"stats", "publishing"} => out' = <<>>
    BY <1>4 DEF Loop, SlotFreed, StatsReady, Wake, RefreshDue, SigningFails, Heartbeat, Publish, Signed,
       ReceiveLagged, ReceiveMeshEvent, ReceiveRawEvent, PublishStatus, Shape, task
  <2> QED BY <2>1, <2>2 DEF Shape, Subscribed, Running
<1>5. CASE Surroundings
  <2>1. CASE NetworkBreaks \/ WillPublished \/ LateWillPublished
    BY <2>1 DEF NetworkBreaks, WillPublished, LateWillPublished, Shape, Subscribed, Running,
       task, feed, net
  <2>2. CASE Reloaded \/ Restarted
    BY <2>2 DEF Reloaded, Restarted, FreshTask, FirstStep, Shape, Subscribed, Running
  <2> QED BY <1>5, <2>1, <2>2 DEF Surroundings
<1>6. CASE UNCHANGED vars
  BY <1>6 DEF vars, task, feed, net, srv, Shape, Subscribed, Running
<1> QED BY <1>1, <1>2, <1>3, <1>4, <1>5, <1>6 DEF Next

\* A broadcast of what is not a transition changes neither the last transition
\* nor, unless the task is misled, whether there is one.
LEMMA OtherBroadcast ==
  ASSUME TypeOK, Broadcast("other"), NEW x
  PROVE  /\ LastIs(events, Transition, x) => LastIs(events', Transition, x)
         /\ ~misled' /\ None(events', Transition) => ~misled /\ None(events, Transition)
<1>1. "other" \in Event /\ "other" \notin Transition /\ events \in Seq(Event)
  BY DEF Event, Transition, TypeOK
<1>2. CASE UNCHANGED <<events, lagged, misled>>
  BY <1>2
<1>3. CASE events' = Append(events, "other") /\ UNCHANGED <<lagged, misled>>
  BY <1>1, <1>3, AppendFacts
<1>4. CASE /\ events # <<>> /\ Tail(events) \in Seq(Event)
           /\ events' = Append(Tail(events), "other")
           /\ misled' = (misled \/ (Head(events) \in Transition /\ None(events', Transition)))
  <2>1. LastIs(events, Transition, x) => LastIs(Tail(events), Transition, x)
    BY <1>1, <1>4, TailFacts
  <2>2. LastIs(Tail(events), Transition, x) => LastIs(events', Transition, x)
    BY <1>1, <1>4, AppendFacts
  <2>3. None(events', Transition) => None(Tail(events), Transition)
    BY <1>1, <1>4, AppendFacts
  <2>4. None(Tail(events), Transition) /\ Head(events) \notin Transition
          => None(events, Transition)
    BY <1>1, <1>4, TailFacts
  <2> QED BY <1>4, <2>1, <2>2, <2>3, <2>4
<1> QED BY <1>1, <1>2, <1>3, <1>4, BroadcastCases

\* A transition that is broadcast is the last one.
LEMMA TransitionBroadcast ==
  ASSUME TypeOK, NEW e \in Transition, Broadcast(e)
  PROVE  /\ Subscribed => LastIs(events', Transition, e) /\ ~None(events', Transition)
         /\ ~Subscribed => events' = events
<1>1. e \in Event /\ events \in Seq(Event)
  BY DEF Event, TypeOK
<1>2. ASSUME NEW s \in Seq(Event)
      PROVE  LastIs(Append(s, e), Transition, e) /\ ~None(Append(s, e), Transition)
  BY <1>1, AppendFacts
<1> QED BY <1>1, <1>2, BroadcastCases DEF Broadcast

Latest == IF link = "up" THEN "up" ELSE "down"
Believes == (link = "up" => believed) /\ (link \in {"down", "lost"} => ~believed)

\* Reading the snapshot misleads the task only when it is told so.
LEMMA SnapshotReads ==
  ASSUME Belief, None(events, Transition), ~Misreads
  PROVE  /\ link = "up" => Snapshot
         /\ link \in {"down", "lost"} => ~Snapshot
<1>1. link # "lost"
  <2> SUFFICES ASSUME link = "lost" PROVE FALSE
    OBVIOUS
  <2>1. PICK i \in DOMAIN events : events[i] = "down"
    BY DEF Misreads, Announced
  <2> QED BY <2>1 DEF None, Transition
<1> QED BY <1>1 DEF Snapshot

\* The task believes what the channel told it last (the mesh_events branch and
\* the two reads of the snapshot in run_broker).
LEMMA BeliefStep == TypeOK /\ Shape /\ Belief /\ [Next]_vars => Belief'
<1> SUFFICES ASSUME TypeOK, Shape, Belief, [Next]_vars PROVE Belief'
  OBVIOUS
<1> DEFINE B1 == LastIs(events, Transition, Latest)
           B2 == Running /\ ~misled /\ None(events, Transition) => Believes
<1>0. (Belief <=> B1 /\ B2) /\ (Belief' <=> B1' /\ B2')
  BY DEF Belief, Latest, Believes
<1>f. ASSUME UNCHANGED <<link, events, believed, misled>>, Running' => Running PROVE Belief'
  BY <1>f DEF Belief
<1>e. ASSUME events' = <<>>, ~Running' PROVE Belief'
  BY <1>e, ShortSequences DEF Belief
<1>u. ~Subscribed => events = <<>> /\ ~Running
  BY DEF Shape, Subscribed, Running
<1>1. CASE MeshTask
  <2>0. pc' = pc /\ believed' = believed
    BY <1>1 DEF MeshTask, MeshConnects, MeshDescribes, MeshAnnounces, MeshEvent, MeshLost,
       MeshCleared, task
  <2>1. CASE MeshConnects \/ MeshDescribes \/ MeshCleared
    <3>1. /\ UNCHANGED <<events, misled>> /\ link # "up" /\ link' # "up"
          /\ link' = "down" => link = "lost"
          /\ link' # "lost"
      BY <2>1 DEF MeshConnects, MeshDescribes, MeshCleared, feed
    <3> QED BY <2>0, <3>1 DEF Belief, Running
  <2>2. CASE MeshAnnounces \/ MeshLost
    <3>1. PICK e \in Transition : Broadcast(e) /\ e = Latest'
      BY <2>2 DEF MeshAnnounces, MeshLost, Transition, Latest
    <3>2. CASE Subscribed
      BY <3>1, <3>2, <1>0, TransitionBroadcast
    <3>3. CASE ~Subscribed
      <4>1. events' = <<>> /\ ~Running'
        BY <3>1, <3>3, <2>0, <1>u, TransitionBroadcast DEF Running
      <4> QED BY <4>1, <1>e
    <3> QED BY <3>2, <3>3
  <2>3. CASE MeshEvent
    <3>1. link' = link
      BY <2>3 DEF MeshEvent, mesh
    <3>2. CASE Broadcast("other")
      <4>1. B1'
        BY <3>1, <3>2, <1>0, OtherBroadcast DEF Latest
      <4>2. B2'
        BY <2>0, <3>1, <3>2, <1>0, OtherBroadcast DEF Running, Believes
      <4> QED BY <4>1, <4>2, <1>0
    <3>3. CASE UNCHANGED <<events, lagged, misled>>
      BY <2>0, <3>1, <3>3, <1>f DEF Running
    <3> QED BY <2>3, <3>2, <3>3 DEF MeshEvent
  <2> QED BY <1>1, <2>1, <2>2, <2>3 DEF MeshTask
<1>2. CASE Start
  <2>1. CASE ReadSnapshot
    <3>1. /\ believed' = Snapshot /\ misled' = Misreads
          /\ UNCHANGED <<link, events>>
      BY <2>1 DEF ReadSnapshot, mesh, feed
    <3>2. B1'
      BY <3>1, <1>0 DEF Latest
    <3>3. B2'
      BY <3>1, SnapshotReads DEF Believes
    <3> QED BY <3>2, <3>3, <1>0
  <2>2. CASE ~ReadSnapshot
    <3>1. UNCHANGED <<link, events, believed, misled>> /\ ~Running'
      BY <1>2, <2>2 DEF Start, SelfInfoKnown, SelfInfoTimesOut, FirstSignature,
         InvalidTransport, Subscribe, Running, mesh, feed
    <3> QED BY <3>1, <1>f
  <2> QED BY <2>1, <2>2
<1>3. CASE Poll
  <2>1. CASE ConnAck
    <3>1. /\ believed' = Snapshot /\ misled' = Misreads
          /\ UNCHANGED <<link, events>>
      BY <2>1 DEF ConnAck, mesh, feed
    <3>2. B1'
      BY <3>1, <1>0 DEF Latest
    <3>3. B2'
      BY <3>1, SnapshotReads DEF Believes
    <3> QED BY <3>2, <3>3, <1>0
  <2>2. CASE ConnectFails \/ Send \/ ConnectionLost
    <3>1. UNCHANGED <<link, events, believed, misled>> /\ Running
      BY <2>2 DEF ConnectFails, Send, ConnectionLost, Running, mesh, task, feed
    <3> QED BY <3>1, <1>f
  <2> QED BY <1>3, <2>1, <2>2 DEF Poll
<1>4. CASE Loop
  <2>1. CASE ReceiveMeshEvent
    <3>1. /\ Running /\ link' = link
          /\ events # <<>> /\ events' = Tail(events) /\ events \in Seq(Event)
      BY <2>1 DEF ReceiveMeshEvent, Running, mesh, TypeOK
    <3>2. B1'
      BY <3>1, <1>0, TailFacts DEF Latest
    <3>3. CASE Head(events) \in Transition
      <4>1. believed' = (Head(events) = "up")
        BY <2>1, <3>3 DEF ReceiveMeshEvent
      <4>2. None(events', Transition) => Head(events) = Latest
        BY <3>1, <3>3, <1>0, TailFacts
      <4>3. B2'
        BY <3>1, <4>1, <4>2 DEF Believes, Latest
      <4> QED BY <3>2, <4>3, <1>0
    <3>4. CASE Head(events) \notin Transition
      <4>1. UNCHANGED <<believed, misled>>
        BY <2>1, <3>4 DEF ReceiveMeshEvent
      <4>2. None(events', Transition) => None(events, Transition)
        BY <3>1, <3>4, TailFacts
      <4>3. B2'
        BY <3>1, <4>1, <4>2, <1>0 DEF Believes
      <4> QED BY <3>2, <4>3, <1>0
    <3> QED BY <3>3, <3>4
  <2>2. CASE ~ReceiveMeshEvent
    <3>1. UNCHANGED <<link, events, believed, misled>> /\ (Running \/ pc' = pc)
      BY <1>4, <2>2 DEF Loop, SlotFreed, StatsReady, Wake, RefreshDue, SigningFails, Heartbeat, Publish,
         Signed, ReceiveLagged, ReceiveRawEvent, Running, mesh, task, feed
    <3> QED BY <3>1, <1>f DEF Running
  <2> QED BY <2>1, <2>2
<1>5. CASE Surroundings
  <2>1. CASE NetworkBreaks \/ WillPublished \/ LateWillPublished
    <3>1. UNCHANGED <<link, events, believed, misled>> /\ pc' = pc
      BY <2>1 DEF NetworkBreaks, WillPublished, LateWillPublished, mesh, task, feed
    <3> QED BY <3>1, <1>f DEF Running
  <2>2. CASE Reloaded \/ Restarted
    BY <2>2, <1>e DEF Reloaded, Restarted, FreshTask, FirstStep, Running
  <2> QED BY <1>5, <2>1, <2>2 DEF Surroundings
<1>6. CASE UNCHANGED vars
  BY <1>6, <1>f DEF vars, mesh, task, feed, Running
<1> QED BY <1>1, <1>2, <1>3, <1>4, <1>5, <1>6 DEF Next

\* A branch about to publish the right status delivers it, whatever is queued.
LEMMA Publishes ==
  ASSUME NEW x \in StatusRequest, out' = <<x>>
  PROVE  Delivers(x)'
  BY ShortSequences DEF Delivers

\* A branch that takes packets or a disconnection on delivers what was delivered.
LEMMA Forwards ==
  ASSUME NEW x, Delivers(x), None(out, StatusRequest), None(out', StatusRequest),
         UNCHANGED <<requests, retained, lateWill>>
  PROVE  LastIs(out', StatusRequest, x)
         /\ (None(out', StatusRequest) => LastIs(requests', StatusRequest, x))
         /\ (None(out', StatusRequest) /\ None(requests', StatusRequest)
              => lateWill' = "fired" \/ retained' = x)
  BY NoneLast DEF Delivers

\* Queueing what the branch holds, in order.
LEMMA PublishDelivers ==
  ASSUME TypeOK, Publish, NEW x, Delivers(x)
  PROVE  /\ LastIs(out', StatusRequest, x)
         /\ None(out', StatusRequest) => LastIs(requests', StatusRequest, x)
         /\ None(out', StatusRequest) /\ None(requests', StatusRequest)
              => lateWill' = "fired" \/ retained' = x
<1>1. /\ out \in Seq(Request) /\ out # <<>> /\ requests \in Seq(Request)
      /\ out' = Tail(out) /\ requests' = Append(requests, Head(out))
      /\ UNCHANGED <<retained, lateWill>>
  BY DEF Publish, TypeOK, srv
<1>2. Head(out) \in Request
  BY <1>1
<1>3. LastIs(out', StatusRequest, x)
  BY <1>1, TailFacts DEF Delivers
<1>4. CASE Head(out) \in StatusRequest
  <2>1. None(Tail(out), StatusRequest) => Head(out) = x
    BY <1>1, <1>4, TailFacts DEF Delivers
  <2>2. Head(out) = x => LastIs(requests', StatusRequest, x)
    BY <1>1, <1>2, <1>4, AppendFacts
  <2>3. ~None(requests', StatusRequest)
    BY <1>1, <1>2, <1>4, AppendFacts
  <2> QED BY <1>1, <1>3, <2>1, <2>2, <2>3
<1>5. CASE Head(out) \notin StatusRequest
  <2>1. None(Tail(out), StatusRequest) => None(out, StatusRequest)
    BY <1>1, <1>5, TailFacts
  <2>2. LastIs(requests, StatusRequest, x) => LastIs(requests', StatusRequest, x)
    BY <1>1, <1>2, <1>5, AppendFacts
  <2>3. None(requests', StatusRequest) => None(requests, StatusRequest)
    BY <1>1, <1>2, AppendFacts
  <2> QED BY <1>1, <1>3, <2>1, <2>2, <2>3 DEF Delivers
<1> QED BY <1>4, <1>5

\* Writing the oldest request over a live connection.
LEMMA SendDelivers ==
  ASSUME TypeOK, Send, session = "up", NEW x, Delivers(x)
  PROVE  /\ LastIs(out', StatusRequest, x)
         /\ None(out', StatusRequest) => LastIs(requests', StatusRequest, x)
         /\ None(out', StatusRequest) /\ None(requests', StatusRequest)
              => lateWill' = "fired" \/ retained' = x
<1>1. /\ requests \in Seq(Request) /\ requests # <<>>
      /\ requests' = Tail(requests) /\ out' = out
      /\ IF Head(requests) \in StatusRequest
         THEN retained' = Head(requests) ELSE UNCHANGED <<retained, lateWill>>
  BY DEF Send, TypeOK, task, StatusRequest
<1>2. LastIs(requests, StatusRequest, x) => LastIs(Tail(requests), StatusRequest, x)
  BY <1>1, TailFacts
<1>3. ASSUME None(out', StatusRequest), None(requests', StatusRequest)
      PROVE  lateWill' = "fired" \/ retained' = x
  <2>1. None(out, StatusRequest) /\ LastIs(requests, StatusRequest, x)
    BY <1>1, <1>3 DEF Delivers
  <2>2. CASE Head(requests) \in StatusRequest
    BY <1>1, <1>3, <2>1, <2>2, TailFacts
  <2>3. CASE Head(requests) \notin StatusRequest
    <3>1. None(requests, StatusRequest)
      BY <1>1, <1>3, <2>3, TailFacts
    <3> QED BY <1>1, <2>1, <2>3, <3>1 DEF Delivers
  <2> QED BY <2>2, <2>3
<1> QED BY <1>1, <1>2, <1>3 DEF Delivers

\* What is last on the way to the server is right, as long as the task was not
\* misled (every branch of run_broker and what the client does with its queue).
LEMMA PipelineStep == IInv /\ [Next]_vars => Pipeline'
<1> SUFFICES ASSUME IInv, [Next]_vars, Informed' PROVE Delivers(Target)'
  BY DEF Pipeline
<1>0. TypeOK /\ Shape /\ Belief /\ Pipeline
  BY DEF IInv
<1>i. /\ config'.highLevel /\ selfKnown' /\ session' = "up" /\ ~misled'
      /\ None(events', Transition) /\ link' \in {"up", "down", "lost"}
  BY DEF Informed
<1>b. Belief'
  BY <1>0, BeliefStep
<1>q. ASSUME UNCHANGED <<out, requests, retained, lateWill>>, Informed, Target' = Target
      PROVE  Delivers(Target)'
  BY <1>q, <1>0 DEF Delivers, Pipeline
<1>p. ASSUME NEW c \in BOOLEAN, PublishStatus(c), UNCHANGED <<config, link, deviceKnown, selfKnown>>,
             link' = "up" <=> c
      PROVE  Delivers(Target)'
  <2>1. out' = <<Status(c)>> /\ Status(c) \in StatusRequest
    BY <1>i, <1>p, PublishStatusCases
  <2>2. Status(c) = Target'
    BY <1>p DEF Target, Status
  <2> QED BY <2>1, <2>2, Publishes DEF Delivers
<1>1. CASE MeshTask
  <2>0. UNCHANGED <<out, requests, retained, lateWill, config, session, pc>>
    BY <1>1 DEF MeshTask, MeshConnects, MeshDescribes, MeshAnnounces, MeshEvent, MeshLost,
       MeshCleared, task, net, srv
  <2>1. Subscribed
    BY <1>i, <1>0, <2>0 DEF Shape, Running, Subscribed
  <2>2. CASE MeshConnects \/ MeshDescribes
    BY <2>2, <1>i DEF MeshConnects, MeshDescribes
  <2>3. CASE MeshAnnounces \/ MeshLost
    <3>1. PICK e \in Transition : Broadcast(e)
      BY <2>3 DEF MeshAnnounces, MeshLost, Transition
    <3> QED BY <1>i, <1>0, <2>1, <3>1, TransitionBroadcast
  <2>4. CASE MeshEvent
    <3>1. ~misled /\ None(events, Transition)
      BY <2>4, <1>i, <1>0, OtherBroadcast DEF MeshEvent
    <3>2. UNCHANGED <<link, selfKnown, deviceKnown>>
      BY <2>4 DEF MeshEvent, mesh
    <3> QED BY <1>i, <1>q, <2>0, <3>1, <3>2 DEF Informed, Target, Status
  <2>5. CASE MeshCleared
    <3>1. link = "lost" /\ link' = "down" /\ UNCHANGED <<selfKnown, deviceKnown, events, misled>>
      BY <2>5 DEF MeshCleared, feed
    <3> QED BY <1>i, <1>q, <2>0, <3>1 DEF Informed, Target, Status
  <2> QED BY <1>1, <2>2, <2>3, <2>4, <2>5 DEF MeshTask
<1>2. CASE Start
  <2>1. session' = session /\ ~Running
    BY <1>2 DEF Start, SelfInfoKnown, SelfInfoTimesOut, FirstSignature, InvalidTransport,
       Subscribe, ReadSnapshot, Running, net
  <2> QED BY <1>i, <1>0, <2>1 DEF Shape
<1>3. CASE Poll
  <2>1. CASE ConnAck
    <3>1. /\ PublishStatus(Snapshot) /\ misled' = Misreads
          /\ UNCHANGED <<config, link, deviceKnown, selfKnown, events>>
      BY <2>1 DEF ConnAck, mesh, feed
    <3>2. Snapshot \in BOOLEAN /\ (link' = "up" <=> Snapshot)
      BY <1>0, <1>i, <3>1, SnapshotReads DEF Snapshot
    <3> QED BY <3>1, <3>2, <1>p
  <2>2. CASE ConnectFails
    BY <2>2, <1>i DEF ConnectFails, net
  <2>3. CASE Send
    <3>1. session = "up" /\ UNCHANGED <<mesh, task, events, misled>>
      BY <2>3, <1>i DEF Send, feed
    <3>2. Informed /\ Target' = Target
      BY <1>i, <3>1 DEF Informed, Target, Status, mesh, task
    <3>3. Delivers(Target)
      BY <1>0, <3>2 DEF Pipeline
    <3> QED BY <1>0, <2>3, <3>1, <3>2, <3>3, SendDelivers DEF Delivers
  <2>4. CASE ConnectionLost
    BY <2>4, <1>i DEF ConnectionLost
  <2> QED BY <1>3, <2>1, <2>2, <2>3, <2>4 DEF Poll
<1>4. CASE Loop
  <2>0. UNCHANGED <<link, selfKnown, deviceKnown, config, session, retained, lateWill>>
    BY <1>4 DEF Loop, SlotFreed, StatsReady, Wake, RefreshDue, SigningFails, Heartbeat, Publish,
       Signed, ReceiveLagged, ReceiveMeshEvent, ReceiveRawEvent, mesh, task, net, srv
  <2>t. Target' = Target
    BY <2>0 DEF Target, Status
  <2>1. CASE SlotFreed \/ StatsReady \/ Wake \/ RefreshDue \/ SigningFails \/ ReceiveLagged
    <3>1. UNCHANGED <<out, requests, events, misled>>
      BY <2>1 DEF SlotFreed, StatsReady, Wake, RefreshDue, SigningFails, ReceiveLagged, task, feed, net
    <3> QED BY <1>i, <1>q, <2>0, <2>t, <3>1 DEF Informed
  <2>2. CASE Heartbeat
    <3>1. PublishStatus(believed) /\ Running /\ UNCHANGED <<events, misled, believed>>
      BY <2>2 DEF Heartbeat, Running, feed
    <3>2. believed \in BOOLEAN /\ (link' = "up" <=> believed)
      BY <1>0, <1>i, <2>0, <3>1 DEF Belief, TypeOK
    <3> QED BY <1>p, <2>0, <3>1, <3>2
  <2>3. CASE Publish
    <3>1. Informed
      BY <2>3, <1>i, <2>0 DEF Informed, Publish, feed
    <3> QED BY <1>0, <2>3, <2>t, <3>1, PublishDelivers DEF Delivers, Pipeline
  <2>4. CASE Signed \/ ReceiveRawEvent
    <3>1. UNCHANGED <<requests, events, misled>> /\ pc \notin {"stats", "publishing"}
      BY <2>4 DEF Signed, ReceiveRawEvent, feed, net
    <3>2. out = <<>> /\ None(out, StatusRequest)
      BY <1>0, <3>1, ShortSequences DEF Shape
    <3>3. None(out', StatusRequest)
      BY <2>4, <3>2 DEF Signed, ReceiveRawEvent, None, StatusRequest
    <3>4. Informed
      BY <1>i, <2>0, <3>1 DEF Informed
    <3>5. Delivers(Target)
      BY <1>0, <3>4 DEF Pipeline
    <3> QED BY <2>0, <2>t, <3>1, <3>2, <3>3, <3>5, Forwards DEF Delivers
  <2>5. CASE ReceiveMeshEvent
    <3>1. /\ events # <<>> /\ events' = Tail(events) /\ events \in Seq(Event)
          /\ UNCHANGED requests
      BY <2>5, <1>0 DEF ReceiveMeshEvent, TypeOK, net
    <3>2. CASE Head(events) \in Transition
      <4>1. PublishStatus(Head(events) = "up")
        BY <2>5, <3>2 DEF ReceiveMeshEvent
      <4>2. Head(events) = IF link = "up" THEN "up" ELSE "down"
        BY <1>0, <1>i, <3>1, <3>2, TailFacts DEF Belief
      <4>3. link' = "up" <=> Head(events) = "up"
        BY <2>0, <4>2
      <4> QED BY <1>p, <2>0, <4>1, <4>3
    <3>3. CASE Head(events) \notin Transition
      <4>1. UNCHANGED <<misled, out>>
        BY <2>5, <3>3 DEF ReceiveMeshEvent
      <4>2. None(events, Transition)
        BY <1>i, <3>1, <3>3, TailFacts
      <4> QED BY <1>i, <1>q, <2>0, <2>t, <3>1, <4>1, <4>2 DEF Informed
    <3> QED BY <3>2, <3>3
  <2> QED BY <1>4, <2>1, <2>2, <2>3, <2>4, <2>5 DEF Loop
<1>5. CASE Surroundings
  <2>1. CASE NetworkBreaks \/ Reloaded \/ Restarted
    BY <2>1, <1>i DEF NetworkBreaks, Reloaded, Restarted, FreshTask
  <2>2. CASE WillPublished
    <3>1. willDue /\ session' = session
      BY <2>2 DEF WillPublished, net
    <3> QED BY <1>0, <1>i, <3>1 DEF Shape
  <2>3. CASE LateWillPublished
    <3>1. lateWill' = "fired" /\ UNCHANGED <<mesh, task, events, misled, net>>
      BY <2>3 DEF LateWillPublished, feed
    <3>2. Informed /\ Target' = Target
      BY <1>i, <3>1 DEF Informed, Target, Status, mesh, task, net
    <3>3. Delivers(Target)
      BY <1>0, <3>2 DEF Pipeline
    <3> QED BY <3>1, <3>2, <3>3 DEF Delivers, task, net
  <2> QED BY <1>5, <2>1, <2>2, <2>3 DEF Surroundings
<1>6. CASE UNCHANGED vars
  BY <1>6, <1>i, <1>q DEF vars, mesh, task, feed, net, srv, Informed, Target, Status
<1> QED BY <1>1, <1>2, <1>3, <1>4, <1>5, <1>6 DEF Next

\* A disconnection is held or queued exactly while the connection is older than
\* the credentials (the jwt_refresh branch).
LEMMA RenewalStep == TypeOK /\ Shape /\ Renewal /\ [Next]_vars => Renewal'
<1> SUFFICES ASSUME TypeOK, Shape, Renewal, [Next]_vars PROVE Renewal'
  OBVIOUS
<1>f. ASSUME UNCHANGED <<renewed, requests, out>>,
             session' = session \/ (session' # "up" /\ session' # "none")
      PROVE  Renewal'
  BY <1>f DEF Renewal, Ends
<1>e. ~Ends(<<>>) /\ Ends(<<"disconnect">>)
      /\ \A x \in StatusRequest : ~Ends(<<x>>)
  BY ShortSequences DEF Ends, StatusRequest
<1>h. pc \notin {"stats", "publishing"} => out = <<>> /\ ~Ends(out)
  BY <1>e DEF Shape
<1>p. ASSUME NEW c \in BOOLEAN, PublishStatus(c), ~Ends(out) PROVE ~Ends(out')
  BY <1>p, <1>e, PublishStatusCases
<1>1. CASE MeshTask
  BY <1>1, <1>f DEF MeshTask, MeshConnects, MeshDescribes, MeshAnnounces, MeshEvent, MeshLost,
     MeshCleared, task, net
<1>2. CASE Start
  BY <1>2, <1>f DEF Start, SelfInfoKnown, SelfInfoTimesOut, FirstSignature, InvalidTransport,
     Subscribe, ReadSnapshot, net
<1>3. CASE Poll
  <2>1. CASE ConnAck
    <3>1. /\ session = "none" /\ session' = "up" /\ renewed' = FALSE
          /\ requests' = requests /\ PublishStatus(Snapshot)
      BY <2>1 DEF ConnAck
    <3>2. Snapshot \in BOOLEAN
      BY DEF Snapshot
    <3>3. ~Ends(out') /\ ~Ends(requests')
      BY <3>1, <3>2, <1>p DEF Renewal
    <3> QED BY <3>1, <3>3 DEF Renewal, Ends
  <2>2. CASE ConnectFails
    BY <2>2, <1>f DEF ConnectFails, net
  <2>3. CASE Send
    <3>1. /\ requests \in Seq(Request) /\ requests # <<>> /\ requests' = Tail(requests)
          /\ session # "none" /\ UNCHANGED <<out, renewed>>
          /\ session' = IF Head(requests) = "disconnect" THEN "closed" ELSE session
      BY <2>3 DEF Send, TypeOK, task
    <3>2. CASE Head(requests) = "disconnect"
      BY <3>1, <3>2 DEF Renewal
    <3>3. CASE Head(requests) # "disconnect"
      <4>1. Ends(requests') <=> Ends(requests)
        BY <3>1, <3>3, TailFacts DEF Ends
      <4> QED BY <3>1, <3>3, <4>1 DEF Renewal, Ends
    <3> QED BY <3>2, <3>3
  <2>4. CASE ConnectionLost
    <3>1. session' = "none" /\ requests' = <<>> /\ out' = out /\ pc = "select"
      BY <2>4 DEF ConnectionLost
    <3> QED BY <3>1, <1>e, <1>h DEF Renewal, Ends
  <2> QED BY <1>3, <2>1, <2>2, <2>3, <2>4 DEF Poll
<1>4. CASE Loop
  <2>1. CASE SlotFreed \/ StatsReady \/ Wake \/ RefreshDue \/ SigningFails \/ ReceiveLagged
    BY <2>1, <1>f DEF SlotFreed, StatsReady, Wake, RefreshDue, SigningFails, ReceiveLagged, task, net
  <2>2. CASE Heartbeat \/ ReceiveMeshEvent \/ ReceiveRawEvent
    <3>1. UNCHANGED <<requests, session, renewed>> /\ ~Ends(out)
      BY <2>2, <1>h DEF Heartbeat, ReceiveMeshEvent, ReceiveRawEvent, net
    <3>2. CASE Heartbeat
      <4>1. believed \in BOOLEAN /\ PublishStatus(believed)
        BY <3>2 DEF Heartbeat, TypeOK
      <4> QED BY <3>1, <4>1, <1>p DEF Renewal, Ends
    <3>3. CASE ReceiveMeshEvent
      <4>1. ~Ends(out')
        BY <3>1, <3>3, <1>p DEF ReceiveMeshEvent
      <4> QED BY <3>1, <4>1 DEF Renewal, Ends
    <3>4. CASE ReceiveRawEvent
      <4>1. ~Ends(out')
        BY <3>4 DEF ReceiveRawEvent, Ends, None
      <4> QED BY <3>1, <4>1 DEF Renewal, Ends
    <3> QED BY <2>2, <3>2, <3>3, <3>4
  <2>3. CASE Publish
    <3>1. /\ out \in Seq(Request) /\ out # <<>> /\ requests \in Seq(Request)
          /\ out' = Tail(out) /\ requests' = Append(requests, Head(out))
          /\ UNCHANGED <<session, renewed>>
      BY <2>3 DEF Publish, TypeOK
    <3>2. Ends(requests') <=> Ends(requests) \/ Head(out) = "disconnect"
      <4>1. Head(out) \in Request
        BY <3>1
      <4> QED BY <3>1, <4>1, AppendFacts DEF Ends
    <3>3. Ends(out) <=> Ends(out') \/ Head(out) = "disconnect"
      BY <3>1, TailFacts DEF Ends
    <3> QED BY <3>1, <3>2, <3>3 DEF Renewal, Ends
  <2>4. CASE Signed
    <3>1. /\ UNCHANGED <<requests, session>> /\ renewed' = (session # "none")
          /\ IF mqttUp THEN out' = <<"disconnect">> ELSE out' = out
          /\ ~Ends(out)
      BY <2>4, <1>h DEF Signed
    <3>2. mqttUp <=> session # "none"
      BY DEF Shape
    <3>3. CASE mqttUp
      BY <3>1, <3>2, <3>3, <1>e DEF Renewal, Ends
    <3>4. CASE ~mqttUp
      BY <3>1, <3>2, <3>4 DEF Renewal, Ends
    <3> QED BY <3>3, <3>4
  <2> QED BY <1>4, <2>1, <2>2, <2>3, <2>4 DEF Loop
<1>5. CASE Surroundings
  <2>1. CASE NetworkBreaks \/ WillPublished \/ LateWillPublished
    BY <2>1, <1>f DEF NetworkBreaks, WillPublished, LateWillPublished, task, net
  <2>2. CASE Reloaded \/ Restarted
    <3>1. session' = "none" /\ requests' = <<>> /\ out' = <<>>
      BY <2>2 DEF Reloaded, Restarted, FreshTask
    <3> QED BY <3>1, <1>e DEF Renewal, Ends
  <2> QED BY <1>5, <2>1, <2>2 DEF Surroundings
<1>6. CASE UNCHANGED vars
  BY <1>6, <1>f DEF vars, task, net
<1> QED BY <1>1, <1>2, <1>3, <1>4, <1>5, <1>6 DEF Next

-----------------------------------------------------------------------------
(* Theorems.                                                               *)

\* The invariant is inductive.
THEOREM Invariance == Spec => []IInv
<1>1. IInv /\ [Next]_vars => IInv'
  <2>1. IInv /\ [Next]_vars => TypeOK'
    BY FlagsStep, KindsStep, QueuesStep, TypeParts DEF IInv
  <2> QED BY <2>1, ShapeStep, BeliefStep, PipelineStep, RenewalStep DEF IInv
<1> QED BY <1>1, InvariantInit, PTL DEF Spec

\* A broker with nothing left to do retains the state of the mesh node, unless
\* the task was misled (run_broker, publish_current_status).
THEOREM StatusIsCurrent == Spec => []StatusCurrent
<1>1. IInv => StatusCurrent
  <2> SUFFICES ASSUME IInv, AtRest, ~misled, config.highLevel, selfKnown
               PROVE  retained = Status(link = "up")
    BY DEF StatusCurrent
  <2>1. /\ out = <<>> /\ events = <<>> /\ requests = <<>> /\ lateWill = "none"
        /\ session = "up" /\ link \in {"up", "down"}
    BY DEF AtRest, IInv, Shape
  <2>2. None(out, StatusRequest) /\ None(requests, StatusRequest) /\ None(events, Transition)
    BY <2>1, ShortSequences
  <2>3. Delivers(Target)
    BY <2>1, <2>2 DEF IInv, Pipeline, Informed
  <2> QED BY <2>1, <2>2, <2>3 DEF Delivers, Target
<1> QED BY <1>1, Invariance, PTL

\* A connection older than the credentials is on its way out, and only such a
\* one is (the jwt_refresh branch of run_broker).
THEOREM CredentialsAreNewest == Spec => []NewestCredentials
<1>1. IInv => NewestCredentials
  <2> SUFFICES ASSUME IInv, session = "up"
               PROVE  /\ pc = "select" /\ renewed => Ends(requests)
                      /\ Ends(requests) => renewed
    BY DEF NewestCredentials, Ends, None
  <2>1. pc = "select" => ~Ends(out)
    BY ShortSequences DEF IInv, Shape, Ends
  <2> QED BY <2>1 DEF IInv, Renewal
<1> QED BY <1>1, Invariance, PTL

=============================================================================
