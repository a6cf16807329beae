------------------------ MODULE ClientStreamProofs ------------------------
(***************************************************************************)
(* Proofs about what a terminal UI shows, for any capacities and any       *)
(* bounds.  Snapshots reach the screen in the order they were taken, so    *)
(* the screen never goes back; and whoever was told of a change has a      *)
(* request, a new connection or a recent enough snapshot on its way.       *)
(* Packets reach the list in the order they were recorded, and each one of *)
(* the daemon's log is listed or on its way.                               *)
(***************************************************************************)
EXTENDS ClientStream, Functions, SequenceTheorems, TLAPS

IsSnapshot(m) == m.kind = "snapshot"

\* The snapshots in s are in the order they were taken.
Ordered(s) ==
  \A i, j \in DOMAIN s :
    i < j /\ IsSnapshot(s[i]) /\ IsSnapshot(s[j]) => s[i].number <= s[j].number

\* A "down" in s is followed by an "up".
Recovers(s) ==
  \A i \in DOMAIN s : s[i].kind = "down" =>
    \E j \in DOMAIN s : j > i /\ s[j].kind = "up"

-----------------------------------------------------------------------------
(* Sequences.                                                              *)

LEMMA EmptyFacts ==
  Range(<<>>) = {} /\ Ordered(<<>>) /\ Recovers(<<>>) /\ Len(<<>>) = 0
  BY DEF Range, Ordered, Recovers

LEMMA AppendFacts ==
  ASSUME NEW T, NEW s \in Seq(T), NEW e \in T
  PROVE  /\ Append(s, e) \in Seq(T) /\ Len(Append(s, e)) = Len(s) + 1 /\ Len(s) \in Nat
         /\ Append(s, e) # <<>>
         /\ Range(Append(s, e)) = Range(s) \cup {e}
         /\ Ordered(s) /\ (\A m \in Range(s) : IsSnapshot(m) /\ IsSnapshot(e) => m.number <= e.number)
            => Ordered(Append(s, e))
         /\ Recovers(s) /\ e.kind # "down" => Recovers(Append(s, e))
         /\ e.kind = "up" => Recovers(Append(s, e))
<1>1. /\ Append(s, e) \in Seq(T) /\ Append(s, e) # <<>>
      /\ Len(Append(s, e)) = Len(s) + 1 /\ Len(s) \in Nat
      /\ DOMAIN Append(s, e) = 1..(Len(s) + 1) /\ DOMAIN s = 1..Len(s)
      /\ \A i \in 1..Len(s) : Append(s, e)[i] = s[i]
      /\ Append(s, e)[Len(s) + 1] = e
  OBVIOUS
<1>2. Range(Append(s, e)) = Range(s) \cup {e}
  BY <1>1 DEF Range
<1>3. ASSUME Ordered(s),
             \A m \in Range(s) : IsSnapshot(m) /\ IsSnapshot(e) => m.number <= e.number
      PROVE  Ordered(Append(s, e))
  BY <1>1, <1>3 DEF Ordered, Range
<1>4. Recovers(s) /\ e.kind # "down" => Recovers(Append(s, e))
  BY <1>1 DEF Recovers
<1>5. e.kind = "up" => Recovers(Append(s, e))
  <2> SUFFICES ASSUME e.kind = "up", NEW i \in 1..(Len(s) + 1), Append(s, e)[i].kind = "down"
               PROVE  \E j \in 1..(Len(s) + 1) : j > i /\ Append(s, e)[j].kind = "up"
    BY <1>1 DEF Recovers
  <2>1. i # Len(s) + 1
    BY <1>1
  <2> QED BY <1>1, <2>1
<1> QED BY <1>1, <1>2, <1>3, <1>4, <1>5

LEMMA TailFacts ==
  ASSUME NEW T, NEW s \in Seq(T), s # <<>>
  PROVE  /\ Tail(s) \in Seq(T) /\ Len(Tail(s)) = Len(s) - 1 /\ Len(s) \in Nat
         /\ Head(s) \in T
         /\ Range(s) = {Head(s)} \cup Range(Tail(s))
         /\ Ordered(s) => /\ Ordered(Tail(s))
                          /\ \A m \in Range(Tail(s)) :
                               IsSnapshot(m) /\ IsSnapshot(Head(s)) => Head(s).number <= m.number
         /\ Recovers(s) => /\ Recovers(Tail(s))
                           /\ Head(s).kind = "down" => \E m \in Range(Tail(s)) : m.kind = "up"
<1>1. /\ Tail(s) \in Seq(T) /\ Len(Tail(s)) = Len(s) - 1
      /\ Head(s) \in T /\ Head(s) = s[1]
      /\ DOMAIN Tail(s) = 1..(Len(s) - 1) /\ DOMAIN s = 1..Len(s)
      /\ \A i \in 1..(Len(s) - 1) : Tail(s)[i] = s[i + 1]
      /\ Len(s) \in Nat /\ Len(s) > 0
  OBVIOUS
<1>2. \A j \in DOMAIN s : j # 1 => j - 1 \in DOMAIN Tail(s) /\ Tail(s)[j - 1] = s[j]
  BY <1>1
<1>i. \A i \in DOMAIN Tail(s) : i + 1 \in DOMAIN s /\ Tail(s)[i] = s[i + 1] /\ 1 < i + 1
  BY <1>1
<1>3. Range(s) = {Head(s)} \cup Range(Tail(s))
  <2>1. Range(s) \subseteq {Head(s)} \cup Range(Tail(s))
    BY <1>1, <1>2 DEF Range
  <2>2. Head(s) \in Range(s) /\ Range(Tail(s)) \subseteq Range(s)
    BY <1>1, <1>i DEF Range
  <2> QED BY <2>1, <2>2
<1>4. ASSUME Ordered(s)
      PROVE  /\ Ordered(Tail(s))
             /\ \A m \in Range(Tail(s)) :
                  IsSnapshot(m) /\ IsSnapshot(Head(s)) => Head(s).number <= m.number
  <2>1. Ordered(Tail(s))
    BY <1>1, <1>i, <1>4 DEF Ordered
  <2>2. ASSUME NEW m \in Range(Tail(s)), IsSnapshot(m), IsSnapshot(Head(s))
        PROVE  Head(s).number <= m.number
    <3>1. PICK i \in DOMAIN Tail(s) : Tail(s)[i] = m
      BY <2>2 DEF Range
    <3>2. i + 1 \in DOMAIN s /\ s[i + 1] = m /\ 1 < i + 1 /\ 1 \in DOMAIN s
      BY <1>1, <1>i, <3>1
    <3> QED BY <1>1, <1>4, <2>2, <3>2 DEF Ordered
  <2> QED BY <2>1, <2>2
<1>5. ASSUME Recovers(s)
      PROVE  /\ Recovers(Tail(s))
             /\ Head(s).kind = "down" => \E m \in Range(Tail(s)) : m.kind = "up"
  <2>1. ASSUME NEW i \in DOMAIN s, s[i].kind = "down"
        PROVE  \E j \in DOMAIN Tail(s) : j + 1 > i /\ Tail(s)[j].kind = "up"
    <3>1. PICK k \in DOMAIN s : k > i /\ s[k].kind = "up"
      BY <1>5, <2>1 DEF Recovers
    <3>2. k # 1 /\ k \in Nat /\ i \in Nat
      BY <1>1, <3>1
    <3>3. k - 1 \in DOMAIN Tail(s) /\ Tail(s)[k - 1].kind = "up"
      BY <1>2, <3>1, <3>2
    <3>4. (k - 1) + 1 > i
      BY <3>1, <3>2
    <3> QED BY <3>3, <3>4
  <2>2. Recovers(Tail(s))
    <3> SUFFICES ASSUME NEW i \in DOMAIN Tail(s), Tail(s)[i].kind = "down"
                 PROVE  \E j \in DOMAIN Tail(s) : j > i /\ Tail(s)[j].kind = "up"
      BY DEF Recovers
    <3>1. PICK j \in DOMAIN Tail(s) : j + 1 > i + 1 /\ Tail(s)[j].kind = "up"
      BY <1>i, <2>1
    <3> QED BY <1>1, <3>1
  <2>3. Head(s).kind = "down" => \E m \in Range(Tail(s)) : m.kind = "up"
    BY <1>1, <2>1 DEF Range
  <2> QED BY <2>2, <2>3
<1> QED BY <1>1, <1>3, <1>4, <1>5

\* What a broadcast leaves in a receiver.
LEMMA NewestFacts ==
  ASSUME NEW T, NEW s \in Seq(T), NEW e \in T, NEW cap \in Nat \ {0}, Len(s) <= cap
  PROVE  LET r == Newest(Append(s, e), cap) IN
         /\ r \in Seq(T) /\ Len(r) <= cap
         /\ e \in Range(r) /\ Range(r) \subseteq Range(s) \cup {e}
         /\ Len(s) # cap => Range(r) = Range(s) \cup {e}
<1>1. /\ Append(s, e) \in Seq(T) /\ Append(s, e) # <<>>
      /\ Len(Append(s, e)) = Len(s) + 1 /\ Len(s) \in Nat
      /\ Range(Append(s, e)) = Range(s) \cup {e}
  BY AppendFacts
<1>2. CASE Len(s) # cap
  <2>1. Newest(Append(s, e), cap) = Append(s, e)
    BY <1>1, <1>2 DEF Newest
  <2>2. Len(Append(s, e)) <= cap
    BY <1>1, <1>2
  <2> QED BY <1>1, <2>1, <2>2
<1>3. CASE Len(s) = cap
  <2>1. Newest(Append(s, e), cap) = Tail(Append(s, e))
    BY <1>1, <1>3 DEF Newest
  <2> DEFINE a == Append(s, e)
  <2>2. /\ Tail(a) \in Seq(T)
        /\ Len(Tail(a)) = Len(a) - 1
        /\ Range(a) = {Head(a)} \cup Range(Tail(a))
    <3>1. a \in Seq(T) /\ a # <<>>
      BY <1>1
    <3> HIDE DEF a
    <3> QED BY <3>1, TailFacts
  <2>3. e \in Range(Tail(Append(s, e)))
    <3>1. Tail(Append(s, e)) = Append(Tail(s), e) /\ Tail(s) \in Seq(T)
      BY <1>3, HeadTailAppend, EmptyFacts
    <3> QED BY <3>1, AppendFacts
  <2> QED BY <1>1, <1>3, <2>1, <2>2, <2>3
<1> QED BY <1>2, <1>3

LEMMA FirstFacts ==
  ASSUME NEW T, NEW s \in Seq(T), NEW n \in Nat
  PROVE  /\ First(s, n) \in Seq(T) /\ Len(First(s, n)) <= n
         /\ s # <<>> /\ n # 0 => First(s, n) # <<>>
<1>1. Len(s) \in Nat /\ \A i \in 1..Len(s) : s[i] \in T
  BY LenProperties
<1>2. CASE Len(s) <= n
  <2>1. First(s, n) = s
    BY <1>2, SubSeqFull DEF First
  <2> QED BY <1>2, <2>1
<1>3. CASE ~(Len(s) <= n)
  <2>1. First(s, n) = SubSeq(s, 1, n)
    BY <1>3 DEF First
  <2>2. \A i \in 1..n : s[i] \in T
    BY <1>1, <1>3
  <2>3. SubSeq(s, 1, n) \in Seq(T) /\ Len(SubSeq(s, 1, n)) = IF 1 <= n THEN n - 1 + 1 ELSE 0
    BY <2>2, SubSeqProperties
  <2> QED BY <2>1, <2>3, EmptyFacts
<1> QED BY <1>2, <1>3

-----------------------------------------------------------------------------
(* Types.                                                                  *)

DaemonTypes ==
  /\ alive \in BOOLEAN /\ online \in BOOLEAN /\ current \in Number
  /\ mesh \in Change \cup {"idle", "packet"} /\ own \in BOOLEAN /\ jobs \in 0..JobCap
  /\ log \in Seq(Packet) /\ Len(log) <= LogCap
  /\ nextId \in 1..MaxPackets + 1
  /\ done \in Number
FeedTypes ==
  /\ srv \in {"none", "subscribed", "snapped", "serving", "waiting", "busy", "refused"}
  /\ events \in Seq(Event) /\ Len(events) <= EventCap
  /\ packetFeed \in Seq(Packet) /\ Len(packetFeed) <= EventCap
  /\ missedEvent \in BOOLEAN /\ missedPacket \in BOOLEAN
SocketTypes ==
  /\ toClient \in Seq(Message) /\ Len(toClient) <= SocketCap
  /\ toServer \in Seq(Command)
ChannelTypes ==
  /\ ipc \in {"away", "up", "down", "select", "deliver"}
  /\ uiQueue \in Seq(UiEvent) /\ Len(uiQueue) <= UiCap
  /\ cmdQueue \in Seq(Command) /\ Len(cmdQueue) <= CmdCap
  /\ ui \in Command \cup {"idle"}
  /\ keys \in 0..MaxKeys
ScreenTypes ==
  /\ connected \in BOOLEAN /\ shown \in Number
  /\ packets \in Seq(Packet) /\ Len(packets) <= MaxShown
  /\ heard \in Number

\* What a change or a packet half made needs for its second half.
Halfway ==
  /\ mesh = "status" => current < MaxNumber
  /\ mesh = "packet" => log # <<>>

Types == DaemonTypes /\ FeedTypes /\ SocketTypes /\ ChannelTypes /\ ScreenTypes /\ Halfway

LEMMA TypeParts ==
  TypeOK <=> DaemonTypes /\ FeedTypes /\ SocketTypes /\ ChannelTypes /\ ScreenTypes
  BY DEF TypeOK, DaemonTypes, FeedTypes, SocketTypes, ChannelTypes, ScreenTypes

LEMMA Caps ==
  /\ EventCap \in Nat \ {0} /\ SocketCap \in Nat \ {0} /\ UiCap \in Nat \ {0}
  /\ CmdCap \in Nat \ {0} /\ JobCap \in Nat \ {0} /\ LogCap \in Nat \ {0} /\ MaxShown \in Nat \ {0}
  /\ MaxNumber \in Nat /\ MaxPackets \in Nat /\ MaxKeys \in Nat
  BY StreamAssumption

\* What is sent on each channel belongs to it.
LEMMA MessageFacts ==
  /\ \A n \in Number : Snap(n) \in Message /\ IsSnapshot(Snap(n)) /\ Snap(n).number = n
  /\ \A n \in Number, f \in BOOLEAN :
       Note(n, f) \in Event /\ Note(n, f).kind = "event"
       /\ Note(n, f).number = n /\ Note(n, f).refresh = f
  /\ \A s \in Seq(Packet) : Backlog(s) \in Message /\ Backlog(s).kind = "log"
  /\ \A p \in Packet : Entry(p) \in Message /\ Entry(p).kind = "entry"
  /\ Plain("error") \in Message /\ Plain("error").kind = "error"
  /\ \A k \in {"up", "down"} : Plain(k) \in UiEvent /\ Plain(k).kind = k
  /\ Event \subseteq Message /\ Message \subseteq UiEvent
  /\ \A m \in Message : m.kind \in {"snapshot", "event", "log", "entry", "error"}
  /\ \A m \in UiEvent : m.kind \in {"snapshot", "event", "log", "entry", "error", "up", "down"}
  /\ \A m \in UiEvent : m.kind = "snapshot" => m.number \in Number
  /\ \A m \in UiEvent : m.kind = "event" => m.number \in Number /\ m.refresh \in BOOLEAN
  /\ \A m \in UiEvent : m.kind = "log" => m.entries \in Seq(Packet)
  /\ \A m \in UiEvent : m.kind = "entry" => m.id \in Packet
  /\ \A m \in Event : m.kind = "event"
  BY DEF Snap, Note, Backlog, Entry, Plain, Event, Message, UiEvent, IsSnapshot

\* broadcast_event as a receiver sees it.
LEMMA BroadcastFacts ==
  ASSUME FeedTypes, NEW m \in Event, BroadcastEvent(m)
  PROVE  /\ events' \in Seq(Event) /\ Len(events') <= EventCap /\ missedEvent' \in BOOLEAN
         /\ Range(events') \subseteq Range(events) \cup {m}
         /\ srv # "none" => m \in Range(events')
         /\ ~missedEvent' => ~missedEvent /\ Range(events) \subseteq Range(events')
<1>1. CASE srv = "none"
  BY <1>1 DEF BroadcastEvent, Subscribed, FeedTypes
<1>2. CASE srv # "none"
  <2>1. /\ events' = Newest(Append(events, m), EventCap)
        /\ missedEvent' = (missedEvent \/ Len(events) = EventCap)
    BY <1>2 DEF BroadcastEvent, Subscribed
  <2>2. /\ events' \in Seq(Event) /\ Len(events') <= EventCap
        /\ m \in Range(events') /\ Range(events') \subseteq Range(events) \cup {m}
        /\ Len(events) # EventCap => Range(events') = Range(events) \cup {m}
    BY <2>1, Caps, NewestFacts DEF FeedTypes
  <2> QED BY <2>1, <2>2 DEF FeedTypes
<1> QED BY <1>1, <1>2

LEMMA EmptySequences ==
  /\ <<>> \in Seq(Packet) /\ <<>> \in Seq(Event) /\ <<>> \in Seq(Message)
  /\ <<>> \in Seq(UiEvent) /\ <<>> \in Seq(Command)
  /\ \A n \in Nat : Len(<<>>) <= n
  OBVIOUS

LEMMA InitTypes == Init => Types
<1> SUFFICES ASSUME Init PROVE Types
  OBVIOUS
<1>1. DaemonTypes
  <2>1. log \in Seq(Packet) /\ Len(log) <= LogCap
    BY Caps, EmptySequences DEF Init
  <2>2. current \in Number /\ done \in Number /\ nextId \in 1..MaxPackets + 1 /\ jobs \in 0..JobCap
    BY Caps DEF Init, Number
  <2> QED BY <2>1, <2>2 DEF Init, DaemonTypes
<1>2. Halfway
  BY DEF Init, Halfway
<1>3. FeedTypes
  <2>1. events \in Seq(Event) /\ Len(events) <= EventCap
    BY Caps, EmptySequences DEF Init
  <2>2. packetFeed \in Seq(Packet) /\ Len(packetFeed) <= EventCap
    BY Caps, EmptySequences DEF Init
  <2> QED BY <2>1, <2>2 DEF Init, FeedTypes
<1>4. SocketTypes
  BY Caps, EmptySequences DEF Init, SocketTypes
<1>5. ChannelTypes
  <2>1. uiQueue \in Seq(UiEvent) /\ Len(uiQueue) <= UiCap
    BY Caps, EmptySequences DEF Init
  <2>2. cmdQueue \in Seq(Command) /\ Len(cmdQueue) <= CmdCap
    BY Caps, EmptySequences DEF Init
  <2> QED BY <2>1, <2>2, Caps DEF Init, ChannelTypes
<1>6. ScreenTypes
  <2>1. packets \in Seq(Packet) /\ Len(packets) <= MaxShown
    BY Caps, EmptySequences DEF Init
  <2>2. 0 \in Number
    BY Caps DEF Number
  <2>3. shown = 0 /\ heard = 0 /\ connected = FALSE
    BY DEF Init
  <2> QED BY <2>1, <2>2, <2>3 DEF ScreenTypes
<1> QED BY <1>1, <1>2, <1>3, <1>4, <1>5, <1>6 DEF Types

\* The steps that leave the daemon's own state alone, and the others.
DaemonStep ==
  \/ \E change \in Change, mine \in BOOLEAN : BeginChange(change, mine)
  \/ EndChange \/ FailCommand \/ BeginPacket \/ EndPacket \/ Stop \/ Start \/ DispatchCommand
  \/ GetSlot \/ NodeLeaves \/ NodeReturns

OtherServerStep == SendSnapshot \/ SendBacklog \/ ForwardEvent \/ ForwardPacket
                   \/ AnswerRefresh \/ GiveUp \/ SendError

UserStep == \E c \in Command : Key(c)

LEMMA StepCases ==
  [Next]_vars => DaemonStep \/ OtherServerStep \/ IpcStep \/ UiStep \/ UserStep \/ UNCHANGED vars
  BY DEF Next, Machinery, Surroundings, ServerStep, DaemonStep, OtherServerStep, UserStep

LEMMA DaemonFrame ==
  OtherServerStep \/ IpcStep \/ UiStep \/ UserStep \/ UNCHANGED vars
    => UNCHANGED <<alive, online, current, mesh, own, jobs, log, nextId, done>>
<1>1. OtherServerStep => UNCHANGED <<alive, online, current, mesh, own, jobs, log, nextId, done>>
  BY DEF OtherServerStep, SendSnapshot, SendBacklog, ForwardEvent, ForwardPacket,
         AnswerRefresh, GiveUp, SendError, daemon
<1>2. IpcStep => UNCHANGED <<alive, online, current, mesh, own, jobs, log, nextId, done>>
  BY DEF IpcStep, Connect, ConnectFails, TellLink, Deliver, DeliverBlocks, SendCommand,
         SeeEnd, daemon
<1>3. UiStep => UNCHANGED <<alive, online, current, mesh, own, jobs, log, nextId, done>>
  BY DEF UiStep, Unblock, ApplyLink, ApplySnapshot, ApplyEvent, ApplyBacklog, ApplyEntry,
         ApplyError, daemon
<1>4. UserStep \/ UNCHANGED vars => UNCHANGED <<alive, online, current, mesh, own, jobs, log, nextId, done>>
  BY DEF UserStep, Key, daemon, vars
<1> QED BY <1>1, <1>2, <1>3, <1>4

\* In particular a step of the daemon leaves the client alone.
LEMMA ClientFrame ==
  DaemonStep \/ OtherServerStep => UNCHANGED client
<1>1. ASSUME DaemonStep PROVE UNCHANGED client
  BY <1>1 DEF DaemonStep, BeginChange, EndChange, FailCommand, BeginPacket, EndPacket, Stop,
         Start, DispatchCommand, GetSlot, NodeLeaves, NodeReturns
<1>2. ASSUME OtherServerStep PROVE UNCHANGED client
  BY <1>2 DEF OtherServerStep, SendSnapshot, SendBacklog, ForwardEvent, ForwardPacket,
         AnswerRefresh, GiveUp, SendError
<1> QED BY <1>1, <1>2

LEMMA DaemonTypesStep == Types /\ [Next]_vars => DaemonTypes' /\ Halfway'
<1> SUFFICES ASSUME Types, [Next]_vars PROVE DaemonTypes' /\ Halfway'
  OBVIOUS
<1> USE Caps DEF Types
<1>f. ASSUME UNCHANGED <<alive, online, current, mesh, own, jobs, log, nextId, done>>
      PROVE  DaemonTypes' /\ Halfway'
  BY <1>f DEF DaemonTypes, Halfway
<1>n. current < MaxNumber => current + 1 \in Number
  BY DEF DaemonTypes, Number
<1>1. ASSUME NEW change \in Change, NEW mine \in BOOLEAN, BeginChange(change, mine)
      PROVE  DaemonTypes' /\ Halfway'
  <2>1. UNCHANGED <<alive, online, log, nextId, done>> /\ mesh' = change /\ own' = mine
    BY <1>1 DEF BeginChange
  <2>2. jobs' \in 0..JobCap
    BY <1>1, Caps DEF BeginChange, DaemonTypes
  <2>3. current' \in Number /\ (change = "status" => current' < MaxNumber)
    BY <1>1, <1>n DEF BeginChange, DaemonTypes
  <2> QED BY <2>1, <2>2, <2>3 DEF DaemonTypes, Halfway, Change
<1>2. CASE EndChange
  <2>1. UNCHANGED <<alive, online, jobs, log, nextId>> /\ mesh' = "idle" /\ own' = FALSE
    BY <1>2 DEF EndChange
  <2>2. current' \in Number
    BY <1>2, <1>n DEF EndChange, DaemonTypes, Halfway
  <2>3. done' \in Number
    BY <1>2, <2>2 DEF EndChange, DaemonTypes
  <2> QED BY <2>1, <2>2, <2>3 DEF DaemonTypes, Halfway
<1>3. CASE FailCommand
  BY <1>3, Caps DEF FailCommand, DaemonTypes, Halfway
<1>4. CASE BeginPacket
  <2>1. nextId \in Packet /\ nextId + 1 \in 1..MaxPackets + 1
    BY <1>4 DEF BeginPacket, DaemonTypes, Packet
  <2>2. <<nextId>> \o log \in Seq(Packet) /\ <<nextId>> \o log # <<>>
    BY <2>1 DEF DaemonTypes
  <2>3. log' \in Seq(Packet) /\ Len(log') <= LogCap /\ log' # <<>>
    BY <1>4, <2>2, FirstFacts DEF BeginPacket
  <2> QED BY <1>4, <2>1, <2>3 DEF BeginPacket, DaemonTypes, Halfway
<1>5. CASE EndPacket
  BY <1>5 DEF EndPacket, DaemonTypes, Halfway
<1>6. CASE Stop
  <2>1. log' \in Seq(Packet) /\ Len(log') <= LogCap
    BY <1>6, EmptySequences DEF Stop
  <2>2. current' \in Number /\ alive' \in BOOLEAN /\ online' \in BOOLEAN
    BY <1>6, <1>n DEF Stop
  <2>3. nextId' \in 1..MaxPackets + 1 /\ jobs' \in 0..JobCap
    BY <1>6 DEF Stop
  <2>4. mesh' = "idle" /\ own' = FALSE /\ done' \in Number
    BY <1>6 DEF Stop, DaemonTypes
  <2> QED BY <2>1, <2>2, <2>3, <2>4 DEF DaemonTypes, Halfway
<1>7. CASE Start
  BY <1>7 DEF Start, DaemonTypes, Halfway
<1>8. CASE DispatchCommand \/ GetSlot
  <2>1. UNCHANGED <<alive, online, current, mesh, own, log, nextId, done>>
    BY <1>8 DEF DispatchCommand, GetSlot, client
  <2>2. jobs' \in 0..JobCap
    BY <1>8, Caps DEF DispatchCommand, GetSlot, DaemonTypes
  <2> QED BY <2>1, <2>2 DEF DaemonTypes, Halfway
<1>10. CASE NodeLeaves \/ NodeReturns
  BY <1>10 DEF NodeLeaves, NodeReturns, DaemonTypes, Halfway
<1>9. CASE ~DaemonStep
  BY <1>9, <1>f, StepCases, DaemonFrame
<1> QED BY <1>1, <1>2, <1>3, <1>4, <1>5, <1>6, <1>7, <1>8, <1>9, <1>10 DEF DaemonStep

\* The half of a change that is announced.
LEMMA AnnouncedFacts ==
  ASSUME DaemonTypes, NEW change \in Change
  PROVE  Note(current, Announces(change)) \in Event
<1>1. Announces(change) \in BOOLEAN
  BY DEF Announces
<1> QED BY <1>1, MessageFacts DEF DaemonTypes

LEMMA FeedTypesStep == Types /\ [Next]_vars => FeedTypes'
<1> SUFFICES ASSUME Types, [Next]_vars PROVE FeedTypes'
  OBVIOUS
<1> USE Caps DEF Types
<1>f. ASSUME UNCHANGED handler PROVE FeedTypes'
  BY <1>f DEF FeedTypes, handler, feeds
\* Only the handler's position changes.
<1>s. ASSUME UNCHANGED feeds,
             srv' \in {"none", "subscribed", "snapped", "serving", "waiting", "busy", "refused"}
      PROVE  FeedTypes'
  BY <1>s DEF FeedTypes, feeds
<1>1. ASSUME NEW change \in Change, NEW mine \in BOOLEAN, BeginChange(change, mine)
      PROVE  FeedTypes'
  <2>1. UNCHANGED <<srv, packetFeed, missedPacket>>
    BY <1>1 DEF BeginChange
  <2>2. CASE change = "status"
    <3>1. BroadcastEvent(Note(current, Announces("status"))) /\ "status" \in Change
      BY <1>1, <2>2 DEF BeginChange
    <3> QED BY <2>1, <3>1, AnnouncedFacts, BroadcastFacts DEF FeedTypes
  <2>3. CASE change # "status"
    <3>1. UNCHANGED <<events, missedEvent>>
      BY <1>1, <2>3 DEF BeginChange
    <3> QED BY <2>1, <3>1 DEF FeedTypes
  <2> QED BY <2>2, <2>3
<1>2. CASE EndChange
  <2>1. UNCHANGED <<packetFeed, missedPacket>> /\ srv' \in {srv, "serving"}
    BY <1>2 DEF EndChange
  <2>2. events' \in Seq(Event) /\ Len(events') <= EventCap /\ missedEvent' \in BOOLEAN
    <3>1. CASE mesh = "status"
      BY <1>2, <3>1 DEF EndChange, FeedTypes
    <3>2. CASE mesh # "status"
      <4>1. BroadcastEvent(Note(current, Announces(mesh))) /\ mesh \in Change
        BY <1>2, <3>2 DEF EndChange
      <4> QED BY <4>1, AnnouncedFacts, BroadcastFacts
    <3> QED BY <3>1, <3>2
  <2> QED BY <2>1, <2>2 DEF FeedTypes
<1>3. CASE FailCommand
  BY <1>3, <1>s DEF FailCommand, FeedTypes
<1>4. CASE EndPacket
  <2>1. UNCHANGED <<srv, events, missedEvent>>
    BY <1>4 DEF EndPacket
  <2>2. CASE srv = "none"
    BY <1>4, <2>1, <2>2 DEF EndPacket, Subscribed, FeedTypes
  <2>3. CASE srv # "none"
    <3>1. Head(log) \in Packet
      BY <1>4, HeadTailProperties DEF EndPacket, Halfway, DaemonTypes
    <3>2. /\ packetFeed' = Newest(Append(packetFeed, Head(log)), EventCap)
          /\ missedPacket' = (missedPacket \/ Len(packetFeed) = EventCap)
      BY <1>4, <2>3 DEF EndPacket, Subscribed
    <3>3. packetFeed' \in Seq(Packet) /\ Len(packetFeed') <= EventCap
      BY <3>1, <3>2, NewestFacts DEF FeedTypes
    <3> QED BY <2>1, <3>2, <3>3 DEF FeedTypes
  <2> QED BY <2>2, <2>3
<1>5. CASE Stop
  BY <1>5, EmptySequences DEF Stop, FeedTypes
<1>6. CASE BeginPacket \/ Start \/ NodeLeaves \/ NodeReturns
  BY <1>6, <1>f DEF BeginPacket, Start, NodeLeaves, NodeReturns
<1>7. CASE SendSnapshot \/ SendBacklog \/ DispatchCommand \/ GetSlot \/ GiveUp \/ SendError
  BY <1>7, <1>s DEF SendSnapshot, SendBacklog, DispatchCommand, GetSlot, GiveUp, SendError
<1>8. CASE AnswerRefresh
  BY <1>8, <1>f DEF AnswerRefresh
<1>9. CASE ForwardEvent
  BY <1>9, TailFacts DEF ForwardEvent, FeedTypes
<1>10. CASE ForwardPacket
  BY <1>10, TailFacts DEF ForwardPacket, FeedTypes
<1>11. CASE Connect
  <2>1. events' = <<>> /\ packetFeed' = <<>> /\ missedEvent' = FALSE /\ missedPacket' = FALSE
        /\ srv' = "subscribed"
    BY <1>11 DEF Connect
  <2> QED BY <2>1, EmptySequences DEF FeedTypes
<1>12. CASE IpcStep /\ ~Connect
  BY <1>12, <1>f DEF IpcStep, ConnectFails, TellLink, Deliver, DeliverBlocks, SendCommand, SeeEnd
<1>13. CASE UiStep \/ UserStep \/ UNCHANGED vars
  <2>1. UNCHANGED handler
    BY <1>13 DEF UiStep, Unblock, ApplyLink, ApplySnapshot, ApplyEvent, ApplyBacklog, ApplyEntry,
       ApplyError, UserStep, Key, vars
  <2> QED BY <2>1, <1>f
<1> QED BY <1>1, <1>2, <1>3, <1>4, <1>5, <1>6, <1>7, <1>8, <1>9, <1>10, <1>11, <1>12, <1>13,
           StepCases DEF DaemonStep, OtherServerStep

LEMMA SocketTypesStep == Types /\ [Next]_vars => SocketTypes'
<1> SUFFICES ASSUME Types, [Next]_vars PROVE SocketTypes'
  OBVIOUS
<1> USE Caps DEF Types
<1>f. ASSUME UNCHANGED socket PROVE SocketTypes'
  BY <1>f DEF SocketTypes, socket
\* A message that fits is sent.
<1>m. ASSUME NEW m \in Message, Send(m)
      PROVE  toClient' \in Seq(Message) /\ Len(toClient') <= SocketCap
  BY <1>m, AppendFacts DEF Send, SocketTypes
<1>t. toServer # <<>> => Tail(toServer) \in Seq(Command)
  BY TailFacts DEF SocketTypes
<1>1. CASE DaemonStep
  <2>1. CASE DispatchCommand
    BY <1>t, <2>1 DEF DispatchCommand, SocketTypes
  <2>2. CASE Stop
    BY <2>2, EmptySequences DEF Stop, SocketTypes
  <2>3. CASE DaemonStep /\ ~DispatchCommand /\ ~Stop
    BY <1>f, <2>3 DEF DaemonStep, BeginChange, EndChange, FailCommand, BeginPacket, EndPacket, Start,
           GetSlot, NodeLeaves, NodeReturns
  <2> QED BY <1>1, <2>1, <2>2, <2>3
<1>2. CASE SendSnapshot \/ AnswerRefresh
  <2>1. Snap(current) \in Message
    BY MessageFacts DEF DaemonTypes
  <2>2. Send(Snap(current))
    BY <1>2 DEF SendSnapshot, AnswerRefresh
  <2>3. toServer' \in Seq(Command)
    BY <1>2, <1>t DEF SendSnapshot, AnswerRefresh, SocketTypes
  <2> QED BY <1>m, <2>1, <2>2, <2>3 DEF SocketTypes
<1>3. CASE SendBacklog
  BY <1>3, <1>m, MessageFacts DEF SendBacklog, DaemonTypes, SocketTypes
<1>4. CASE ForwardEvent
  <2>1. Head(events) \in Message
    BY <1>4, TailFacts, MessageFacts DEF ForwardEvent, FeedTypes
  <2> QED BY <1>4, <1>m, <2>1 DEF ForwardEvent, SocketTypes
<1>5. CASE ForwardPacket
  <2>1. Entry(Head(packetFeed)) \in Message
    BY <1>5, TailFacts, MessageFacts DEF ForwardPacket, FeedTypes
  <2> QED BY <1>5, <1>m, <2>1 DEF ForwardPacket, SocketTypes
<1>6. CASE SendError
  BY <1>6, <1>m, MessageFacts DEF SendError, SocketTypes
<1>7. CASE GiveUp
  BY <1>7, <1>f DEF GiveUp
<1>8. CASE Connect
  BY <1>8, EmptySequences DEF Connect, SocketTypes
<1>9. CASE Deliver
  BY <1>9, TailFacts DEF Deliver, SocketTypes
<1>10. CASE SendCommand
  <2>1. Head(cmdQueue) \in Command
    BY <1>10, TailFacts DEF SendCommand, ChannelTypes
  <2>2. Append(toServer, Head(cmdQueue)) \in Seq(Command)
    BY <2>1, AppendFacts DEF SocketTypes
  <2> QED BY <1>10, <2>2, EmptySequences DEF SendCommand, SocketTypes
<1>11. CASE ConnectFails \/ TellLink \/ DeliverBlocks \/ SeeEnd
  BY <1>11, <1>f DEF ConnectFails, TellLink, DeliverBlocks, SeeEnd, socket
<1>12. CASE UiStep \/ UserStep \/ UNCHANGED vars
  <2>1. UNCHANGED socket
    BY <1>12 DEF UiStep, Unblock, ApplyLink, ApplySnapshot, ApplyEvent, ApplyBacklog, ApplyEntry,
       ApplyError, UserStep, Key, vars
  <2> QED BY <2>1, <1>f
<1> QED BY <1>1, <1>2, <1>3, <1>4, <1>5, <1>6, <1>7, <1>8, <1>9, <1>10, <1>11, <1>12,
           StepCases DEF OtherServerStep, IpcStep

\* What taking a message for the UI, and asking, leave in the channels.
LEMMA ReceiveFacts ==
  ASSUME ChannelTypes, NEW K, Receive(K)
  PROVE  /\ Head(uiQueue) \in UiEvent /\ Head(uiQueue).kind \in K
         /\ uiQueue' \in Seq(UiEvent) /\ Len(uiQueue') <= UiCap
         /\ Range(uiQueue) = {Head(uiQueue)} \cup Range(uiQueue')
         /\ ui = "idle" /\ uiQueue # <<>> /\ uiQueue' = Tail(uiQueue)
<1>1. uiQueue # <<>> /\ uiQueue' = Tail(uiQueue) /\ ui = "idle" /\ Head(uiQueue).kind \in K
  BY DEF Receive
<1> QED BY <1>1, TailFacts, Caps DEF ChannelTypes

LEMMA AskFacts ==
  ASSUME ChannelTypes, NEW c \in Command, Ask(c), ui = "idle"
  PROVE  /\ cmdQueue' \in Seq(Command) /\ Len(cmdQueue') <= CmdCap
         /\ ui' \in Command \cup {"idle"}
         /\ ui' = c \/ c \in Range(cmdQueue')
         /\ Range(cmdQueue) \subseteq Range(cmdQueue')
<1>1. CASE Len(cmdQueue) < CmdCap
  <2>1. cmdQueue' = Append(cmdQueue, c) /\ ui' = ui
    BY <1>1 DEF Ask
  <2> QED BY <1>1, <2>1, AppendFacts, Caps DEF ChannelTypes
<1>2. CASE ~(Len(cmdQueue) < CmdCap)
  BY <1>2 DEF Ask, ChannelTypes
<1> QED BY <1>1, <1>2

LEMMA ChannelTypesStep == Types /\ [Next]_vars => ChannelTypes'
<1> SUFFICES ASSUME Types, [Next]_vars PROVE ChannelTypes'
  OBVIOUS
<1> USE Caps DEF Types
<1>f. ASSUME UNCHANGED <<uiQueue, cmdQueue, ui, keys>>,
             ipc' \in {"away", "up", "down", "select", "deliver"}
      PROVE  ChannelTypes'
  BY <1>f DEF ChannelTypes
<1>1. CASE DaemonStep \/ OtherServerStep
  BY <1>1, <1>f, ClientFrame DEF client, ChannelTypes
<1>2. CASE Connect \/ ConnectFails \/ DeliverBlocks \/ SeeEnd
  BY <1>2, <1>f DEF Connect, ConnectFails, DeliverBlocks, SeeEnd
\* A message for the UI that fits.
<1>m. ASSUME NEW m \in UiEvent, Tell(m)
      PROVE  uiQueue' \in Seq(UiEvent) /\ Len(uiQueue') <= UiCap
  BY <1>m, AppendFacts DEF Tell, ChannelTypes
<1>3. CASE TellLink
  BY <1>3, <1>m, MessageFacts DEF TellLink, ChannelTypes
<1>4. CASE Deliver
  <2>1. Head(toClient) \in UiEvent
    BY <1>4, TailFacts, MessageFacts DEF Deliver, SocketTypes
  <2> QED BY <1>4, <1>m, <2>1 DEF Deliver, ChannelTypes
<1>5. CASE SendCommand
  <2>1. cmdQueue' \in Seq(Command) /\ Len(cmdQueue') <= CmdCap
    BY <1>5, TailFacts DEF SendCommand, ChannelTypes
  <2> QED BY <1>5, <2>1 DEF SendCommand, ChannelTypes
<1>6. CASE Unblock
  <2>1. ui \in Command /\ cmdQueue' = Append(cmdQueue, ui)
    BY <1>6 DEF Unblock, ChannelTypes
  <2>2. cmdQueue' \in Seq(Command) /\ Len(cmdQueue') <= CmdCap
    BY <1>6, <2>1, AppendFacts DEF Unblock, ChannelTypes
  <2> QED BY <1>6, <2>2 DEF Unblock, ChannelTypes
<1>7. CASE ApplyEvent
  <2>1. Receive({"event"}) /\ UNCHANGED <<ipc, keys>>
    BY <1>7 DEF ApplyEvent
  <2>2. cmdQueue' \in Seq(Command) /\ Len(cmdQueue') <= CmdCap /\ ui' \in Command \cup {"idle"}
    <3>1. CASE Head(uiQueue).refresh
      <4>1. Ask("refresh") /\ "refresh" \in Command
        BY <1>7, <3>1 DEF ApplyEvent, Command
      <4> QED BY <2>1, <4>1, AskFacts, ReceiveFacts
    <3>2. CASE ~Head(uiQueue).refresh
      BY <1>7, <3>2 DEF ApplyEvent, ChannelTypes
    <3> QED BY <3>1, <3>2
  <2> QED BY <2>1, <2>2, ReceiveFacts DEF ChannelTypes
<1>8. ASSUME NEW K, Receive(K), UNCHANGED <<ipc, cmdQueue, ui, keys>> PROVE ChannelTypes'
  BY <1>8, ReceiveFacts DEF ChannelTypes
<1>9. CASE ApplyLink \/ ApplySnapshot \/ ApplyBacklog \/ ApplyEntry \/ ApplyError
  BY <1>8, <1>9 DEF ApplyLink, ApplySnapshot, ApplyBacklog, ApplyEntry, ApplyError
<1>10. ASSUME NEW c \in Command, Key(c) PROVE ChannelTypes'
  <2>1. keys' \in 0..MaxKeys /\ UNCHANGED <<ipc, uiQueue>> /\ Ask(c) /\ ui = "idle"
    BY <1>10 DEF Key, ChannelTypes
  <2> QED BY <2>1, AskFacts DEF ChannelTypes
<1>11. CASE UNCHANGED vars
  BY <1>11 DEF vars, client, ChannelTypes
<1> QED BY <1>1, <1>2, <1>3, <1>4, <1>5, <1>6, <1>7, <1>9, <1>10, <1>11, StepCases
        DEF IpcStep, UiStep, UserStep

LEMMA ScreenTypesStep == Types /\ [Next]_vars => ScreenTypes'
<1> SUFFICES ASSUME Types, [Next]_vars PROVE ScreenTypes'
  OBVIOUS
<1> USE Caps DEF Types
<1>f. ASSUME UNCHANGED <<connected, shown, packets, heard>> PROVE ScreenTypes'
  BY <1>f DEF ScreenTypes
<1>1. CASE DaemonStep \/ OtherServerStep \/ UNCHANGED vars
  BY <1>1, <1>f, ClientFrame DEF client, vars
<1>2. CASE IpcStep
  BY <1>2, <1>f DEF IpcStep, Connect, ConnectFails, TellLink, Deliver, DeliverBlocks, SendCommand, SeeEnd
<1>3. CASE Unblock \/ ApplyError \/ UserStep
  BY <1>3, <1>f DEF Unblock, ApplyError, UserStep, Key
<1>4. CASE ApplyLink
  BY <1>4 DEF ApplyLink, ScreenTypes
<1>5. CASE ApplySnapshot
  <2>1. Head(uiQueue).number \in Number
    BY <1>5, ReceiveFacts, MessageFacts DEF ApplySnapshot
  <2> QED BY <1>5, <2>1 DEF ApplySnapshot, ScreenTypes
<1>6. CASE ApplyEvent
  <2>1. Head(uiQueue).number \in Number
    BY <1>6, ReceiveFacts, MessageFacts DEF ApplyEvent
  <2> QED BY <1>6, <2>1 DEF ApplyEvent, ScreenTypes
<1>7. CASE ApplyBacklog
  <2>1. Head(uiQueue).entries \in Seq(Packet)
    BY <1>7, ReceiveFacts, MessageFacts DEF ApplyBacklog
  <2>2. packets' \in Seq(Packet) /\ Len(packets') <= MaxShown
    BY <1>7, <2>1, FirstFacts DEF ApplyBacklog, SetPacketLog
  <2> QED BY <1>7, <2>2 DEF ApplyBacklog, ScreenTypes
<1>8. CASE ApplyEntry
  <2>1. Head(uiQueue).id \in Packet
    BY <1>8, ReceiveFacts, MessageFacts DEF ApplyEntry
  <2>2. <<Head(uiQueue).id>> \o packets \in Seq(Packet)
    BY <2>1 DEF ScreenTypes
  <2>3. packets' \in Seq(Packet) /\ Len(packets') <= MaxShown
    BY <1>8, <2>2, FirstFacts DEF ApplyEntry, PushPacket
  <2> QED BY <1>8, <2>3 DEF ApplyEntry, ScreenTypes
<1> QED BY <1>1, <1>2, <1>3, <1>4, <1>5, <1>6, <1>7, <1>8, StepCases DEF UiStep

LEMMA TypesStep == Types /\ [Next]_vars => Types'
  BY DaemonTypesStep, FeedTypesStep, SocketTypesStep, ChannelTypesStep, ScreenTypesStep DEF Types

-----------------------------------------------------------------------------
(* The invariant.                                                          *)

InFlight == Range(events) \cup Range(toClient) \cup Range(uiQueue)

\* No number is ahead of the daemon's.
Numbered ==
  /\ \A m \in InFlight : m.kind \in {"snapshot", "event"} => m.number <= current
  /\ shown <= current /\ heard <= current /\ done <= current

\* Snapshots reach the screen in the order they were taken.
Sorted ==
  /\ Ordered(uiQueue) /\ Ordered(toClient)
  /\ \A m \in Range(uiQueue), k \in Range(toClient) :
       IsSnapshot(m) /\ IsSnapshot(k) => m.number <= k.number
  /\ \A m \in Range(uiQueue) \cup Range(toClient) : IsSnapshot(m) => shown <= m.number

\* With a connection the last word on the link is that it is up.
Linked ==
  ipc \in {"select", "deliver"} =>
    Recovers(uiQueue) /\ (connected \/ \E m \in Range(uiQueue) : m.kind = "up")

\* A snapshot at least as recent as n is on its way: there, asked for, or to be
\* sent on a connection that starts.
Asked == srv \in {"none", "subscribed"} \/ ui = "refresh"
         \/ "refresh" \in Range(cmdQueue) \cup Range(toServer)
Coming(n) == Asked \/ \E m \in Range(uiQueue) \cup Range(toClient) : IsSnapshot(m) /\ n <= m.number

HeardComing == heard <= shown \/ Coming(heard)

\* An event that will make the UI ask.
Telling(S) == \E m \in S : m.kind = "event" /\ m.refresh

\* The event of the change a handler waits for is still in its receiver.
Announced ==
  /\ own => mesh \in {"removal", "status"}
  /\ mesh = "status" /\ own /\ srv = "busy" /\ jobs = 0 => Telling(Range(events))

DoneComing == done <= shown \/ missedEvent \/ Coming(done) \/ Telling(InFlight)

IInv == Types /\ Numbered /\ Sorted /\ Linked /\ HeardComing /\ Announced /\ DoneComing

-----------------------------------------------------------------------------
(* Steps on the way of a message.                                          *)

LEMMA SendFacts ==
  ASSUME SocketTypes, NEW m \in Message, Send(m)
  PROVE  /\ Range(toClient') = Range(toClient) \cup {m}
         /\ Ordered(toClient) /\ (\A k \in Range(toClient) : IsSnapshot(k) /\ IsSnapshot(m) => k.number <= m.number)
            => Ordered(toClient')
  BY AppendFacts DEF Send, SocketTypes

LEMMA TellFacts ==
  ASSUME ChannelTypes, NEW m \in UiEvent, Tell(m)
  PROVE  /\ Range(uiQueue') = Range(uiQueue) \cup {m}
         /\ Ordered(uiQueue) /\ (\A k \in Range(uiQueue) : IsSnapshot(k) /\ IsSnapshot(m) => k.number <= m.number)
            => Ordered(uiQueue')
         /\ Recovers(uiQueue) /\ m.kind # "down" => Recovers(uiQueue')
         /\ m.kind = "up" => Recovers(uiQueue')
  BY AppendFacts DEF Tell, ChannelTypes

LEMMA TakeFacts ==
  ASSUME ChannelTypes, NEW K, Receive(K)
  PROVE  /\ Ordered(uiQueue) => /\ Ordered(uiQueue')
                                /\ \A m \in Range(uiQueue') :
                                     IsSnapshot(m) /\ IsSnapshot(Head(uiQueue)) => Head(uiQueue).number <= m.number
         /\ Recovers(uiQueue) => /\ Recovers(uiQueue')
                                 /\ Head(uiQueue).kind = "down" => \E m \in Range(uiQueue') : m.kind = "up"
<1>1. uiQueue # <<>> /\ uiQueue' = Tail(uiQueue)
  BY DEF Receive
<1> QED BY <1>1, TailFacts DEF ChannelTypes

LEMMA DeliverFacts ==
  ASSUME SocketTypes, ChannelTypes, Deliver
  PROVE  /\ Head(toClient) \in Message /\ Head(toClient) \in UiEvent /\ Tell(Head(toClient))
         /\ Range(toClient) = {Head(toClient)} \cup Range(toClient')
         /\ Range(uiQueue') = Range(uiQueue) \cup {Head(toClient)}
         /\ Ordered(toClient) => /\ Ordered(toClient')
                                 /\ \A m \in Range(toClient') :
                                      IsSnapshot(m) /\ IsSnapshot(Head(toClient)) => Head(toClient).number <= m.number
<1>1. toClient # <<>> /\ toClient' = Tail(toClient) /\ Tell(Head(toClient))
  BY DEF Deliver
<1>2. Head(toClient) \in Message /\ Head(toClient) \in UiEvent
  BY <1>1, TailFacts, MessageFacts DEF SocketTypes
<1> QED BY <1>1, <1>2, TailFacts, TellFacts DEF SocketTypes

\* What the daemon and the handler do to the two feeds, in sets.
LEMMA HandlerSends ==
  ASSUME Types, OtherServerStep
  PROVE  \/ UNCHANGED toClient
         \/ \E m \in Message : /\ Send(m) /\ Range(toClient') = Range(toClient) \cup {m}
                               /\ m = Snap(current) \/ m \in Range(events) \/ ~(m.kind \in {"snapshot", "event"})
<1> USE DEF Types
<1>1. CASE SendSnapshot \/ AnswerRefresh
  <2>1. Send(Snap(current)) /\ Snap(current) \in Message
    BY <1>1, MessageFacts DEF SendSnapshot, AnswerRefresh, DaemonTypes
  <2> QED BY <2>1, SendFacts
<1>2. CASE SendBacklog
  <2>1. Send(Backlog(log)) /\ Backlog(log) \in Message /\ Backlog(log).kind = "log"
    BY <1>2, MessageFacts DEF SendBacklog, DaemonTypes
  <2> QED BY <2>1, SendFacts
<1>3. CASE ForwardEvent
  <2>1. Send(Head(events)) /\ Head(events) \in Message /\ Head(events) \in Range(events)
    BY <1>3, TailFacts, MessageFacts DEF ForwardEvent, FeedTypes
  <2> QED BY <2>1, SendFacts
<1>4. CASE ForwardPacket
  <2>1. Head(packetFeed) \in Packet /\ Send(Entry(Head(packetFeed)))
    BY <1>4, TailFacts DEF ForwardPacket, FeedTypes
  <2>2. Entry(Head(packetFeed)) \in Message /\ Entry(Head(packetFeed)).kind = "entry"
    BY <2>1, MessageFacts
  <2> QED BY <2>1, <2>2, SendFacts
<1>5. CASE SendError
  <2>1. Send(Plain("error")) /\ Plain("error") \in Message /\ Plain("error").kind = "error"
    BY <1>5, MessageFacts DEF SendError
  <2> QED BY <2>1, SendFacts
<1>6. CASE GiveUp
  BY <1>6 DEF GiveUp, socket
<1> QED BY <1>1, <1>2, <1>3, <1>4, <1>5, <1>6 DEF OtherServerStep

\* The daemon's own steps leave the socket to the client alone.
LEMMA DaemonSocket ==
  DaemonStep => UNCHANGED <<toClient, client>>
  BY DEF DaemonStep, BeginChange, EndChange, FailCommand, BeginPacket, EndPacket, Stop, Start, DispatchCommand,
         GetSlot, NodeLeaves, NodeReturns, socket

LEMMA CurrentGrows == Types /\ [Next]_vars => current <= current' /\ current \in Nat /\ current' \in Nat
<1> SUFFICES ASSUME Types, [Next]_vars
             PROVE  current <= current' /\ current \in Nat /\ current' \in Nat
  OBVIOUS
<1>0. current \in Nat
  BY Caps DEF Types, DaemonTypes, Number
<1>1. current' \in {current, current + 1}
  <2>1. CASE DaemonStep
    BY <2>1 DEF DaemonStep, BeginChange, EndChange, FailCommand, BeginPacket, EndPacket, Stop,
       Start, DispatchCommand, GetSlot, NodeLeaves, NodeReturns
  <2>2. CASE ~DaemonStep
    BY <2>2, StepCases, DaemonFrame
  <2> QED BY <2>1, <2>2
<1> QED BY <1>0, <1>1

\* A receiver gains an event only by a broadcast, which carries the number.
LEMMA EventsStep ==
  ASSUME Types, [Next]_vars
  PROVE  \A m \in Range(events') : m \in Range(events) \/ m.number = current
<1> USE DEF Types
<1>f. ASSUME UNCHANGED events
      PROVE  \A m \in Range(events') : m \in Range(events) \/ m.number = current
  BY <1>f
<1>1. ASSUME NEW change \in Change, BroadcastEvent(Note(current, Announces(change)))
      PROVE  \A m \in Range(events') : m \in Range(events) \/ m.number = current
  <2>1. Range(events') \subseteq Range(events) \cup {Note(current, Announces(change))}
    BY <1>1, AnnouncedFacts, BroadcastFacts
  <2>2. Note(current, Announces(change)).number = current
    BY DEF Note
  <2> QED BY <2>1, <2>2
<1>2. CASE \E change \in Change, mine \in BOOLEAN : BeginChange(change, mine)
  <2>1. UNCHANGED events \/ (BroadcastEvent(Note(current, Announces("status"))) /\ "status" \in Change)
    BY <1>2 DEF BeginChange
  <2> QED BY <1>1, <1>f, <2>1
<1>3. CASE EndChange
  <2>1. UNCHANGED events \/ (BroadcastEvent(Note(current, Announces(mesh))) /\ mesh \in Change)
    BY <1>3 DEF EndChange
  <2> QED BY <1>1, <1>f, <2>1
<1>4. CASE Stop \/ Connect
  BY <1>4, EmptyFacts DEF Stop, Connect
<1>5. CASE ForwardEvent
  BY <1>5, TailFacts DEF ForwardEvent, FeedTypes
<1>6. CASE FailCommand \/ BeginPacket \/ EndPacket \/ Start \/ DispatchCommand
          \/ GetSlot \/ NodeLeaves \/ NodeReturns
  BY <1>6, <1>f DEF FailCommand, BeginPacket, EndPacket, Start, DispatchCommand, GetSlot, NodeLeaves, NodeReturns, handler, feeds
<1>7. CASE OtherServerStep /\ ~ForwardEvent
  BY <1>7, <1>f DEF OtherServerStep, SendSnapshot, SendBacklog, ForwardPacket, AnswerRefresh,
     GiveUp, SendError, handler, feeds
<1>8. CASE IpcStep /\ ~Connect
  BY <1>8, <1>f DEF IpcStep, ConnectFails, TellLink, Deliver, DeliverBlocks, SendCommand, SeeEnd,
     handler, feeds
<1>9. CASE UiStep \/ UserStep \/ UNCHANGED vars
  <2>1. UNCHANGED events
    BY <1>9 DEF UiStep, Unblock, ApplyLink, ApplySnapshot, ApplyEvent, ApplyBacklog, ApplyEntry,
       ApplyError, UserStep, Key, vars, handler, feeds
  <2> QED BY <1>f, <2>1
<1> QED BY <1>2, <1>3, <1>4, <1>5, <1>6, <1>7, <1>8, <1>9, StepCases DEF DaemonStep

\* The client only moves messages, or drops them, but for its own two.
LEMMA ClientMoves ==
  ASSUME Types, IpcStep \/ UiStep \/ UserStep \/ UNCHANGED vars
  PROVE  \A m \in Range(uiQueue') \cup Range(toClient') :
           m \in Range(uiQueue) \cup Range(toClient) \/ m.kind \in {"up", "down"}
<1> USE DEF Types
<1>f. ASSUME UNCHANGED uiQueue, toClient' \in {toClient, <<>>}
      PROVE  Range(uiQueue') \subseteq Range(uiQueue) /\ Range(toClient') \subseteq Range(toClient)
  BY <1>f, EmptyFacts
<1>1. CASE Connect \/ ConnectFails \/ DeliverBlocks \/ SendCommand \/ SeeEnd
  BY <1>1, <1>f DEF Connect, ConnectFails, DeliverBlocks, SendCommand, SeeEnd, socket
<1>2. CASE TellLink
  <2>1. ipc \in {"up", "down"} /\ Tell(Plain(ipc)) /\ UNCHANGED toClient
    BY <1>2 DEF TellLink, socket
  <2>2. Plain(ipc) \in UiEvent /\ Plain(ipc).kind = ipc
    BY <2>1, MessageFacts
  <2> QED BY <2>1, <2>2, TellFacts
<1>3. CASE Deliver
  BY <1>3, DeliverFacts
<1>4. ASSUME NEW K, Receive(K), UNCHANGED toClient
      PROVE  Range(uiQueue') \subseteq Range(uiQueue) /\ UNCHANGED toClient
  BY <1>4, ReceiveFacts
<1>5. CASE UiStep /\ ~Unblock
  BY <1>4, <1>5 DEF UiStep, ApplyLink, ApplySnapshot, ApplyEvent, ApplyBacklog, ApplyEntry,
     ApplyError, socket
<1>6. CASE Unblock \/ UserStep \/ UNCHANGED vars
  BY <1>6, <1>f DEF Unblock, UserStep, Key, vars, socket, client
<1> QED BY <1>1, <1>2, <1>3, <1>5, <1>6 DEF IpcStep, UiStep

LEMMA NumberedStep == Types /\ Numbered /\ [Next]_vars => Numbered'
<1> SUFFICES ASSUME Types, Numbered, [Next]_vars PROVE Numbered'
  OBVIOUS
<1> USE DEF Types
<1>c. current <= current' /\ current \in Nat /\ current' \in Nat
  BY CurrentGrows
\* Numbers are numbers.
<1>n. \A m \in InFlight : m.kind \in {"snapshot", "event"} => m.number \in Nat
  <2>1. InFlight \subseteq UiEvent
    BY MessageFacts DEF InFlight, FeedTypes, SocketTypes, ChannelTypes, Range
  <2> QED BY <2>1, MessageFacts, Caps DEF Number
<1>1. ASSUME NEW m \in Range(uiQueue') \cup Range(toClient'), m.kind \in {"snapshot", "event"}
      PROVE  m \in InFlight \/ m.number = current
  <2>1. CASE DaemonStep
    BY <1>1, <2>1, DaemonSocket DEF InFlight, client
  <2>2. CASE OtherServerStep
    <3>1. UNCHANGED uiQueue
      BY <2>2, ClientFrame DEF client
    <3>2. CASE UNCHANGED toClient
      BY <1>1, <3>1, <3>2 DEF InFlight
    <3>3. CASE \E k \in Message : /\ Range(toClient') = Range(toClient) \cup {k}
                                  /\ k = Snap(current) \/ k \in Range(events) \/ ~(k.kind \in {"snapshot", "event"})
      BY <1>1, <3>1, <3>3 DEF InFlight, Snap
    <3> QED BY <2>2, <3>2, <3>3, HandlerSends
  <2>3. CASE IpcStep \/ UiStep \/ UserStep \/ UNCHANGED vars
    BY <1>1, <2>3, ClientMoves DEF InFlight
  <2> QED BY <2>1, <2>2, <2>3, StepCases
<1>2. ASSUME NEW m \in InFlight', m.kind \in {"snapshot", "event"}
      PROVE  m.number <= current'
  <2>1. m \in InFlight \/ m.number = current
    BY <1>1, <1>2, EventsStep DEF InFlight
  <2> QED BY <1>c, <1>n, <1>2, <2>1 DEF Numbered
<1>s. shown \in Nat /\ heard \in Nat /\ done \in Nat
  BY Caps DEF ScreenTypes, DaemonTypes, Number
<1>3. shown' <= current'
  <2>1. CASE ApplySnapshot
    <3>1. Head(uiQueue) \in InFlight /\ Head(uiQueue).kind = "snapshot" /\ shown' = Head(uiQueue).number
      BY <2>1, ReceiveFacts DEF ApplySnapshot, InFlight
    <3> QED BY <1>c, <1>n, <3>1 DEF Numbered
  <2>2. CASE UNCHANGED shown
    BY <1>c, <1>s, <2>2 DEF Numbered
  <2>3. ApplySnapshot \/ UNCHANGED shown
    BY StepCases, ClientFrame DEF IpcStep, Connect, ConnectFails, TellLink, Deliver, DeliverBlocks,
       SendCommand, SeeEnd, UiStep, Unblock, ApplyLink, ApplyEvent, ApplyBacklog, ApplyEntry,
       ApplyError, UserStep, Key, vars, client
  <2> QED BY <2>1, <2>2, <2>3
<1>4. heard' <= current'
  <2>1. CASE ApplyEvent
    <3>1. Head(uiQueue) \in InFlight /\ Head(uiQueue).kind = "event"
      BY <2>1, ReceiveFacts DEF ApplyEvent, InFlight
    <3>2. heard' = heard \/ heard' = Head(uiQueue).number
      BY <2>1 DEF ApplyEvent
    <3> QED BY <1>c, <1>n, <1>s, <3>1, <3>2 DEF Numbered
  <2>2. CASE UNCHANGED heard
    BY <1>c, <1>s, <2>2 DEF Numbered
  <2>3. ApplyEvent \/ UNCHANGED heard
    BY StepCases, ClientFrame DEF IpcStep, Connect, ConnectFails, TellLink, Deliver, DeliverBlocks,
       SendCommand, SeeEnd, UiStep, Unblock, ApplyLink, ApplySnapshot, ApplyBacklog, ApplyEntry,
       ApplyError, UserStep, Key, vars, client
  <2> QED BY <2>1, <2>2, <2>3
<1>5. done' <= current'
  <2>1. CASE EndChange
    <3>1. done' = done \/ done' = current'
      BY <2>1 DEF EndChange
    <3> QED BY <1>c, <1>s, <3>1 DEF Numbered
  <2>2. CASE UNCHANGED done
    BY <1>c, <1>s, <2>2 DEF Numbered
  <2>3. EndChange \/ UNCHANGED done
    BY StepCases, DaemonFrame DEF DaemonStep, BeginChange, FailCommand, BeginPacket, EndPacket,
       Stop, Start, DispatchCommand, GetSlot, NodeLeaves, NodeReturns
  <2> QED BY <2>1, <2>2, <2>3
<1> QED BY <1>2, <1>3, <1>4, <1>5 DEF Numbered

LEMMA SortedStep == Types /\ Numbered /\ Sorted /\ [Next]_vars => Sorted'
<1> SUFFICES ASSUME Types, Numbered, Sorted, [Next]_vars PROVE Sorted'
  OBVIOUS
<1> USE DEF Types
<1>f. ASSUME UNCHANGED <<uiQueue, shown>>, toClient' \in {toClient, <<>>} PROVE Sorted'
  BY <1>f, EmptyFacts DEF Sorted
\* The numbers of snapshots compare.
<1>n. /\ shown \in Nat
      /\ \A m \in Range(uiQueue) \cup Range(toClient) : IsSnapshot(m) => m.number \in Nat
  <2>1. Range(uiQueue) \cup Range(toClient) \subseteq UiEvent
    BY MessageFacts DEF SocketTypes, ChannelTypes, Range
  <2> QED BY <2>1, MessageFacts, Caps DEF Number, IsSnapshot, ScreenTypes
\* What is sent is no snapshot, or the newest.
<1>m. ASSUME NEW m \in Message, Send(m), UNCHANGED <<uiQueue, shown>>,
             m = Snap(current) \/ ~IsSnapshot(m)
      PROVE  Sorted'
  <2>1. /\ Range(toClient') = Range(toClient) \cup {m}
        /\ Ordered(toClient) /\ (\A k \in Range(toClient) : IsSnapshot(k) /\ IsSnapshot(m) => k.number <= m.number)
           => Ordered(toClient')
    BY <1>m, SendFacts
  <2>2. IsSnapshot(m) => m.number = current
    BY <1>m DEF Snap
  <2>3. \A k \in Range(toClient) \cup Range(uiQueue) :
          IsSnapshot(k) /\ IsSnapshot(m) => k.number <= m.number
    BY <2>2 DEF Numbered, InFlight, IsSnapshot
  <2>4. IsSnapshot(m) => shown <= m.number
    BY <2>2 DEF Numbered
  <2> QED BY <1>m, <2>1, <2>3, <2>4 DEF Sorted
\* What the UI takes is not a snapshot.
<1>k. ASSUME NEW K, Receive(K), "snapshot" \notin K, UNCHANGED <<toClient, shown>>
      PROVE  Sorted'
  BY <1>k, ReceiveFacts, TakeFacts DEF Sorted
<1>1. CASE DaemonStep
  BY <1>1, <1>f, DaemonSocket DEF client
<1>2. CASE OtherServerStep
  <2>1. UNCHANGED <<uiQueue, shown>>
    BY <1>2, ClientFrame DEF client
  <2>2. CASE UNCHANGED toClient
    BY <1>f, <2>1, <2>2
  <2>3. CASE \E m \in Message : Send(m) /\ (m = Snap(current) \/ m \in Range(events)
                                            \/ ~(m.kind \in {"snapshot", "event"}))
    <3>1. \A m \in Range(events) : m.kind = "event"
      BY MessageFacts DEF FeedTypes, Range
    <3> QED BY <1>m, <2>1, <2>3, <3>1 DEF IsSnapshot
  <2> QED BY <1>2, <2>2, <2>3, HandlerSends
<1>3. CASE Connect \/ ConnectFails \/ DeliverBlocks \/ SendCommand \/ SeeEnd
  BY <1>3, <1>f DEF Connect, ConnectFails, DeliverBlocks, SendCommand, SeeEnd, socket
<1>4. CASE TellLink
  <2>1. ipc \in {"up", "down"} /\ Tell(Plain(ipc)) /\ UNCHANGED <<toClient, shown>>
    BY <1>4 DEF TellLink, socket
  <2>2. Plain(ipc) \in UiEvent /\ ~IsSnapshot(Plain(ipc))
    BY <2>1, MessageFacts DEF IsSnapshot
  <2> QED BY <2>1, <2>2, TellFacts DEF Sorted
<1>5. CASE Deliver
  <2>1. UNCHANGED shown
    BY <1>5 DEF Deliver
  <2> DEFINE m == Head(toClient)
  <2>2. /\ Range(toClient) = {m} \cup Range(toClient')
        /\ Range(uiQueue') = Range(uiQueue) \cup {m}
        /\ Ordered(toClient')
        /\ \A k \in Range(toClient') : IsSnapshot(k) /\ IsSnapshot(m) => m.number <= k.number
    BY <1>5, DeliverFacts DEF Sorted
  <2>3. Ordered(uiQueue')
    BY <1>5, <2>2, DeliverFacts, TellFacts DEF Sorted
  <2> HIDE DEF m
  <2> QED BY <2>1, <2>2, <2>3 DEF Sorted
<1>6. CASE ApplySnapshot
  <2>1. Receive({"snapshot"}) /\ shown' = Head(uiQueue).number /\ UNCHANGED toClient
    BY <1>6 DEF ApplySnapshot, socket
  <2>2. IsSnapshot(Head(uiQueue)) /\ Range(uiQueue) = {Head(uiQueue)} \cup Range(uiQueue')
    BY <2>1, ReceiveFacts DEF IsSnapshot
  <2>3. Ordered(uiQueue') /\ \A k \in Range(uiQueue') : IsSnapshot(k) => Head(uiQueue).number <= k.number
    BY <2>1, <2>2, TakeFacts DEF Sorted
  <2> QED BY <2>1, <2>2, <2>3 DEF Sorted
<1>7. CASE ApplyLink \/ ApplyEvent \/ ApplyBacklog \/ ApplyEntry \/ ApplyError
  BY <1>7, <1>k DEF ApplyLink, ApplyEvent, ApplyBacklog, ApplyEntry, ApplyError, socket
<1>8. CASE Unblock \/ UserStep \/ UNCHANGED vars
  BY <1>8, <1>f DEF Unblock, UserStep, Key, vars, socket, client
<1> QED BY <1>1, <1>2, <1>3, <1>4, <1>5, <1>6, <1>7, <1>8, StepCases DEF IpcStep, UiStep

LEMMA LinkedStep == Types /\ Linked /\ [Next]_vars => Linked'
<1> SUFFICES ASSUME Types, Linked, [Next]_vars PROVE Linked'
  OBVIOUS
<1> USE DEF Types
<1>f. ASSUME UNCHANGED <<uiQueue, connected>>,
             ipc' \in {"select", "deliver"} => ipc \in {"select", "deliver"}
      PROVE  Linked'
  BY <1>f DEF Linked
<1>k. ASSUME NEW K, Receive(K), K \cap {"up", "down"} = {}, UNCHANGED <<ipc, connected>>
      PROVE  Linked'
  BY <1>k, ReceiveFacts, TakeFacts DEF Linked
<1>1. CASE DaemonStep \/ OtherServerStep \/ UNCHANGED vars
  BY <1>1, <1>f, ClientFrame DEF client, vars
<1>2. CASE Connect \/ ConnectFails \/ DeliverBlocks \/ SendCommand \/ SeeEnd
  BY <1>2, <1>f DEF Connect, ConnectFails, DeliverBlocks, SendCommand, SeeEnd
<1>3. CASE TellLink
  <2>1. CASE ipc = "up"
    <3>1. Plain("up") \in UiEvent /\ Plain("up").kind = "up" /\ Tell(Plain("up"))
      BY <1>3, <2>1, MessageFacts DEF TellLink
    <3> QED BY <3>1, TellFacts DEF Linked
  <2>2. CASE ipc # "up"
    BY <1>3, <2>2 DEF TellLink, Linked
  <2> QED BY <2>1, <2>2
<1>4. CASE Deliver
  <2>1. ipc \in {"select", "deliver"} /\ UNCHANGED connected
    BY <1>4 DEF Deliver
  <2>2. Head(toClient).kind # "down"
    BY <1>4, DeliverFacts, MessageFacts
  <2>3. Recovers(uiQueue') /\ Range(uiQueue) \subseteq Range(uiQueue')
    BY <1>4, <2>1, <2>2, DeliverFacts, TellFacts DEF Linked
  <2> QED BY <2>1, <2>3 DEF Linked
<1>5. CASE ApplyLink
  <2>1. Receive({"up", "down"}) /\ connected' = (Head(uiQueue).kind = "up") /\ UNCHANGED ipc
    BY <1>5 DEF ApplyLink
  <2>2. Head(uiQueue).kind \in {"up", "down"}
    BY <2>1, ReceiveFacts
  <2>3. ASSUME Recovers(uiQueue)
        PROVE  Recovers(uiQueue') /\ (connected' \/ \E m \in Range(uiQueue') : m.kind = "up")
    <3>1. /\ Recovers(uiQueue')
          /\ Head(uiQueue).kind = "down" => \E m \in Range(uiQueue') : m.kind = "up"
      BY <2>1, <2>3, TakeFacts
    <3>2. Head(uiQueue).kind = "up" => connected'
      BY <2>1
    <3> QED BY <2>2, <3>1, <3>2
  <2> QED BY <2>1, <2>3 DEF Linked
<1>6. CASE ApplySnapshot \/ ApplyEvent \/ ApplyBacklog \/ ApplyEntry \/ ApplyError
  BY <1>6, <1>k DEF ApplySnapshot, ApplyEvent, ApplyBacklog, ApplyEntry, ApplyError
<1>7. CASE Unblock \/ UserStep
  BY <1>7, <1>f DEF Unblock, UserStep, Key
<1> QED BY <1>1, <1>2, <1>3, <1>4, <1>5, <1>6, <1>7, StepCases DEF IpcStep, UiStep

\* The screen never goes back.
LEMMA ShownGrows == Types /\ Sorted /\ [Next]_vars => shown <= shown' /\ shown \in Nat /\ shown' \in Nat
<1> SUFFICES ASSUME Types, Sorted, [Next]_vars
             PROVE  shown <= shown' /\ shown \in Nat /\ shown' \in Nat
  OBVIOUS
<1> USE DEF Types
<1>0. shown \in Nat
  BY Caps DEF ScreenTypes, Number
<1>1. CASE ApplySnapshot
  <2>1. Head(uiQueue) \in UiEvent /\ Head(uiQueue).kind = "snapshot"
        /\ Head(uiQueue) \in Range(uiQueue) /\ shown' = Head(uiQueue).number
    BY <1>1, ReceiveFacts DEF ApplySnapshot
  <2>2. Head(uiQueue).number \in Nat
    BY <2>1, MessageFacts, Caps DEF Number
  <2> QED BY <1>0, <2>1, <2>2 DEF Sorted, IsSnapshot
<1>2. ApplySnapshot \/ UNCHANGED shown
  BY StepCases, ClientFrame DEF IpcStep, Connect, ConnectFails, TellLink, Deliver, DeliverBlocks,
     SendCommand, SeeEnd, UiStep, Unblock, ApplyLink, ApplyEvent, ApplyBacklog, ApplyEntry,
     ApplyError, UserStep, Key, vars, client
<1> QED BY <1>0, <1>1, <1>2

\* What is on its way stays on its way until it is shown.
LEMMA ComingStep ==
  ASSUME Types, Numbered, NEW n \in Nat, n <= current, Coming(n), [Next]_vars
  PROVE  n <= shown' \/ Coming(n)'
<1> USE DEF Types
<1> DEFINE Brings(S) == \E m \in S : IsSnapshot(m) /\ n <= m.number
           Flight == Range(uiQueue) \cup Range(toClient)
           Requests == Range(cmdQueue) \cup Range(toServer)
           C == \/ srv \in {"none", "subscribed"} \/ ui = "refresh"
                \/ "refresh" \in Requests \/ Brings(Flight)
<1>c. (Coming(n) <=> C) /\ (Coming(n)' <=> C')
  BY DEF Coming, Asked
\* Nothing that matters is lost.
<1>f. ASSUME srv' = srv, ui' = ui, Requests \subseteq Requests', Flight \subseteq Flight' PROVE Coming(n)'
  BY <1>c, <1>f
\* The handler ends or starts.
<1>s. ASSUME srv' \in {"none", "subscribed"} PROVE Coming(n)'
  BY <1>c, <1>s
<1>g. ASSUME srv' \notin {"none", "subscribed"}, srv \notin {"none", "subscribed"}, ui' = ui,
             Requests \subseteq Requests', Flight \subseteq Flight'
      PROVE  Coming(n)'
  BY <1>c, <1>g
<1>1. CASE DaemonStep
  <2>1. UNCHANGED <<toClient, uiQueue, cmdQueue, ui>>
    BY <1>1, DaemonSocket DEF client
  <2>2. CASE Stop
    BY <1>s, <2>2 DEF Stop
  <2>3. CASE DispatchCommand
    <3>1. toServer # <<>> /\ Head(toServer) = "change" /\ toServer' = Tail(toServer)
          /\ srv' \in {"waiting", "busy"} /\ srv = "serving"
      BY <2>3 DEF DispatchCommand
    <3>2. Range(toServer) = {"change"} \cup Range(toServer')
      BY <3>1, TailFacts DEF SocketTypes
    <3>3. C
      BY <1>c
    <3> QED BY <1>c, <2>1, <3>1, <3>2, <3>3
  <2>4. CASE EndChange \/ FailCommand \/ GetSlot
    <3>1. UNCHANGED toServer
      BY <2>4 DEF EndChange, FailCommand, GetSlot, socket
    <3>2. srv' = srv \/ (srv \in {"waiting", "busy"} /\ srv' \in {"serving", "busy", "refused"})
      BY <2>4 DEF EndChange, FailCommand, GetSlot, Awaited
    <3> QED BY <1>f, <1>g, <2>1, <3>1, <3>2
  <2>5. CASE DaemonStep /\ ~Stop /\ ~DispatchCommand /\ ~EndChange /\ ~FailCommand /\ ~GetSlot
    <3>1. UNCHANGED <<toServer, srv>>
      BY <2>5 DEF DaemonStep, BeginChange, BeginPacket, EndPacket, Start, NodeLeaves, NodeReturns, socket,
             handler
    <3> QED BY <1>f, <2>1, <3>1
  <2> QED BY <1>1, <2>2, <2>3, <2>4, <2>5
<1>2. CASE OtherServerStep
  <2>1. UNCHANGED <<uiQueue, cmdQueue, ui>>
    BY <1>2, ClientFrame DEF client
  <2>2. Flight \subseteq Flight'
    BY <1>2, <2>1, HandlerSends
  <2>3. CASE SendSnapshot \/ AnswerRefresh
    <3>1. Send(Snap(current)) /\ Snap(current) \in Message
      BY <2>3, MessageFacts DEF SendSnapshot, AnswerRefresh, DaemonTypes
    <3>2. Snap(current) \in Flight' /\ IsSnapshot(Snap(current)) /\ Snap(current).number = current
      BY <3>1, SendFacts, MessageFacts DEF DaemonTypes
    <3> QED BY <1>c, <3>2
  <2>4. CASE SendBacklog \/ GiveUp \/ SendError
    <3>1. UNCHANGED toServer /\ srv \notin {"none", "subscribed"} /\ srv' \notin {"none", "subscribed"}
      BY <2>4 DEF SendBacklog, GiveUp, SendError, socket
    <3> QED BY <1>g, <2>1, <2>2, <3>1
  <2>5. CASE ForwardEvent \/ ForwardPacket
    <3>1. UNCHANGED <<toServer, srv>>
      BY <2>5 DEF ForwardEvent, ForwardPacket
    <3> QED BY <1>f, <2>1, <2>2, <3>1
  <2> QED BY <1>2, <2>3, <2>4, <2>5 DEF OtherServerStep
<1>3. CASE Connect
  BY <1>3, <1>s DEF Connect
<1>4. CASE ConnectFails \/ DeliverBlocks \/ SeeEnd \/ UNCHANGED vars
  BY <1>4, <1>f DEF ConnectFails, DeliverBlocks, SeeEnd, vars, handler, socket, client
<1>5. CASE TellLink
  <2>1. UNCHANGED <<srv, ui, cmdQueue, toServer, toClient>> /\ uiQueue' = Append(uiQueue, Plain(ipc))
        /\ ipc \in {"up", "down"}
    BY <1>5 DEF TellLink, Tell, handler, socket
  <2>2. Range(uiQueue) \subseteq Range(uiQueue')
    BY <2>1, AppendFacts, MessageFacts DEF ChannelTypes
  <2> QED BY <1>f, <2>1, <2>2
<1>6. CASE Deliver
  <2>1. UNCHANGED <<srv, ui, cmdQueue, toServer>>
    BY <1>6 DEF Deliver, handler
  <2>2. Flight \subseteq Flight'
    BY <1>6, DeliverFacts
  <2> QED BY <1>f, <2>1, <2>2
<1>7. CASE SendCommand
  <2>1. UNCHANGED <<srv, ui, uiQueue>> /\ cmdQueue # <<>> /\ cmdQueue' = Tail(cmdQueue)
    BY <1>7 DEF SendCommand, handler
  <2>2. Head(cmdQueue) \in Command /\ Range(cmdQueue) = {Head(cmdQueue)} \cup Range(cmdQueue')
    BY <2>1, TailFacts DEF ChannelTypes
  <2>3. CASE srv = "none"
    BY <1>s, <2>1, <2>3
  <2>4. CASE srv # "none"
    <3>1. toServer' = Append(toServer, Head(cmdQueue)) /\ UNCHANGED toClient
      BY <1>7, <2>4 DEF SendCommand
    <3>2. Range(toServer') = Range(toServer) \cup {Head(cmdQueue)}
      BY <2>2, <3>1, AppendFacts DEF SocketTypes
    <3> QED BY <1>f, <2>1, <2>2, <3>1, <3>2
  <2> QED BY <2>3, <2>4
<1>8. CASE Unblock
  <2>1. UNCHANGED <<srv, uiQueue, toServer, toClient>> /\ cmdQueue' = Append(cmdQueue, ui) /\ ui \in Command
    BY <1>8 DEF Unblock, handler, socket, ChannelTypes
  <2>2. Range(cmdQueue') = Range(cmdQueue) \cup {ui}
    BY <2>1, AppendFacts DEF ChannelTypes
  <2> HIDE DEF Brings
  <2>3. C
    BY <1>c
  <2> QED BY <1>c, <2>1, <2>2, <2>3
<1>9. CASE ApplySnapshot
  <2>1. Receive({"snapshot"}) /\ shown' = Head(uiQueue).number
        /\ UNCHANGED <<srv, ui, cmdQueue, toServer, toClient>>
    BY <1>9 DEF ApplySnapshot, handler, socket
  <2>2. Range(uiQueue) = {Head(uiQueue)} \cup Range(uiQueue')
    BY <2>1, ReceiveFacts
  <2> QED BY <1>c, <2>1, <2>2
\* What the UI takes is not a snapshot.
<1>k. ASSUME NEW K, Receive(K), "snapshot" \notin K, UNCHANGED <<srv, toServer, toClient>>,
             Range(cmdQueue) \subseteq Range(cmdQueue'), ui' = ui \/ ui = "idle"
      PROVE  Coming(n)'
  <2>1. /\ Range(uiQueue) = {Head(uiQueue)} \cup Range(uiQueue') /\ ~IsSnapshot(Head(uiQueue))
        /\ ui = "idle"
    BY <1>k, ReceiveFacts DEF IsSnapshot
  <2>2. Brings(Flight) => Brings(Flight')
    BY <1>k, <2>1
  <2> HIDE DEF Brings
  <2> QED BY <1>c, <1>k, <2>1, <2>2
<1>10. CASE ApplyEvent
  <2>1. Receive({"event"}) /\ UNCHANGED <<srv, toServer, toClient>>
    BY <1>10 DEF ApplyEvent, handler, socket
  <2>2. Range(cmdQueue) \subseteq Range(cmdQueue') /\ (ui' = ui \/ ui = "idle")
    <3>1. CASE Head(uiQueue).refresh
      <4>1. Ask("refresh") /\ "refresh" \in Command /\ ui = "idle"
        BY <1>10, <2>1, <3>1, ReceiveFacts DEF ApplyEvent, Command
      <4> QED BY <4>1, AskFacts
    <3>2. CASE ~Head(uiQueue).refresh
      BY <1>10, <3>2 DEF ApplyEvent
    <3> QED BY <3>1, <3>2
  <2> QED BY <1>k, <2>1, <2>2
<1>11. CASE ApplyLink \/ ApplyBacklog \/ ApplyEntry \/ ApplyError
  BY <1>11, <1>k DEF ApplyLink, ApplyBacklog, ApplyEntry, ApplyError, handler, socket
<1>12. ASSUME NEW c \in Command, Key(c) PROVE Coming(n)'
  <2>1. UNCHANGED <<srv, uiQueue, toServer, toClient>> /\ Ask(c) /\ ui = "idle"
    BY <1>12 DEF Key, handler, socket
  <2>2. Range(cmdQueue) \subseteq Range(cmdQueue')
    BY <2>1, AskFacts
  <2> HIDE DEF Brings
  <2>3. C
    BY <1>c
  <2> QED BY <1>c, <2>1, <2>2, <2>3
<1> QED BY <1>1, <1>2, <1>3, <1>4, <1>5, <1>6, <1>7, <1>8, <1>9, <1>10, <1>11, <1>12, StepCases
        DEF IpcStep, UiStep, UserStep

\* An event that makes the UI ask is followed by a request.
LEMMA AskedByEvent ==
  ASSUME Types, ApplyEvent, Head(uiQueue).refresh
  PROVE  Asked'
<1>1. Receive({"event"}) /\ Ask("refresh") /\ "refresh" \in Command
  BY DEF ApplyEvent, Command
<1>2. ui = "idle"
  BY <1>1, ReceiveFacts DEF Types
<1> QED BY <1>1, <1>2, AskFacts DEF Types, Asked

LEMMA HeardStep ==
  Types /\ Numbered /\ Sorted /\ HeardComing /\ [Next]_vars => HeardComing'
<1> SUFFICES ASSUME Types, Numbered, Sorted, HeardComing, [Next]_vars PROVE HeardComing'
  OBVIOUS
<1>1. CASE UNCHANGED heard
  <2>1. heard \in Nat
    BY Caps DEF Types, ScreenTypes, Number
  <2>2. PICK n \in Nat : n = heard
    BY <2>1
  <2>3. CASE n <= shown
    BY <1>1, <2>2, <2>3, ShownGrows DEF HeardComing
  <2>4. CASE ~(n <= shown)
    <3>1. Coming(n) /\ n <= current
      BY <2>2, <2>4 DEF HeardComing, Numbered
    <3>2. n <= shown' \/ Coming(n)'
      BY <3>1, ComingStep
    <3> QED BY <1>1, <2>2, <3>2 DEF HeardComing, Coming
  <2> QED BY <2>3, <2>4
<1>2. CASE ApplyEvent /\ Head(uiQueue).refresh
  BY <1>2, AskedByEvent DEF HeardComing, Coming
<1>3. UNCHANGED heard \/ (ApplyEvent /\ Head(uiQueue).refresh)
  BY StepCases, ClientFrame DEF IpcStep, Connect, ConnectFails, TellLink, Deliver, DeliverBlocks,
     SendCommand, SeeEnd, UiStep, Unblock, ApplyLink, ApplySnapshot, ApplyEvent, ApplyBacklog,
     ApplyEntry, ApplyError, UserStep, Key, vars, client
<1> QED BY <1>1, <1>2, <1>3

LEMMA AnnouncedStep == Types /\ Announced /\ [Next]_vars => Announced'
<1> SUFFICES ASSUME Types, Announced, [Next]_vars PROVE Announced'
  OBVIOUS
<1> USE DEF Types
<1>0. ASSUME NEW change \in {"removal", "status"}
      PROVE  LET m == Note(current, Announces(change)) IN m \in Event /\ m.kind = "event" /\ m.refresh
  <2>1. Announces(change) = TRUE
    BY DEF Announces
  <2> QED BY <2>1, MessageFacts DEF DaemonTypes
<1>f. ASSUME UNCHANGED <<mesh, own, jobs, events>>, srv' = "busy" => srv = "busy"
      PROVE  Announced'
  BY <1>f DEF Announced
<1>i. ASSUME mesh' # "status", own' => mesh' = "removal" PROVE Announced'
  BY <1>i DEF Announced
<1>1. ASSUME NEW change \in Change, NEW mine \in BOOLEAN, BeginChange(change, mine)
      PROVE  Announced'
  <2>1. mesh' = change /\ own' = mine /\ srv' = srv /\ (mine => change # "quiet")
    BY <1>1 DEF BeginChange
  <2>2. CASE change = "status"
    <3>1. BroadcastEvent(Note(current, Announces("status")))
      BY <1>1, <2>2 DEF BeginChange
    <3>2. srv # "none" => Note(current, Announces("status")) \in Range(events')
      BY <1>0, <3>1, BroadcastFacts
    <3> QED BY <1>0, <2>1, <2>2, <3>2 DEF Announced, Telling
  <2>3. CASE change # "status"
    BY <1>i, <2>1, <2>3 DEF Change
  <2> QED BY <2>2, <2>3
<1>2. CASE EndChange \/ Stop
  BY <1>2, <1>i DEF EndChange, Stop
<1>3. CASE FailCommand \/ BeginPacket \/ EndPacket \/ Start \/ NodeLeaves \/ NodeReturns
  <2>1. CASE FailCommand
    BY <2>1, <1>i DEF FailCommand, Announced
  <2>2. CASE BeginPacket
    BY <2>2, <1>i DEF BeginPacket, Announced
  <2>3. CASE EndPacket
    BY <2>3, <1>i DEF EndPacket, Announced
  <2>4. CASE Start \/ NodeLeaves \/ NodeReturns
    BY <2>4, <1>f DEF Start, NodeLeaves, NodeReturns, handler, feeds
  <2> QED BY <1>3, <2>1, <2>2, <2>3, <2>4
<1>4. CASE DispatchCommand \/ GetSlot
  BY <1>4 DEF DispatchCommand, GetSlot, Announced, DaemonTypes
<1>5. CASE OtherServerStep
  <2>1. UNCHANGED <<mesh, own, jobs>>
    BY <1>5, DaemonFrame
  <2>2. CASE ForwardEvent
    BY <2>1, <2>2 DEF ForwardEvent, Announced
  <2>3. CASE OtherServerStep /\ ~ForwardEvent
    <3>1. UNCHANGED events /\ (srv' = "busy" => srv = "busy")
      BY <2>3 DEF OtherServerStep, SendSnapshot, SendBacklog, ForwardPacket, AnswerRefresh, GiveUp,
         SendError, handler, feeds
    <3> QED BY <1>f, <2>1, <3>1
  <2> QED BY <1>5, <2>2, <2>3
<1>6. CASE IpcStep
  <2>1. UNCHANGED <<mesh, own, jobs>>
    BY <1>6, DaemonFrame
  <2>2. CASE Connect
    BY <2>1, <2>2 DEF Connect, Announced
  <2>3. CASE IpcStep /\ ~Connect
    <3>1. UNCHANGED <<events, srv>>
      BY <2>3 DEF IpcStep, ConnectFails, TellLink, Deliver, DeliverBlocks, SendCommand, SeeEnd,
         handler, feeds
    <3> QED BY <1>f, <2>1, <3>1
  <2> QED BY <1>6, <2>2, <2>3
<1>7. CASE UiStep \/ UserStep \/ UNCHANGED vars
  <2>1. UNCHANGED <<mesh, own, jobs>>
    BY <1>7, DaemonFrame
  <2>2. UNCHANGED handler
    BY <1>7 DEF UiStep, Unblock, ApplyLink, ApplySnapshot, ApplyEvent, ApplyBacklog, ApplyEntry,
       ApplyError, UserStep, Key, vars
  <2> QED BY <1>f, <2>1, <2>2 DEF handler, feeds
<1> QED BY <1>1, <1>2, <1>3, <1>4, <1>5, <1>6, <1>7, StepCases DEF DaemonStep

\* An announcement stays on its way until it makes the UI ask, unless the
\* receiver lags.
LEMMA TellingStep ==
  ASSUME Types, [Next]_vars, Telling(InFlight), ~missedEvent'
  PROVE  Telling(InFlight)' \/ Asked'
<1> USE DEF Types
<1>f. ASSUME InFlight \subseteq InFlight' PROVE Telling(InFlight)'
  BY <1>f DEF Telling
<1>1. CASE DaemonStep
  <2>1. UNCHANGED <<toClient, uiQueue>>
    BY <1>1, DaemonSocket DEF client
  <2>2. CASE Stop
    BY <2>2 DEF Stop, Asked
  <2>3. ASSUME NEW change \in Change, BroadcastEvent(Note(current, Announces(change)))
        PROVE  Range(events) \subseteq Range(events')
    BY <2>3, AnnouncedFacts, BroadcastFacts
  <2>4. CASE DaemonStep /\ ~Stop
    <3>1. \/ UNCHANGED events
          \/ \E change \in Change : BroadcastEvent(Note(current, Announces(change)))
      <4>1. CASE \E change \in Change, mine \in BOOLEAN : BeginChange(change, mine)
        <5>1. UNCHANGED events \/ (BroadcastEvent(Note(current, Announces("status"))) /\ "status" \in Change)
          BY <4>1 DEF BeginChange
        <5> QED BY <5>1
      <4>2. CASE EndChange
        <5>1. UNCHANGED events \/ (BroadcastEvent(Note(current, Announces(mesh))) /\ mesh \in Change)
          BY <4>2 DEF EndChange
        <5> QED BY <5>1
      <4>3. CASE FailCommand \/ BeginPacket \/ EndPacket \/ Start \/ DispatchCommand
          \/ GetSlot \/ NodeLeaves \/ NodeReturns
        BY <4>3 DEF FailCommand, BeginPacket, EndPacket, Start, DispatchCommand, GetSlot, NodeLeaves, NodeReturns, handler, feeds
      <4> QED BY <2>4, <4>1, <4>2, <4>3 DEF DaemonStep
    <3>2. Range(events) \subseteq Range(events')
      BY <2>3, <3>1
    <3> QED BY <1>f, <2>1, <3>2 DEF InFlight
  <2> QED BY <1>1, <2>2, <2>4
<1>2. CASE OtherServerStep
  <2>1. UNCHANGED uiQueue /\ Range(toClient) \subseteq Range(toClient')
    BY <1>2, ClientFrame, HandlerSends DEF client
  <2>2. CASE ForwardEvent
    <3>1. Send(Head(events)) /\ events' = Tail(events) /\ events # <<>>
      BY <2>2 DEF ForwardEvent
    <3>2. Head(events) \in Message /\ Range(events) = {Head(events)} \cup Range(events')
      BY <3>1, TailFacts, MessageFacts DEF FeedTypes
    <3>3. Head(events) \in Range(toClient')
      BY <3>1, <3>2, SendFacts
    <3> QED BY <1>f, <2>1, <3>2, <3>3 DEF InFlight
  <2>3. CASE OtherServerStep /\ ~ForwardEvent
    <3>1. UNCHANGED events
      BY <2>3 DEF OtherServerStep, SendSnapshot, SendBacklog, ForwardPacket, AnswerRefresh, GiveUp,
         SendError, handler, feeds
    <3> QED BY <1>f, <2>1, <3>1 DEF InFlight
  <2> QED BY <1>2, <2>2, <2>3
<1>3. CASE Connect
  BY <1>3 DEF Connect, Asked
<1>4. CASE ConnectFails \/ DeliverBlocks \/ SeeEnd \/ Unblock \/ UserStep \/ UNCHANGED vars
  <2>1. UNCHANGED <<events, toClient, uiQueue>>
    BY <1>4 DEF ConnectFails, DeliverBlocks, SeeEnd, Unblock, UserStep, Key, vars, handler, feeds,
       socket, client
  <2> QED BY <1>f, <2>1 DEF InFlight
<1>5. CASE TellLink
  <2>1. UNCHANGED <<events, toClient>> /\ Tell(Plain(ipc)) /\ ipc \in {"up", "down"}
    BY <1>5 DEF TellLink, handler, feeds, socket
  <2>2. Range(uiQueue) \subseteq Range(uiQueue')
    BY <2>1, TellFacts, MessageFacts
  <2> QED BY <1>f, <2>1, <2>2 DEF InFlight
<1>6. CASE Deliver
  <2>1. UNCHANGED events
    BY <1>6 DEF Deliver, handler, feeds
  <2> QED BY <1>6, <1>f, <2>1, DeliverFacts DEF InFlight
<1>7. CASE SendCommand
  <2>1. CASE srv = "none"
    BY <1>7, <2>1 DEF SendCommand, handler, Asked
  <2>2. CASE srv # "none"
    <3>1. UNCHANGED <<events, toClient, uiQueue>>
      BY <1>7, <2>2 DEF SendCommand, handler, feeds
    <3> QED BY <1>f, <3>1 DEF InFlight
  <2> QED BY <2>1, <2>2
<1>k. ASSUME NEW K, Receive(K), UNCHANGED <<events, toClient>>,
             "event" \notin K \/ ~Head(uiQueue).refresh
      PROVE  Telling(InFlight)'
  <2>1. Range(uiQueue) = {Head(uiQueue)} \cup Range(uiQueue') /\ Head(uiQueue).kind \in K
    BY <1>k, ReceiveFacts
  <2>2. ~(Head(uiQueue).kind = "event" /\ Head(uiQueue).refresh)
    BY <1>k, <2>1
  <2> QED BY <1>k, <2>1, <2>2 DEF Telling, InFlight
<1>8. CASE ApplyEvent
  <2>1. CASE Head(uiQueue).refresh
    BY <1>8, <2>1, AskedByEvent
  <2>2. CASE ~Head(uiQueue).refresh
    BY <1>8, <1>k, <2>2 DEF ApplyEvent, handler, feeds, socket
  <2> QED BY <2>1, <2>2
<1>9. CASE ApplyLink \/ ApplySnapshot \/ ApplyBacklog \/ ApplyEntry \/ ApplyError
  BY <1>9, <1>k DEF ApplyLink, ApplySnapshot, ApplyBacklog, ApplyEntry, ApplyError, handler, feeds, socket
<1> QED BY <1>1, <1>2, <1>3, <1>4, <1>5, <1>6, <1>7, <1>8, <1>9, StepCases DEF IpcStep, UiStep

\* A receiver that lagged is only replaced by a new connection.
LEMMA MissedStep == Types /\ [Next]_vars /\ missedEvent /\ ~missedEvent' => Asked'
<1> SUFFICES ASSUME Types, [Next]_vars, missedEvent, ~missedEvent' PROVE Asked'
  OBVIOUS
<1>1. ASSUME NEW m, BroadcastEvent(m) PROVE FALSE
  BY <1>1 DEF BroadcastEvent
<1>2. ~DaemonStep
  BY <1>1 DEF DaemonStep, BeginChange, EndChange, FailCommand, BeginPacket, EndPacket, Stop, Start, DispatchCommand,
     GetSlot, NodeLeaves, NodeReturns, handler, feeds
<1>3. ~OtherServerStep
  BY DEF OtherServerStep, SendSnapshot, SendBacklog, ForwardEvent, ForwardPacket, AnswerRefresh,
     GiveUp, SendError, handler, feeds
<1>4. ~(UiStep \/ UserStep \/ UNCHANGED vars)
  BY DEF UiStep, Unblock, ApplyLink, ApplySnapshot, ApplyEvent, ApplyBacklog, ApplyEntry,
     ApplyError, UserStep, Key, vars, handler, feeds
<1>5. Connect
  BY <1>2, <1>3, <1>4, StepCases DEF IpcStep, ConnectFails, TellLink, Deliver, DeliverBlocks,
     SendCommand, SeeEnd, handler, feeds
<1> QED BY <1>5 DEF Connect, Asked

LEMMA DoneStep == IInv /\ [Next]_vars => DoneComing'
<1> SUFFICES ASSUME IInv, [Next]_vars PROVE DoneComing'
  OBVIOUS
<1> USE DEF IInv
<1>1. CASE UNCHANGED done
  <2>1. done \in Nat
    BY Caps DEF Types, DaemonTypes, Number
  <2>2. PICK n \in Nat : n = done
    BY <2>1
  <2>3. CASE n <= shown
    BY <1>1, <2>2, <2>3, ShownGrows DEF DoneComing
  <2>4. CASE Coming(n)
    <3>1. n <= current
      BY <2>2 DEF Numbered
    <3>2. n <= shown' \/ Coming(n)'
      BY <2>4, <3>1, ComingStep
    <3> QED BY <1>1, <2>2, <3>2 DEF DoneComing, Coming
  <2>5. CASE missedEvent
    BY <2>5, MissedStep DEF DoneComing, Coming
  <2>6. CASE Telling(InFlight)
    BY <2>6, TellingStep DEF DoneComing, Coming
  <2> QED BY <2>2, <2>3, <2>4, <2>5, <2>6 DEF DoneComing
<1>2. CASE EndChange /\ ~UNCHANGED done
  <2>1. own /\ srv = "busy" /\ jobs = 0 /\ mesh \in {"removal", "status"}
    BY <1>2 DEF EndChange, Awaited, Announced
  <2>2. CASE mesh = "status"
    <3>1. UNCHANGED events /\ Telling(Range(events))
      BY <1>2, <2>1, <2>2 DEF EndChange, Announced
    <3> QED BY <3>1 DEF DoneComing, Telling, InFlight
  <2>3. CASE mesh = "removal"
    <3>1. BroadcastEvent(Note(current, Announces(mesh))) /\ mesh \in Change
      BY <1>2, <2>3 DEF EndChange
    <3>2. Note(current, Announces(mesh)) \in Range(events')
      BY <2>1, <3>1, AnnouncedFacts, BroadcastFacts DEF Types
    <3>3. Announces(mesh) = TRUE
      BY <2>3 DEF Announces
    <3>4. Note(current, Announces(mesh)).kind = "event" /\ Note(current, Announces(mesh)).refresh
      BY <3>3, MessageFacts DEF Types, DaemonTypes
    <3> QED BY <3>2, <3>4 DEF DoneComing, Telling, InFlight
  <2> QED BY <2>1, <2>2, <2>3
<1>3. EndChange \/ UNCHANGED done
  BY StepCases, DaemonFrame DEF DaemonStep, BeginChange, FailCommand, BeginPacket, EndPacket,
     Stop, Start, DispatchCommand, GetSlot, NodeLeaves, NodeReturns
<1> QED BY <1>1, <1>2, <1>3

-----------------------------------------------------------------------------
(* Theorems.                                                               *)

\* The invariant holds in every reachable state.
THEOREM Invariance == Spec => []IInv
<1>1. Init => IInv
  <2> SUFFICES ASSUME Init PROVE IInv
    OBVIOUS
  <2>1. /\ events = <<>> /\ toClient = <<>> /\ uiQueue = <<>>
        /\ current = 0 /\ shown = 0 /\ heard = 0 /\ done = 0
        /\ ipc = "away" /\ mesh = "idle" /\ own = FALSE
    BY DEF Init
  <2>2. InFlight = {} /\ Numbered /\ Sorted /\ Linked
    BY <2>1, EmptyFacts DEF InFlight, Numbered, Sorted, Linked
  <2>3. HeardComing /\ Announced /\ DoneComing
    BY <2>1 DEF HeardComing, Announced, DoneComing
  <2> QED BY <2>2, <2>3, InitTypes DEF IInv
<1>2. IInv /\ [Next]_vars => IInv'
  BY TypesStep, NumberedStep, SortedStep, LinkedStep, HeardStep, AnnouncedStep, DoneStep DEF IInv
<1> QED BY <1>1, <1>2, PTL DEF Spec

\* Every variable keeps its type and every channel its bound (server.rs,
\* tui/mod.rs: packets are cut to MAX_PACKETS).
THEOREM TypeCorrect == Spec => []TypeOK
<1>1. IInv => TypeOK
  BY TypeParts DEF IInv, Types
<1> QED BY Invariance, <1>1, PTL

\* At rest the UI says it is connected and shows a snapshot no older than any
\* event that made it ask (tui/mod.rs, apply_ui_event).
THEOREM UpToDate == Spec => []UpToDateAtRest
<1>1. IInv => UpToDateAtRest
  <2> SUFFICES ASSUME IInv, Rest PROVE connected /\ shown >= heard
    BY DEF UpToDateAtRest
  <2> USE DEF IInv
  <2>1. Range(uiQueue) = {} /\ Range(toClient) = {} /\ Range(cmdQueue) = {} /\ Range(toServer) = {}
    BY EmptyFacts DEF Rest, ClientIdle
  <2>2. connected
    BY <2>1 DEF Rest, ClientIdle, Linked
  <2>3. ~Coming(heard)
    BY <2>1 DEF Rest, ClientIdle, Coming, Asked
  <2>4. heard <= shown
    BY <2>3 DEF HeardComing
  <2>5. heard \in Nat /\ shown \in Nat
    BY Caps DEF Types, ScreenTypes, Number
  <2> QED BY <2>2, <2>4, <2>5
<1> QED BY Invariance, <1>1, PTL

\* At rest a UI whose own command succeeded shows its effect, unless its
\* connection lost an event (server.rs, handle_client).
THEOREM OwnChangesShown == Spec => []OwnChangeShown
<1>1. IInv => OwnChangeShown
  <2> SUFFICES ASSUME IInv, Rest, ~missedEvent PROVE shown >= done
    BY DEF OwnChangeShown
  <2> USE DEF IInv
  <2>1. /\ Range(uiQueue) = {} /\ Range(toClient) = {} /\ Range(events) = {}
        /\ Range(cmdQueue) = {} /\ Range(toServer) = {}
    BY EmptyFacts DEF Rest, ClientIdle
  <2>2. ~Coming(done) /\ ~Telling(InFlight)
    BY <2>1 DEF Rest, ClientIdle, Coming, Asked, Telling, InFlight
  <2>3. done <= shown
    BY <2>2 DEF DoneComing
  <2>4. done \in Nat /\ shown \in Nat
    BY Caps DEF Types, ScreenTypes, DaemonTypes, Number
  <2> QED BY <2>3, <2>4
<1> QED BY Invariance, <1>1, PTL

-----------------------------------------------------------------------------
(* The packet list.  A packet may overtake nothing on its way from the log  *)
(* to the screen, so each message says what the next one may carry.         *)

\* What is on its way to the UI loop, oldest first: its channel, the word on
\* the link ipc_task has to pass, the socket.
Link == IF ipc \in {"up", "down"} THEN <<Plain(ipc)>> ELSE <<>>
Stream == (uiQueue \o Link) \o toClient

\* The least identifier not announced yet.
Upcoming == IF mesh = "packet" THEN nextId - 1 ELSE nextId

\* The handler has written the backlog.
Past == srv \in {"serving", "waiting", "busy", "refused"}

\* Behind position i of s and before the next backlog, every entry is newer than p.
Precedes(s, i, p) ==
  \A j \in i+1..Len(s) : s[j].kind = "entry" => p < s[j].id \/ \E l \in i+1..j : s[l].kind = "log"

\* There is no backlog behind position i of s.
Silent(s, i) == \A l \in i+1..Len(s) : s[l].kind # "log"

\* What this connection still forwards is newer than p.
Due(p) == Past => p < Upcoming /\ \A q \in Range(packetFeed) : p < q

Follows(i, p) == Precedes(Stream, i, p) /\ (Silent(Stream, i) => Due(p))

\* Message m brings p, and no backlog behind it takes p away again.
Carries(m, p) ==
  \/ m.kind = "entry" /\ m.id = p
  \/ m.kind = "log" /\ p \in Range(m.entries)
Pending(s, p) == \E j \in 1..Len(s) : Carries(s[j], p) /\ Silent(s, j)

Rising(s) == \A i, j \in 1..Len(s) : i < j => s[i] < s[j]

Numbering ==
  /\ NewestFirst(log) /\ \A i \in 1..Len(log) : log[i] < nextId
  /\ mesh = "packet" => log[1] = Upcoming
  /\ Rising(packetFeed) /\ \A q \in Range(packetFeed) : q < Upcoming
  /\ srv = "none" => packetFeed = <<>>

\* Without a connection the socket is empty.
Adrift == ipc \in {"away", "down"} => toClient = <<>> /\ srv = "none"

InOrder ==
  /\ \A i \in 1..Len(Stream), p \in Packet : Stream[i] = Entry(p) => Follows(i, p)
  /\ \A i \in 1..Len(Stream) : Stream[i].kind = "log" => NewestFirst(Stream[i].entries)

\* The first k of s, and the others, are newest first.
Seam(s, k) ==
  /\ \A i, j \in 1..k : i < j => s[i] > s[j]
  /\ \A i, j \in k+1..Len(s) : i < j => s[i] > s[j]

Seamed ==
  \E k \in 0..Len(packets) :
    /\ Seam(packets, k)
    /\ \A i \in 1..k, p \in Packet : packets[i] = p => Follows(0, p)

Reaches(p) ==
  \/ srv \in {"subscribed", "snapped"}
  \/ p \in Range(packetFeed)
  \/ Pending(Stream, p)
  \/ Silent(Stream, 0) /\ (Len(packets) = MaxShown \/ p \in Range(packets))

Kept ==
  ~missedPacket /\ srv # "none" =>
    \A i \in 1..Len(log) : (mesh = "packet" /\ i = 1) \/ Reaches(log[i])

PacketInv == Numbering /\ Adrift /\ InOrder /\ Seamed /\ Kept

-----------------------------------------------------------------------------
LEMMA NumberTypes ==
  ASSUME Types
  PROVE  /\ Packet \subseteq Nat /\ nextId \in Nat /\ Upcoming \in Int
         /\ Range(packetFeed) \subseteq Packet
         /\ \A i \in 1..Len(packets) : packets[i] \in Packet
         /\ \A i \in 1..Len(log) : log[i] \in Packet
<1>1. Packet \subseteq Nat
  BY DEF Packet
<1>2. nextId \in Nat
  BY Caps DEF Types, DaemonTypes
<1>3. Upcoming \in Int
  BY <1>2 DEF Upcoming
<1>4. packetFeed \in Seq(Packet) /\ packets \in Seq(Packet) /\ log \in Seq(Packet)
  BY DEF Types, FeedTypes, ScreenTypes, DaemonTypes
<1>5. Range(packetFeed) \subseteq Packet
  BY <1>4, RangeOfSeq
<1> QED BY <1>1, <1>2, <1>3, <1>4, <1>5

LEMMA LinkType == Link \in Seq(UiEvent)
  BY MessageFacts DEF Link

LEMMA StreamType ==
  ASSUME Types
  PROVE  /\ Stream \in Seq(UiEvent) /\ Len(Stream) \in Nat
         /\ uiQueue \in Seq(UiEvent) /\ toClient \in Seq(UiEvent)
         /\ uiQueue \o Link \in Seq(UiEvent)
<1>1. uiQueue \in Seq(UiEvent) /\ toClient \in Seq(Message) /\ Message \subseteq UiEvent
  BY MessageFacts DEF Types, ChannelTypes, SocketTypes
<1>2. toClient \in Seq(UiEvent)
  BY <1>1, SeqMonotonic
<1>3. uiQueue \o Link \in Seq(UiEvent)
  BY <1>1, LinkType, ConcatProperties
<1>4. Stream \in Seq(UiEvent)
  BY <1>2, <1>3, ConcatProperties DEF Stream
<1> QED BY <1>1, <1>2, <1>3, <1>4, LenProperties

\* What follows a position, as a sequence grows at its end, ...
LEMMA AppendTrail ==
  ASSUME NEW s \in Seq(UiEvent), NEW m \in UiEvent, NEW i \in 0..Len(s), NEW p
  PROVE  /\ Silent(Append(s, m), i) <=> Silent(s, i) /\ m.kind # "log"
         /\ Precedes(s, i, p) /\ (m.kind = "entry" /\ Silent(s, i) => p < m.id)
              => Precedes(Append(s, m), i, p)
         /\ Precedes(Append(s, m), Len(s) + 1, p) /\ Silent(Append(s, m), Len(s) + 1)
         /\ i > 0 => Append(s, m)[i] = s[i]
         /\ Append(s, m)[Len(s) + 1] = m
         /\ Len(Append(s, m)) = Len(s) + 1 /\ Len(s) \in Nat
<1> DEFINE a == Append(s, m)
<1>1. /\ Len(a) = Len(s) + 1 /\ Len(s) \in Nat /\ i \in Nat
      /\ \A l \in 1..Len(s) : a[l] = s[l]
      /\ a[Len(s) + 1] = m
  OBVIOUS
<1> HIDE DEF a
<1>2. Silent(a, i) => Silent(s, i) /\ m.kind # "log"
  BY <1>1 DEF Silent
<1>3. Silent(s, i) /\ m.kind # "log" => Silent(a, i)
  BY <1>1 DEF Silent
<1>4. ASSUME Precedes(s, i, p), m.kind = "entry" /\ Silent(s, i) => p < m.id
      PROVE  Precedes(a, i, p)
  <2> SUFFICES ASSUME NEW j \in i+1..Len(a), a[j].kind = "entry"
               PROVE  p < a[j].id \/ \E l \in i+1..j : a[l].kind = "log"
    BY DEF Precedes
  <2>1. CASE j = Len(s) + 1
    <3>1. CASE Silent(s, i)
      BY <1>1, <1>4, <2>1, <3>1
    <3>2. CASE ~Silent(s, i)
      <4>1. PICK l \in i+1..Len(s) : s[l].kind = "log"
        BY <3>2 DEF Silent
      <4> QED BY <1>1, <2>1, <4>1
    <3> QED BY <3>1, <3>2
  <2>2. CASE j \in i+1..Len(s)
    <3>1. p < s[j].id \/ \E l \in i+1..j : s[l].kind = "log"
      BY <1>1, <1>4, <2>2 DEF Precedes
    <3> QED BY <1>1, <2>2, <3>1
  <2> QED BY <1>1, <2>1, <2>2
<1>5. Precedes(a, Len(s) + 1, p) /\ Silent(a, Len(s) + 1)
  BY <1>1 DEF Precedes, Silent
<1> QED BY <1>1, <1>2, <1>3, <1>4, <1>5 DEF a

\* ... loses its head, ...
LEMMA TailTrail ==
  ASSUME NEW s \in Seq(UiEvent), s # <<>>, NEW p
  PROVE  /\ \A i \in 1..Len(s) : /\ Precedes(s, i, p) => Precedes(Tail(s), i - 1, p)
                                 /\ Silent(s, i) <=> Silent(Tail(s), i - 1)
         /\ Head(s).kind # "log" => /\ Precedes(s, 0, p) => Precedes(Tail(s), 0, p)
                                    /\ Silent(s, 0) <=> Silent(Tail(s), 0)
         /\ Precedes(s, 0, p) /\ Head(s).kind = "entry" => p < Head(s).id
         /\ \A i \in 1..Len(Tail(s)) : Tail(s)[i] = s[i + 1] /\ i + 1 \in 1..Len(s)
         /\ Len(Tail(s)) = Len(s) - 1 /\ 1 \in 1..Len(s) /\ Head(s) = s[1]
<1> DEFINE t == Tail(s)
<1>1. /\ Len(t) = Len(s) - 1 /\ Len(s) \in Nat \ {0}
      /\ \A l \in 1..(Len(s) - 1) : t[l] = s[l + 1]
      /\ Head(s) = s[1]
  OBVIOUS
<1>2. \A l \in 2..Len(s) : s[l] = t[l - 1]
  BY <1>1
<1> HIDE DEF t
<1>3. ASSUME NEW i \in 1..Len(s)
      PROVE  /\ Precedes(s, i, p) => Precedes(t, i - 1, p)
             /\ Silent(s, i) <=> Silent(t, i - 1)
  <2>1. Silent(s, i) => Silent(t, i - 1)
    BY <1>1 DEF Silent
  <2>2. Silent(t, i - 1) => Silent(s, i)
    <3> SUFFICES ASSUME Silent(t, i - 1), NEW l \in i+1..Len(s) PROVE s[l].kind # "log"
      BY DEF Silent
    <3>1. l - 1 \in (i-1)+1..Len(t) /\ s[l] = t[l - 1]
      BY <1>1, <1>2
    <3> QED BY <3>1 DEF Silent
  <2>3. ASSUME Precedes(s, i, p) PROVE Precedes(t, i - 1, p)
    <3> SUFFICES ASSUME NEW j \in (i-1)+1..Len(t), t[j].kind = "entry"
                 PROVE  p < t[j].id \/ \E l \in (i-1)+1..j : t[l].kind = "log"
      BY DEF Precedes
    <3>1. j + 1 \in i+1..Len(s) /\ t[j] = s[j + 1]
      BY <1>1
    <3>2. CASE p < s[j + 1].id
      BY <3>1, <3>2
    <3>3. CASE \E l \in i+1..j+1 : s[l].kind = "log"
      <4>1. PICK l \in i+1..j+1 : s[l].kind = "log"
        BY <3>3
      <4>2. l - 1 \in (i-1)+1..j /\ s[l] = t[l - 1]
        BY <1>1, <1>2, <3>1, <4>1
      <4> QED BY <4>1, <4>2
    <3> QED BY <2>3, <3>1, <3>2, <3>3 DEF Precedes
  <2> QED BY <2>1, <2>2, <2>3
<1>4. ASSUME Head(s).kind # "log"
      PROVE  /\ Precedes(s, 0, p) => Precedes(s, 1, p)
             /\ Silent(s, 0) <=> Silent(s, 1)
  <2>1. Silent(s, 0) <=> Silent(s, 1)
    BY <1>1, <1>4 DEF Silent
  <2>2. ASSUME Precedes(s, 0, p) PROVE Precedes(s, 1, p)
    <3> SUFFICES ASSUME NEW j \in 1+1..Len(s), s[j].kind = "entry"
                 PROVE  p < s[j].id \/ \E l \in 1+1..j : s[l].kind = "log"
      BY DEF Precedes
    <3>1. p < s[j].id \/ \E l \in 0+1..j : s[l].kind = "log"
      BY <1>1, <2>2 DEF Precedes
    <3> QED BY <1>1, <1>4, <3>1
  <2> QED BY <2>1, <2>2
<1>5. Head(s).kind # "log" => /\ Precedes(s, 0, p) => Precedes(t, 0, p)
                              /\ Silent(s, 0) <=> Silent(t, 0)
  <2>1. 1 \in 1..Len(s) /\ 1 - 1 = 0
    BY <1>1
  <2> QED BY <1>3, <1>4, <2>1
<1>6. Precedes(s, 0, p) /\ Head(s).kind = "entry" => p < Head(s).id
  BY <1>1 DEF Precedes
<1>7. /\ \A i \in 1..Len(t) : t[i] = s[i + 1] /\ i + 1 \in 1..Len(s)
      /\ Len(t) = Len(s) - 1 /\ 1 \in 1..Len(s) /\ Head(s) = s[1]
  BY <1>1
<1> QED BY <1>3, <1>5, <1>6, <1>7 DEF t

\* ... and is cut where the connection ends.
LEMMA CutTrail ==
  ASSUME NEW u \in Seq(UiEvent), NEW x \in Seq(UiEvent), NEW m \in UiEvent, m.kind # "entry",
         NEW i \in 0..Len(u), NEW p, Precedes(u \o x, i, p)
  PROVE  Precedes(Append(u, m), i, p)
<1>1. /\ Len(u) \in Nat /\ Len(u \o x) >= Len(u)
      /\ \A l \in 1..Len(u) : (u \o x)[l] = u[l]
  BY ConcatProperties, LenProperties
<1>2. Precedes(u, i, p)
  BY <1>1 DEF Precedes
<1> QED BY <1>2, AppendTrail

-----------------------------------------------------------------------------
(* The shape of a step.                                                     *)

\* What has been announced only leaves the feed by being forwarded.
LEMMA DueStep ==
  ASSUME Types, Numbering, [Next]_vars, ~SendBacklog, NEW p \in Packet, Due(p)
  PROVE  Due(p)'
<1> USE DEF Types
<1>t. /\ packetFeed \in Seq(Packet) /\ p \in Nat /\ nextId \in Nat /\ Upcoming \in Int
      /\ Len(packetFeed) <= EventCap /\ EventCap \in Nat \ {0}
      /\ Packet \subseteq Nat
  BY NumberTypes, Caps DEF FeedTypes, Packet
<1>n. ~Past' => Due(p)'
  BY DEF Due
\* What leaves the rest of the path alone.
<1>f. ASSUME Past' = Past, Upcoming' = Upcoming, packetFeed' = packetFeed PROVE Due(p)'
  BY <1>f DEF Due
<1>1. ASSUME NEW change \in Change, NEW mine \in BOOLEAN, BeginChange(change, mine)
      PROVE  Due(p)'
  BY <1>1, <1>f DEF BeginChange, Past, Upcoming, Change
<1>2. CASE EndChange
  <2>1. srv' = srv \/ (srv = "busy" /\ srv' = "serving")
    BY <1>2 DEF EndChange, Awaited
  <2>2. Past' = Past
    BY <2>1 DEF Past
  <2> QED BY <1>2, <1>f, <2>2 DEF EndChange, Upcoming, Change
<1>3. CASE FailCommand
  <2>1. srv' = srv \/ (srv = "busy" /\ srv' = "refused")
    BY <1>3 DEF FailCommand, Awaited
  <2>2. Past' = Past
    BY <2>1 DEF Past
  <2> QED BY <1>3, <1>f, <2>2 DEF FailCommand, Upcoming, feeds
<1>4. CASE BeginPacket
  <2>1. Upcoming' = Upcoming
    BY <1>4, <1>t DEF BeginPacket, Upcoming
  <2> QED BY <1>4, <1>f, <2>1 DEF BeginPacket, Past, handler, feeds
<1>5. CASE EndPacket
  <2>1. CASE ~Subscribed
    BY <1>5, <1>n, <2>1 DEF EndPacket, Subscribed, Past
  <2>2. CASE Subscribed /\ Past
    <3>1. /\ packetFeed' = Newest(Append(packetFeed, Head(log)), EventCap)
          /\ mesh = "packet" /\ mesh' = "idle" /\ nextId' = nextId /\ srv' = srv
      BY <1>5, <2>2 DEF EndPacket
    <3>2. log \in Seq(Packet) /\ log # <<>>
      BY <3>1 DEF DaemonTypes, Halfway
    <3>3. Head(log) \in Packet /\ Head(log) = Upcoming
      BY <3>1, <3>2, TailFacts DEF Numbering
    <3>4. Range(packetFeed') \subseteq Range(packetFeed) \cup {Head(log)}
      BY <1>t, <3>1, <3>3, NewestFacts
    <3>5. p < Upcoming /\ \A q \in Range(packetFeed) : p < q
      BY <2>2 DEF Due
    <3>6. Upcoming' = Upcoming + 1
      BY <1>t, <3>1 DEF Upcoming
    <3> QED BY <1>t, <3>3, <3>4, <3>5, <3>6 DEF Due
  <2>3. CASE Subscribed /\ ~Past
    BY <1>5, <1>n, <2>3 DEF EndPacket, Past
  <2> QED BY <2>1, <2>2, <2>3
<1>6. CASE Stop
  BY <1>6, <1>n DEF Stop, Past
<1>7. CASE Start \/ DispatchCommand \/ GetSlot \/ NodeLeaves \/ NodeReturns
  <2>1. CASE DispatchCommand \/ GetSlot
    BY <2>1, <1>f DEF DispatchCommand, GetSlot, Past, Upcoming, feeds
  <2>2. CASE Start \/ NodeLeaves \/ NodeReturns
    BY <2>2, <1>f DEF Start, NodeLeaves, NodeReturns, Past, Upcoming, handler, feeds
  <2> QED BY <1>7, <2>1, <2>2
<1>8. CASE SendSnapshot
  BY <1>8, <1>n DEF SendSnapshot, Past
<1>9. CASE ForwardPacket
  <2>1. packetFeed # <<>> /\ packetFeed' = Tail(packetFeed) /\ srv' = srv /\ UNCHANGED <<mesh, nextId>>
    BY <1>9 DEF ForwardPacket, daemon
  <2>2. Range(packetFeed') \subseteq Range(packetFeed)
    BY <1>t, <2>1, TailFacts
  <2> QED BY <2>1, <2>2 DEF Due, Past, Upcoming
<1>10. CASE ForwardEvent \/ AnswerRefresh \/ GiveUp \/ SendError
  BY <1>10, <1>f DEF ForwardEvent, AnswerRefresh, GiveUp, SendError, Past, Upcoming, daemon, handler, feeds
<1>11. CASE Connect
  BY <1>11, <1>n DEF Connect, Past
<1>12. CASE IpcStep /\ ~Connect
  BY <1>12, <1>f DEF IpcStep, ConnectFails, TellLink, Deliver, DeliverBlocks, SendCommand, SeeEnd,
     Past, Upcoming, daemon, handler, feeds
<1>13. CASE UiStep
  BY <1>13, <1>f DEF UiStep, Unblock, ApplyLink, ApplySnapshot, ApplyEvent, ApplyBacklog, ApplyEntry,
     ApplyError, Past, Upcoming, daemon, handler, feeds
<1>14. CASE UserStep \/ UNCHANGED vars
  BY <1>14, <1>f DEF UserStep, Key, vars, Past, Upcoming, daemon, handler, feeds
<1> QED BY <1>1, <1>2, <1>3, <1>4, <1>5, <1>6, <1>7, <1>8, <1>9, <1>10, <1>11, <1>12, <1>13, <1>14,
           StepCases DEF DaemonStep, OtherServerStep

\* A message read from the socket is still on its way.
LEMMA StreamKept ==
  ASSUME Types, TellLink \/ Deliver
  PROVE  Stream' = Stream
<1> USE StreamType
<1>1. CASE TellLink
  <2>1. /\ ipc \in {"up", "down"} /\ uiQueue' = Append(uiQueue, Plain(ipc))
        /\ toClient' = toClient /\ ipc' \in {"select", "away"}
    BY <1>1 DEF TellLink, Tell, socket
  <2>2. Plain(ipc) \in UiEvent
    BY <2>1, MessageFacts
  <2>3. Link = <<Plain(ipc)>> /\ Link' = <<>>
    BY <2>1 DEF Link
  <2>4. uiQueue' = uiQueue \o Link
    BY <2>1, <2>2, <2>3, AppendIsConcat
  <2>5. uiQueue' \o Link' = uiQueue \o Link
    BY <2>3, <2>4, ConcatEmptySeq
  <2> QED BY <2>1, <2>5 DEF Stream
<1>2. CASE Deliver
  <2>1. /\ ipc \in {"select", "deliver"} /\ ipc' = "select" /\ toClient # <<>>
        /\ uiQueue' = Append(uiQueue, Head(toClient)) /\ toClient' = Tail(toClient)
    BY <1>2 DEF Deliver, Tell
  <2>2. Link = <<>> /\ Link' = <<>>
    BY <2>1 DEF Link
  <2> DEFINE h == Head(toClient)
  <2>3. h \in UiEvent /\ <<h>> \in Seq(UiEvent) /\ Tail(toClient) \in Seq(UiEvent)
    BY <2>1, HeadTailProperties
  <2>4. uiQueue' = uiQueue \o <<h>>
    BY <2>1, <2>3, AppendIsConcat
  <2>5. uiQueue' \in Seq(UiEvent)
    BY <2>3, <2>4, ConcatProperties
  <2>6. Stream' = (uiQueue \o <<h>>) \o Tail(toClient)
    BY <2>1, <2>2, <2>4, <2>5, ConcatEmptySeq DEF Stream
  <2>7. Stream = uiQueue \o toClient
    BY <2>2, ConcatEmptySeq DEF Stream
  <2>8. toClient = <<h>> \o Tail(toClient)
    <3>1. Len(toClient) \in Nat \ {0} /\ toClient[1] = h
      BY <2>1
    <3>2. toClient = SubSeq(toClient, 1, Len(toClient))
      BY SubSeqFull
    <3>3. SubSeq(toClient, 1, Len(toClient)) = <<toClient[1]>> \o SubSeq(toClient, 2, Len(toClient))
      BY <3>1, SubSeqRecursiveFirst, SMTT(30)
    <3>4. Tail(toClient) = SubSeq(toClient, 2, Len(toClient))
      BY <2>1, TailIsSubSeq, SMTT(30)
    <3> QED BY <3>1, <3>2, <3>3, <3>4
  <2> QED BY <2>3, <2>6, <2>7, <2>8, ConcatAssociative, SMTT(30)
<1> QED BY <1>1, <1>2

LEMMA StreamSends ==
  ASSUME Types, NEW m \in UiEvent, Send(m), UNCHANGED <<uiQueue, ipc>>
  PROVE  Stream' = Append(Stream, m)
<1>1. toClient' = Append(toClient, m) /\ Link' = Link
  BY DEF Send, Link
<1>2. toClient' = toClient \o <<m>> /\ <<m>> \in Seq(UiEvent)
  BY <1>1, StreamType, AppendIsConcat
<1>3. Stream' = (uiQueue \o Link) \o (toClient \o <<m>>)
  BY <1>1, <1>2 DEF Stream
<1>4. Append(Stream, m) = Stream \o <<m>>
  BY StreamType, AppendIsConcat
<1>5. ((uiQueue \o Link) \o toClient) \o <<m>> = (uiQueue \o Link) \o (toClient \o <<m>>)
  BY <1>2, StreamType, ConcatAssociative
<1> QED BY <1>3, <1>4, <1>5 DEF Stream

LEMMA StreamTaken ==
  ASSUME Types, NEW K, Receive(K), UNCHANGED <<toClient, ipc>>
  PROVE  /\ Stream # <<>> /\ Stream' = Tail(Stream)
         /\ Head(Stream) = Head(uiQueue) /\ Head(Stream).kind \in K
<1>1. uiQueue # <<>> /\ uiQueue' = Tail(uiQueue) /\ Head(uiQueue).kind \in K /\ Link' = Link
  BY DEF Receive, Link
<1> DEFINE x == Link \o toClient
<1>2. x \in Seq(UiEvent) /\ Stream = uiQueue \o x
  BY StreamType, LinkType, ConcatProperties, ConcatAssociative DEF Stream
<1>3. Tail(uiQueue) \in Seq(UiEvent) /\ Head(uiQueue) \in UiEvent
  BY <1>1, StreamType, HeadTailProperties
<1>4. Stream' = Tail(uiQueue) \o x
  <2>1. Stream' = (Tail(uiQueue) \o Link) \o toClient
    BY <1>1 DEF Stream
  <2>2. Link \in Seq(UiEvent) /\ toClient \in Seq(UiEvent)
    BY StreamType, LinkType
  <2>3. (Tail(uiQueue) \o Link) \o toClient = Tail(uiQueue) \o (Link \o toClient)
    BY <1>3, <2>2, ConcatAssociative, SMTT(30)
  <2> QED BY <2>1, <2>3
<1> HIDE DEF x
<1>5. Stream # <<>>
  BY <1>1, <1>2, StreamType, ConcatEqualIffEmpty
<1>6. Head(uiQueue \o x) = Head(uiQueue) /\ Tail(uiQueue \o x) = Tail(uiQueue) \o x
  <2>1. /\ Len(uiQueue) \in Nat \ {0} /\ Len(x) \in Nat /\ uiQueue \o x \in Seq(UiEvent)
        /\ uiQueue \o x # <<>> /\ Len(uiQueue \o x) = Len(uiQueue) + Len(x)
        /\ \A i \in 1..Len(uiQueue) + Len(x) :
             (uiQueue \o x)[i] = IF i <= Len(uiQueue) THEN uiQueue[i] ELSE x[i - Len(uiQueue)]
    BY <1>1, <1>2, <1>5, StreamType, ConcatProperties, LenProperties, EmptySeq
  <2>2. Head(uiQueue \o x) = (uiQueue \o x)[1] /\ Head(uiQueue) = uiQueue[1]
    BY <1>1, <2>1
  <2> DEFINE a == Tail(uiQueue \o x)
             b == Tail(uiQueue) \o x
  <2>3. /\ a \in Seq(UiEvent) /\ Len(a) = Len(uiQueue) + Len(x) - 1
        /\ \A i \in 1..Len(a) : a[i] = (uiQueue \o x)[i + 1]
    BY <2>1, HeadTailProperties
  <2>4. /\ Len(Tail(uiQueue)) = Len(uiQueue) - 1
        /\ \A i \in 1..Len(uiQueue) - 1 : Tail(uiQueue)[i] = uiQueue[i + 1]
    BY <1>1, StreamType, HeadTailProperties
  <2>5. /\ b \in Seq(UiEvent) /\ Len(b) = Len(uiQueue) - 1 + Len(x)
        /\ \A i \in 1..Len(b) : b[i] = IF i <= Len(uiQueue) - 1 THEN uiQueue[i + 1] ELSE x[i - (Len(uiQueue) - 1)]
    <3>1. /\ b \in Seq(UiEvent) /\ Len(b) = Len(Tail(uiQueue)) + Len(x)
          /\ \A i \in 1..Len(Tail(uiQueue)) + Len(x) :
               b[i] = IF i <= Len(Tail(uiQueue)) THEN Tail(uiQueue)[i] ELSE x[i - Len(Tail(uiQueue))]
      BY <1>2, <1>3, ConcatProperties
    <3> HIDE DEF b
    <3> QED BY <2>1, <2>4, <3>1
  <2> HIDE DEF a, b
  <2>6. \A i \in 1..Len(a) : a[i] = b[i]
    <3> SUFFICES ASSUME NEW i \in 1..Len(a) PROVE a[i] = b[i]
      OBVIOUS
    <3>1. a[i] = (uiQueue \o x)[i + 1] /\ i + 1 \in 1..Len(uiQueue) + Len(x)
      BY <2>1, <2>3
    <3>2. (uiQueue \o x)[i + 1] = IF i + 1 <= Len(uiQueue) THEN uiQueue[i + 1] ELSE x[(i + 1) - Len(uiQueue)]
      BY <2>1, <3>1
    <3>3. (i + 1) - Len(uiQueue) = i - (Len(uiQueue) - 1)
      BY <2>1, <2>3
    <3>4. b[i] = IF i <= Len(uiQueue) - 1 THEN uiQueue[i + 1] ELSE x[i - (Len(uiQueue) - 1)]
      BY <2>1, <2>3, <2>5
    <3> QED BY <2>1, <2>3, <3>1, <3>2, <3>3, <3>4
  <2>7. a = b
    <3>1. Len(a) = Len(b)
      BY <2>1, <2>3, <2>5
    <3> QED BY <2>3, <2>5, <2>6, <3>1, SeqEqual
  <2> QED BY <2>1, <2>2, <2>7 DEF a, b
<1> QED BY <1>1, <1>2, <1>4, <1>5, <1>6

\* How a step moves the packets: a message goes on its way unchanged, ...
Stays == Stream' = Stream /\ packets' = packets /\ ~SendBacklog /\ ~ForwardPacket

\* ... the handler sends one, ...
Sends ==
  \E m \in UiEvent :
    /\ Stream' = Append(Stream, m) /\ packets' = packets
    /\ \/ m.kind \notin {"entry", "log"} /\ ~SendBacklog /\ ~ForwardPacket
       \/ SendBacklog /\ m = Backlog(log)
       \/ ForwardPacket /\ m = Entry(Head(packetFeed))

\* ... the UI loop applies one, ...
Takes ==
  /\ Stream # <<>> /\ Stream' = Tail(Stream) /\ UNCHANGED <<daemon, handler>>
  /\ LET m == Head(Stream) IN
       \/ m.kind = "log" /\ packets' = First(m.entries, MaxShown)
       \/ m.kind = "entry" /\ packets' = First(<<m.id>> \o packets, MaxShown)
       \/ m.kind \notin {"entry", "log"} /\ packets' = packets

\* ... or a connection ends or begins.
Cuts ==
  /\ srv' \in {"none", "subscribed"} /\ packets' = packets
  /\ \E x \in Seq(UiEvent) : Stream = uiQueue \o x
  /\ \E m \in UiEvent : m.kind \notin {"entry", "log"} /\ Stream' = Append(uiQueue, m)
  /\ ~SendBacklog /\ ~ForwardPacket

\* The handler's position tells what it can do.
LEMMA HandlerFrame ==
  /\ UNCHANGED srv => ~SendBacklog
  /\ UNCHANGED packetFeed /\ Types => ~ForwardPacket
  /\ SendBacklog => srv = "snapped" /\ srv' = "serving"
  /\ ForwardPacket => srv = "serving" /\ srv' = "serving" /\ UNCHANGED <<daemon, packets>>
<1>1. SendBacklog => srv = "snapped" /\ srv' = "serving"
  BY DEF SendBacklog
<1>2. ForwardPacket => srv = "serving" /\ srv' = "serving" /\ UNCHANGED <<daemon, packets>>
  BY DEF ForwardPacket, client
<1>3. ASSUME UNCHANGED packetFeed, Types, ForwardPacket PROVE FALSE
  <2>1. packetFeed \in Seq(Packet) /\ packetFeed # <<>> /\ Tail(packetFeed) = packetFeed
    BY <1>3 DEF ForwardPacket, Types, FeedTypes
  <2>2. Len(Tail(packetFeed)) = Len(packetFeed) - 1 /\ Len(packetFeed) \in Nat
    BY <2>1, TailFacts
  <2> QED BY <2>1, <2>2
<1> QED BY <1>1, <1>2, <1>3

LEMMA StreamStep ==
  ASSUME Types, Adrift, [Next]_vars
  PROVE  Stays \/ Sends \/ Takes \/ Cuts
<1> USE DEF Types
<1>s. ASSUME UNCHANGED <<uiQueue, ipc, toClient, packets>>, ~SendBacklog, ~ForwardPacket PROVE Stays
  BY <1>s DEF Stays, Stream, Link
<1>m. ASSUME NEW m \in Message, Send(m), UNCHANGED client
      PROVE  m \in UiEvent /\ Stream' = Append(Stream, m) /\ packets' = packets
  BY <1>m, MessageFacts, StreamSends DEF client
<1>t. ASSUME NEW K, Receive(K), UNCHANGED <<daemon, handler, socket, ipc>>
      PROVE  /\ Stream # <<>> /\ Stream' = Tail(Stream) /\ UNCHANGED <<daemon, handler>>
             /\ Head(Stream) = Head(uiQueue) /\ Head(Stream).kind \in K
  BY <1>t, StreamTaken DEF socket
\* A new word on the link behind the UI's channel, and nothing after it.
<1>c. ASSUME ipc' \in {"up", "down"}, UNCHANGED <<uiQueue, packets>>, toClient' = <<>>,
             srv' \in {"none", "subscribed"}
      PROVE  Cuts
  <2>1. Plain(ipc') \in UiEvent /\ Plain(ipc').kind \notin {"entry", "log"}
    BY <1>c, MessageFacts
  <2>2. Link' = <<Plain(ipc')>>
    BY <1>c DEF Link
  <2>3. uiQueue \o <<Plain(ipc')>> = Append(uiQueue, Plain(ipc'))
    BY <2>1, StreamType, AppendIsConcat
  <2>4. Stream' = Append(uiQueue, Plain(ipc'))
    <3>1. Append(uiQueue, Plain(ipc')) \in Seq(UiEvent)
      BY <2>1, StreamType, AppendProperties
    <3>2. Stream' = Append(uiQueue, Plain(ipc')) \o <<>>
      BY <1>c, <2>2, <2>3 DEF Stream
    <3> QED BY <3>1, <3>2, ConcatEmptySeq
  <2>5. Link \o toClient \in Seq(UiEvent) /\ Stream = uiQueue \o (Link \o toClient)
    BY StreamType, LinkType, ConcatProperties, ConcatAssociative DEF Stream
  <2>6. ~SendBacklog /\ ~ForwardPacket
    BY <1>c, HandlerFrame
  <2> QED BY <1>c, <2>1, <2>4, <2>5, <2>6 DEF Cuts
<1>1. CASE DaemonStep
  <2>1. ~SendBacklog
    BY <1>1, HandlerFrame DEF DaemonStep, BeginChange, EndChange, FailCommand, BeginPacket, EndPacket,
       Stop, Start, DispatchCommand, GetSlot, NodeLeaves, NodeReturns, Awaited, handler
  <2>2. ~ForwardPacket
    <3>1. CASE UNCHANGED packetFeed
      BY <3>1, HandlerFrame
    <3>2. CASE EndPacket \/ Stop
      BY <3>2, HandlerFrame DEF EndPacket, Stop, daemon
    <3> QED BY <1>1, <3>1, <3>2 DEF DaemonStep, BeginChange, EndChange, FailCommand, BeginPacket,
               Start, DispatchCommand, GetSlot, NodeLeaves, NodeReturns, handler, feeds
  <2> QED BY <1>1, <1>s, <2>1, <2>2, DaemonSocket DEF client
<1>2. CASE SendSnapshot \/ AnswerRefresh
  <2>1. Send(Snap(current)) /\ Snap(current) \in Message /\ UNCHANGED <<client, packetFeed>>
    BY <1>2, MessageFacts DEF SendSnapshot, AnswerRefresh, DaemonTypes, handler, feeds
  <2>2. Snap(current).kind \notin {"entry", "log"}
    BY DEF Snap
  <2>3. ~SendBacklog /\ ~ForwardPacket
    BY <1>2, <2>1, HandlerFrame DEF SendSnapshot, AnswerRefresh
  <2> QED BY <1>m, <2>1, <2>2, <2>3 DEF Sends
<1>3. CASE SendBacklog
  <2>1. Send(Backlog(log)) /\ Backlog(log) \in Message /\ UNCHANGED client
    BY <1>3, MessageFacts DEF SendBacklog, DaemonTypes
  <2> QED BY <1>3, <1>m, <2>1 DEF Sends
<1>4. CASE ForwardEvent
  <2>1. events # <<>> /\ Send(Head(events)) /\ UNCHANGED <<client, packetFeed, srv>>
    BY <1>4 DEF ForwardEvent
  <2>2. Head(events) \in Event
    BY <2>1, TailFacts DEF FeedTypes
  <2>3. Head(events) \in Message /\ Head(events).kind \notin {"entry", "log"}
    BY <2>2, MessageFacts
  <2>4. ~SendBacklog /\ ~ForwardPacket
    BY <2>1, HandlerFrame
  <2> QED BY <1>m, <2>1, <2>3, <2>4 DEF Sends
<1>5. CASE ForwardPacket
  <2>1. packetFeed # <<>> /\ Send(Entry(Head(packetFeed))) /\ UNCHANGED <<client, srv>>
    BY <1>5 DEF ForwardPacket
  <2>2. Entry(Head(packetFeed)) \in Message
    BY <2>1, TailFacts, MessageFacts DEF FeedTypes
  <2> QED BY <1>5, <1>m, <2>1, <2>2 DEF Sends
<1>6. CASE SendError
  <2>1. Send(Plain("error")) /\ UNCHANGED <<client, packetFeed>> /\ srv = "refused"
    BY <1>6 DEF SendError, feeds
  <2>2. Plain("error") \in Message /\ Plain("error").kind \notin {"entry", "log"}
    BY MessageFacts
  <2>3. ~SendBacklog /\ ~ForwardPacket
    BY <2>1, HandlerFrame
  <2> QED BY <1>m, <2>1, <2>2, <2>3 DEF Sends
<1>7. CASE GiveUp
  <2>1. UNCHANGED <<uiQueue, ipc, toClient, packets, packetFeed>> /\ srv = "busy"
    BY <1>7 DEF GiveUp, socket, client, feeds
  <2> QED BY <1>s, <2>1, HandlerFrame
<1>8. CASE Connect
  BY <1>8, <1>c DEF Connect
<1>9. CASE ConnectFails
  BY <1>9, <1>c DEF ConnectFails, Adrift, handler, socket
<1>10. CASE SeeEnd
  BY <1>10, <1>c DEF SeeEnd, handler, socket
<1>11. CASE SendCommand
  <2>1. CASE srv = "none"
    BY <1>11, <1>c, <2>1 DEF SendCommand, handler
  <2>2. CASE srv # "none"
    BY <1>11, <1>s, <2>2, HandlerFrame DEF SendCommand, handler, feeds
  <2> QED BY <2>1, <2>2
<1>12. CASE TellLink \/ Deliver
  <2>1. UNCHANGED <<packets, handler>>
    BY <1>12 DEF TellLink, Deliver
  <2> QED BY <1>12, <2>1, StreamKept, HandlerFrame DEF Stays, handler, feeds
<1>13. CASE DeliverBlocks
  <2>1. ipc = "select" /\ ipc' = "deliver" /\ UNCHANGED <<handler, socket, uiQueue, packets>>
    BY <1>13 DEF DeliverBlocks
  <2>2. Link = <<>> /\ Link' = <<>>
    BY <2>1 DEF Link
  <2> QED BY <2>1, <2>2, HandlerFrame DEF Stays, Stream, handler, feeds, socket
<1>14. CASE Unblock \/ UserStep \/ UNCHANGED vars
  <2>1. UNCHANGED <<uiQueue, ipc, toClient, packets, handler>>
    BY <1>14 DEF Unblock, UserStep, Key, vars, socket, client
  <2> QED BY <1>s, <2>1, HandlerFrame DEF handler, feeds
<1>15. CASE ApplyLink \/ ApplySnapshot \/ ApplyEvent \/ ApplyError
  <2>1. Receive({"up", "down", "snapshot", "event", "error"})
    BY <1>15 DEF ApplyLink, ApplySnapshot, ApplyEvent, ApplyError, Receive
  <2>2. UNCHANGED <<daemon, handler, socket, ipc, packets>>
    BY <1>15 DEF ApplyLink, ApplySnapshot, ApplyEvent, ApplyError
  <2> QED BY <1>t, <2>1, <2>2 DEF Takes
<1>16. CASE ApplyBacklog
  <2>1. Receive({"log"}) /\ UNCHANGED <<daemon, handler, socket, ipc>>
        /\ packets' = First(Head(uiQueue).entries, MaxShown)
    BY <1>16 DEF ApplyBacklog, SetPacketLog
  <2> QED BY <1>t, <2>1 DEF Takes
<1>17. CASE ApplyEntry
  <2>1. Receive({"entry"}) /\ UNCHANGED <<daemon, handler, socket, ipc>>
        /\ packets' = First(<<Head(uiQueue).id>> \o packets, MaxShown)
    BY <1>17 DEF ApplyEntry, PushPacket
  <2> QED BY <1>t, <2>1 DEF Takes
<1> QED BY <1>1, <1>2, <1>3, <1>4, <1>5, <1>6, <1>7, <1>8, <1>9, <1>10, <1>11, <1>12, <1>13, <1>14,
           <1>15, <1>16, <1>17, StepCases DEF OtherServerStep, IpcStep, UiStep

LEMMA AdriftStep == Types /\ Adrift /\ [Next]_vars => Adrift'
<1> SUFFICES ASSUME Types, Adrift, [Next]_vars PROVE Adrift'
  OBVIOUS
<1> USE DEF Adrift
<1>1. CASE DaemonStep
  <2>1. UNCHANGED <<toClient, ipc>>
    BY <1>1, DaemonSocket DEF client
  <2>2. srv = "none" => srv' = "none"
    BY <1>1 DEF DaemonStep, BeginChange, EndChange, FailCommand, BeginPacket, EndPacket,
       Stop, Start, DispatchCommand, GetSlot, NodeLeaves, NodeReturns, Awaited, handler
  <2> QED BY <2>1, <2>2
<1>2. CASE OtherServerStep
  <2>1. srv # "none" /\ UNCHANGED ipc
    BY <1>2 DEF OtherServerStep, SendSnapshot, SendBacklog, ForwardEvent, ForwardPacket,
       AnswerRefresh, GiveUp, SendError, client
  <2> QED BY <2>1
<1>3. CASE Connect \/ TellLink \/ Deliver \/ DeliverBlocks \/ SendCommand
  BY <1>3 DEF Connect, TellLink, Deliver, DeliverBlocks, SendCommand, handler, socket
<1>4. CASE ConnectFails \/ SeeEnd
  BY <1>4 DEF ConnectFails, SeeEnd, handler, socket
<1>5. CASE UiStep \/ UserStep \/ UNCHANGED vars
  <2>1. UNCHANGED <<toClient, ipc, srv>>
    BY <1>5 DEF UiStep, Unblock, ApplyLink, ApplySnapshot, ApplyEvent, ApplyBacklog, ApplyEntry,
       ApplyError, UserStep, Key, vars, handler, socket, client
  <2> QED BY <2>1
<1> QED BY <1>1, <1>2, <1>3, <1>4, <1>5, StepCases DEF IpcStep

-----------------------------------------------------------------------------
(* The order of the packets.                                               *)

\* What a packet may be followed by, through each kind of step.
LEMMA FollowsStep ==
  ASSUME Types, Numbering, [Next]_vars, NEW p \in Packet, NEW i \in 0..Len(Stream), Follows(i, p)
  PROVE  /\ Stays \/ Sends => Follows(i, p)'
         /\ Takes => /\ i > 0 => Follows(i - 1, p)'
                     /\ i = 0 /\ Head(Stream).kind # "log" => Follows(0, p)'
         /\ Cuts /\ i <= Len(uiQueue) => Follows(i, p)'
<1>d. ~SendBacklog /\ Due(p) => Due(p)'
  BY DueStep
<1>s. Precedes(Stream, i, p) /\ (Silent(Stream, i) => Due(p)) /\ Stream \in Seq(UiEvent)
  BY StreamType DEF Follows
<1>1. ASSUME Stays PROVE Follows(i, p)'
  BY <1>1, <1>d, <1>s DEF Stays, Follows
<1>2. ASSUME Sends PROVE Follows(i, p)'
  <2>1. PICK m \in UiEvent :
          /\ Stream' = Append(Stream, m)
          /\ \/ m.kind \notin {"entry", "log"} /\ ~SendBacklog /\ ~ForwardPacket
             \/ SendBacklog /\ m = Backlog(log)
             \/ ForwardPacket /\ m = Entry(Head(packetFeed))
    BY <1>2 DEF Sends
  <2>2. SendBacklog => m.kind = "log"
    BY <2>1, HandlerFrame DEF Backlog
  <2>3. m.kind = "entry" => ForwardPacket /\ m.id = Head(packetFeed)
    BY <2>1 DEF Backlog, Entry
  <2>4. ASSUME m.kind = "entry", Silent(Stream, i) PROVE p < m.id
    <3>1. packetFeed # <<>> /\ packetFeed \in Seq(Packet) /\ srv = "serving"
      BY <2>3, <2>4 DEF ForwardPacket, Types, FeedTypes
    <3>2. Head(packetFeed) \in Range(packetFeed)
      BY <3>1, TailFacts
    <3> QED BY <1>s, <2>3, <2>4, <3>1, <3>2 DEF Due, Past
  <2>5. /\ Silent(Append(Stream, m), i) <=> Silent(Stream, i) /\ m.kind # "log"
        /\ Precedes(Append(Stream, m), i, p)
    BY <1>s, <2>4, AppendTrail
  <2> QED BY <1>d, <1>s, <2>1, <2>2, <2>5 DEF Follows
<1>3. ASSUME Takes
      PROVE  /\ i > 0 => Follows(i - 1, p)'
             /\ i = 0 /\ Head(Stream).kind # "log" => Follows(0, p)'
  <2>1. Stream # <<>> /\ Stream' = Tail(Stream) /\ ~SendBacklog
    BY <1>3, HandlerFrame DEF Takes, handler
  <2>2. ASSUME i > 0
        PROVE  /\ Precedes(Tail(Stream), i - 1, p)
               /\ Silent(Stream, i) <=> Silent(Tail(Stream), i - 1)
    <3>1. i \in 1..Len(Stream)
      BY <2>2
    <3> QED BY <1>s, <2>1, <3>1, TailTrail
  <2>3. i = 0 /\ Head(Stream).kind # "log" =>
          Precedes(Tail(Stream), 0, p) /\ (Silent(Stream, 0) <=> Silent(Tail(Stream), 0))
    BY <1>s, <2>1, TailTrail
  <2>4. i > 0 => Follows(i - 1, p)'
    BY <1>d, <1>s, <2>1, <2>2 DEF Follows
  <2>5. i = 0 /\ Head(Stream).kind # "log" => Follows(0, p)'
    BY <1>d, <1>s, <2>1, <2>3 DEF Follows
  <2> QED BY <2>4, <2>5
<1>4. ASSUME Cuts, i <= Len(uiQueue) PROVE Follows(i, p)'
  <2>1. PICK x \in Seq(UiEvent), m \in UiEvent :
          Stream = uiQueue \o x /\ m.kind \notin {"entry", "log"} /\ Stream' = Append(uiQueue, m)
    BY <1>4 DEF Cuts
  <2>2. i <= Len(uiQueue) => Precedes(Append(uiQueue, m), i, p)
    BY <1>s, <2>1, CutTrail, StreamType
  <2>3. Due(p)'
    BY <1>4 DEF Cuts, Due, Past
  <2> QED BY <1>4, <2>1, <2>2, <2>3 DEF Follows
<1> QED BY <1>1, <1>2, <1>3, <1>4

\* Each message carries packets newer than those before it.
LEMMA InOrderStep ==
  Types /\ Numbering /\ Adrift /\ InOrder /\ [Next]_vars => InOrder'
<1> SUFFICES ASSUME Types, Numbering, Adrift, InOrder, [Next]_vars PROVE InOrder'
  OBVIOUS
<1>s. Stream \in Seq(UiEvent) /\ Len(Stream) \in Nat /\ uiQueue \in Seq(UiEvent) /\ Len(uiQueue) \in Nat
  BY StreamType, LenProperties
<1>o. /\ \A i \in 1..Len(Stream), p \in Packet : Stream[i] = Entry(p) => Follows(i, p)
      /\ \A i \in 1..Len(Stream) : Stream[i].kind = "log" => NewestFirst(Stream[i].entries)
  BY DEF InOrder
\* It is enough that a position holds what an earlier one held, or a new message.
<1>w. ASSUME \A i \in 1..Len(Stream') : NewestFirst(Stream'[i].entries) \/ Stream'[i].kind # "log",
             \A i \in 1..Len(Stream'), p \in Packet : Stream'[i] = Entry(p) => Follows(i, p)'
      PROVE  InOrder'
  BY <1>w DEF InOrder
<1>1. CASE Stays
  <2>1. \A i \in 1..Len(Stream), p \in Packet : Follows(i, p) => Follows(i, p)'
    BY <1>1, <1>s, FollowsStep
  <2> QED BY <1>1, <1>o, <1>w, <2>1 DEF Stays
<1>2. CASE Sends
  <2>1. PICK m \in UiEvent :
          /\ Stream' = Append(Stream, m)
          /\ \/ m.kind \notin {"entry", "log"} /\ ~SendBacklog /\ ~ForwardPacket
             \/ SendBacklog /\ m = Backlog(log)
             \/ ForwardPacket /\ m = Entry(Head(packetFeed))
    BY <1>2 DEF Sends
  <2>2. /\ Len(Stream') = Len(Stream) + 1
        /\ \A i \in 1..Len(Stream) : Stream'[i] = Stream[i]
        /\ Stream'[Len(Stream) + 1] = m
    BY <1>s, <2>1
  <2>3. m.kind = "log" => NewestFirst(m.entries)
    BY <2>1 DEF Numbering, Backlog, Entry
  <2>4. ASSUME NEW p \in Packet, m = Entry(p), NEW i \in Nat, i = Len(Stream) + 1
        PROVE  Follows(i, p)'
    <3>1. ForwardPacket /\ p = Head(packetFeed)
      BY <2>1, <2>4 DEF Entry, Backlog
    <3>2. /\ packetFeed # <<>> /\ packetFeed \in Seq(Packet) /\ packetFeed' = Tail(packetFeed)
          /\ UNCHANGED <<mesh, nextId>>
      BY <3>1 DEF ForwardPacket, Types, FeedTypes, daemon
    <3>3. p \in Range(packetFeed) /\ \A q \in Range(packetFeed') : p < q
      <4>1. /\ Len(packetFeed) \in Nat \ {0} /\ p = packetFeed[1]
            /\ Len(packetFeed') = Len(packetFeed) - 1 /\ packetFeed' \in Seq(Packet)
            /\ \A j \in 1..Len(packetFeed') : packetFeed'[j] = packetFeed[j + 1]
        BY <3>1, <3>2
      <4>2. Range(packetFeed') = {packetFeed'[j] : j \in 1..Len(packetFeed')}
        BY <4>1, RangeEquality
      <4>3. \A j \in 1..Len(packetFeed') : p < packetFeed[j + 1]
        BY <4>1 DEF Numbering, Rising
      <4> QED BY <3>1, <3>2, <4>1, <4>2, <4>3, TailFacts
    <3>4. p < Upcoming /\ Upcoming' = Upcoming
      BY <3>2, <3>3 DEF Numbering, Upcoming
    <3>5. Due(p)'
      BY <3>3, <3>4 DEF Due
    <3>6. Precedes(Append(Stream, m), i, p)
      BY <1>s, <2>4, AppendTrail
    <3> QED BY <2>1, <3>5, <3>6 DEF Follows
  <2>5. \A i \in 1..Len(Stream), p \in Packet : Follows(i, p) => Follows(i, p)'
    BY <1>2, <1>s, FollowsStep
  <2>6. \A i \in 1..Len(Stream') : i \in 1..Len(Stream) \/ i = Len(Stream) + 1
    BY <1>s, <2>2
  <2>7. \A i \in 1..Len(Stream') : NewestFirst(Stream'[i].entries) \/ Stream'[i].kind # "log"
    BY <1>o, <2>2, <2>3, <2>6
  <2>8. \A i \in 1..Len(Stream'), p \in Packet : Stream'[i] = Entry(p) => Follows(i, p)'
    BY <1>o, <1>s, <2>2, <2>4, <2>5, <2>6
  <2> QED BY <1>w, <2>7, <2>8
<1>3. CASE Takes
  <2>1. Stream # <<>> /\ Stream' = Tail(Stream)
    BY <1>3 DEF Takes
  <2>2. \A i \in 1..Len(Stream') : Stream'[i] = Stream[i + 1] /\ i + 1 \in 1..Len(Stream)
    BY <1>s, <2>1, TailTrail
  <2>3. \A i \in 1..Len(Stream'), p \in Packet : Follows(i + 1, p) => Follows(i, p)'
    <3> SUFFICES ASSUME NEW i \in 1..Len(Stream'), NEW p \in Packet, Follows(i + 1, p)
                 PROVE  Follows(i, p)'
      OBVIOUS
    <3>1. i + 1 \in 0..Len(Stream) /\ i + 1 > 0 /\ (i + 1) - 1 = i
      BY <1>s, <2>2
    <3>2. Follows((i + 1) - 1, p)'
      BY <1>3, <3>1, FollowsStep
    <3> QED BY <3>1, <3>2
  <2> QED BY <1>o, <1>w, <2>2, <2>3
<1>4. CASE Cuts
  <2>1. PICK x \in Seq(UiEvent), m \in UiEvent :
          Stream = uiQueue \o x /\ m.kind \notin {"entry", "log"} /\ Stream' = Append(uiQueue, m)
    BY <1>4 DEF Cuts
  <2>2. /\ Len(Stream') = Len(uiQueue) + 1 /\ Len(Stream) >= Len(uiQueue)
        /\ \A i \in 1..Len(uiQueue) : Stream'[i] = Stream[i]
        /\ Stream'[Len(uiQueue) + 1] = m
    BY <1>s, <2>1, ConcatProperties, LenProperties
  <2>3. \A i \in 1..Len(uiQueue), p \in Packet : Follows(i, p) => Follows(i, p)'
    BY <1>4, <1>s, <2>2, FollowsStep
  <2>4. \A i \in 1..Len(Stream') :
          (i \in 1..Len(uiQueue) /\ i \in 1..Len(Stream)) \/ i = Len(uiQueue) + 1
    BY <1>s, <2>2
  <2>5. \A p \in Packet : m # Entry(p)
    BY <2>1 DEF Entry
  <2>6. \A i \in 1..Len(Stream') : NewestFirst(Stream'[i].entries) \/ Stream'[i].kind # "log"
    BY <1>o, <2>1, <2>2, <2>4
  <2>7. \A i \in 1..Len(Stream'), p \in Packet : Stream'[i] = Entry(p) => Follows(i, p)'
    BY <1>o, <2>2, <2>3, <2>4, <2>5
  <2> QED BY <1>w, <2>6, <2>7
<1> QED BY <1>1, <1>2, <1>3, <1>4, StreamStep

\* What is cut to a length keeps its first entries.
LEMMA FirstIs ==
  ASSUME NEW T, NEW s \in Seq(T), NEW n \in Nat
  PROVE  /\ Len(First(s, n)) = IF Len(s) <= n THEN Len(s) ELSE n
         /\ \A i \in 1..Len(First(s, n)) : First(s, n)[i] = s[i] /\ i \in 1..Len(s)
         /\ Len(s) \in Nat /\ First(s, n) \in Seq(T)
<1>1. Len(s) \in Nat /\ \A i \in 1..Len(s) : s[i] \in T
  BY LenProperties, ElementOfSeq
<1>2. CASE Len(s) <= n
  <2>1. First(s, n) = s
    BY <1>2, SubSeqFull DEF First
  <2> QED BY <1>1, <1>2, <2>1
<1>3. CASE ~(Len(s) <= n)
  <2>1. First(s, n) = SubSeq(s, 1, n)
    BY <1>3 DEF First
  <2>2. \A i \in 1..n : s[i] \in T
    BY <1>1, <1>3
  <2>3. Len(SubSeq(s, 1, n)) = (IF 1 <= n THEN n - 1 + 1 ELSE 0)
        /\ \A i \in 1..n-1+1 : SubSeq(s, 1, n)[i] = s[1 + i - 1]
    BY <2>2, SubSeqProperties
  <2>4. Len(SubSeq(s, 1, n)) = n /\ \A i \in 1..n : SubSeq(s, 1, n)[i] = s[i]
    BY <2>3
  <2> QED BY <1>1, <1>3, <2>1, <2>4, FirstFacts
<1> QED BY <1>2, <1>3

\* A packet before the others.
LEMMA PushIs ==
  ASSUME NEW T, NEW s \in Seq(T), NEW e \in T
  PROVE  /\ <<e>> \o s \in Seq(T) /\ Len(<<e>> \o s) = Len(s) + 1 /\ Len(s) \in Nat
         /\ (<<e>> \o s)[1] = e
         /\ \A i \in 1..Len(s) : (<<e>> \o s)[i + 1] = s[i]
<1>1. /\ <<e>> \in Seq(T) /\ Len(<<e>>) = 1 /\ <<e>>[1] = e /\ Len(s) \in Nat
  OBVIOUS
<1>2. /\ <<e>> \o s \in Seq(T) /\ Len(<<e>> \o s) = 1 + Len(s)
      /\ \A i \in 1..1 + Len(s) : (<<e>> \o s)[i] = IF i <= 1 THEN <<e>>[i] ELSE s[i - 1]
  BY <1>1, ConcatProperties
<1>3. \A i \in 1..Len(s) : i + 1 \in 1..1 + Len(s) /\ ~(i + 1 <= 1) /\ (i + 1) - 1 = i
  BY <1>1
<1> QED BY <1>1, <1>2, <1>3

\* Packets are pushed in order, and a backlog replaces the list.
LEMMA SeamedStep ==
  Types /\ Numbering /\ Adrift /\ InOrder /\ Seamed /\ [Next]_vars => Seamed'
<1> SUFFICES ASSUME Types, Numbering, Adrift, InOrder, Seamed, [Next]_vars PROVE Seamed'
  OBVIOUS
<1>s. /\ Stream \in Seq(UiEvent) /\ Len(Stream) \in Nat /\ uiQueue \in Seq(UiEvent)
      /\ Len(uiQueue) \in Nat /\ packets \in Seq(Packet) /\ Len(packets) \in Nat
      /\ Packet \subseteq Nat /\ MaxShown \in Nat \ {0}
  BY StreamType, LenProperties, Caps DEF Types, ScreenTypes, Packet
<1>1. PICK k \in 0..Len(packets) :
        Seam(packets, k) /\ \A i \in 1..k, p \in Packet : packets[i] = p => Follows(0, p)
  BY DEF Seamed
<1>2. ASSUME packets' = packets, \A p \in Packet : Follows(0, p) => Follows(0, p)' PROVE Seamed'
  BY <1>1, <1>2 DEF Seamed
<1>3. CASE Stays \/ Sends \/ Cuts
  <2>1. 0 \in 0..Len(Stream) /\ 0 <= Len(uiQueue)
    BY <1>s
  <2>2. \A p \in Packet : Follows(0, p) => Follows(0, p)'
    BY <1>3, <2>1, FollowsStep
  <2> QED BY <1>2, <1>3, <2>2 DEF Stays, Sends, Cuts
<1>4. CASE Takes
  <2> DEFINE m == Head(Stream)
  <2>1. /\ Stream # <<>> /\ 1 \in 1..Len(Stream) /\ m = Stream[1] /\ m \in UiEvent
        /\ 0 \in 0..Len(Stream)
    BY <1>4, <1>s, TailTrail, HeadTailProperties DEF Takes
  <2>2. m.kind # "log" => \A p \in Packet : Follows(0, p) => Follows(0, p)'
    BY <1>4, <2>1, FollowsStep
  <2>3. CASE m.kind \notin {"entry", "log"} /\ packets' = packets
    BY <1>2, <2>2, <2>3
  <2>4. CASE m.kind = "log" /\ packets' = First(m.entries, MaxShown)
    <3>1. m.entries \in Seq(Packet) /\ NewestFirst(m.entries)
      BY <2>1, <2>4, MessageFacts DEF InOrder
    <3>2. \A i \in 1..Len(packets') : packets'[i] = m.entries[i] /\ i \in 1..Len(m.entries)
      BY <1>s, <2>4, <3>1, FirstIs
    <3>3. Len(packets') \in Nat
      BY <1>s, <2>4, <3>1, FirstIs
    <3>4. Seam(packets', 0)
      BY <3>1, <3>2 DEF Seam, NewestFirst
    <3> QED BY <3>3, <3>4 DEF Seamed
  <2>5. CASE m.kind = "entry" /\ packets' = First(<<m.id>> \o packets, MaxShown)
    <3>1. PICK e \in Packet : m.id = e /\ m = Entry(e)
      BY <2>1, <2>5, MessageFacts DEF Entry, UiEvent, Message, Event
    <3> DEFINE a == <<e>> \o packets
    <3>2. /\ a \in Seq(Packet) /\ Len(a) = Len(packets) + 1 /\ a[1] = e
          /\ \A i \in 1..Len(packets) : a[i + 1] = packets[i]
      BY <1>s, <3>1, PushIs
    <3>3. /\ \A i \in 1..Len(packets') : packets'[i] = a[i] /\ i \in 1..Len(a)
          /\ Len(packets') = (IF Len(a) <= MaxShown THEN Len(a) ELSE MaxShown)
      <4>1. packets' = First(a, MaxShown)
        BY <2>5, <3>1
      <4> HIDE DEF a
      <4>2. /\ Len(First(a, MaxShown)) = IF Len(a) <= MaxShown THEN Len(a) ELSE MaxShown
            /\ \A i \in 1..Len(First(a, MaxShown)) : First(a, MaxShown)[i] = a[i] /\ i \in 1..Len(a)
        BY <1>s, <3>2, FirstIs
      <4> QED BY <4>1, <4>2
    <3> HIDE DEF a, m
    <3>4. Follows(1, e)
      BY <2>1, <3>1 DEF InOrder
    <3>5. Follows(0, e)'
      <4>1. 1 \in 0..Len(Stream) /\ 1 > 0 /\ 1 - 1 = 0
        BY <2>1
      <4>2. Follows(1 - 1, e)'
        BY <1>4, <3>1, <3>4, <4>1, FollowsStep
      <4> QED BY <4>1, <4>2
    <3>6. \A i \in 1..Len(packets) : packets[i] \in Packet
      BY <1>s, ElementOfSeq
    <3>7. \A i \in 1..k : packets[i] < e
      <4> SUFFICES ASSUME NEW i \in 1..k PROVE packets[i] < e
        OBVIOUS
      <4>1. packets[i] \in Packet /\ Precedes(Stream, 0, packets[i])
        <5>1. packets[i] \in Packet
          BY <1>s, <3>6
        <5>2. Follows(0, packets[i])
          BY <1>1, <5>1
        <5> QED BY <5>1, <5>2 DEF Follows
      <4>2. packets[i] < m.id
        BY <1>s, <2>1, <2>5, <4>1, TailTrail DEF m
      <4> QED BY <3>1, <4>2
    <3>8. \A i \in 1..k + 1 : i <= Len(a) =>
            (i = 1 /\ a[i] = e) \/ (i - 1 \in 1..k /\ a[i] = packets[i - 1])
      <4> SUFFICES ASSUME NEW i \in 1..k + 1, i # 1 PROVE i - 1 \in 1..k /\ a[i] = packets[i - 1]
        BY <3>2
      <4>1. i - 1 \in 1..k /\ i - 1 \in 1..Len(packets) /\ (i - 1) + 1 = i
        BY <1>s
      <4> QED BY <3>2, <4>1
    <3>9. \A i \in k+2..Len(a) : i - 1 \in k+1..Len(packets) /\ a[i] = packets[i - 1]
      <4> SUFFICES ASSUME NEW i \in k+2..Len(a) PROVE i - 1 \in k+1..Len(packets) /\ a[i] = packets[i - 1]
        OBVIOUS
      <4>1. i - 1 \in k+1..Len(packets) /\ i - 1 \in 1..Len(packets) /\ (i - 1) + 1 = i
        BY <1>s, <3>2
      <4> QED BY <3>2, <4>1
    <3> DEFINE h == IF k + 1 <= MaxShown THEN k + 1 ELSE MaxShown
    <3>10. h \in 0..Len(packets') /\ h <= k + 1 /\ (h = k + 1 \/ Len(packets') = h) /\ h \in Nat
      BY <1>s, <3>2, <3>3
    <3> HIDE DEF h
    <3>11. \A i, j \in 1..h : i < j => packets'[i] > packets'[j]
      <4> SUFFICES ASSUME NEW i \in 1..h, NEW j \in 1..h, i < j PROVE packets'[i] > packets'[j]
        OBVIOUS
      <4>1. /\ i \in 1..k+1 /\ j \in 1..k+1 /\ i \in 1..Len(packets') /\ j \in 1..Len(packets')
        BY <3>10
      <4>2. packets'[i] = a[i] /\ packets'[j] = a[j] /\ i <= Len(a) /\ j <= Len(a)
        BY <3>3, <4>1
      <4>3. j - 1 \in 1..k /\ a[j] = packets[j - 1]
        BY <3>8, <4>1, <4>2
      <4>4. CASE i = 1
        BY <1>s, <3>1, <3>6, <3>7, <3>8, <4>1, <4>2, <4>3, <4>4
      <4>5. CASE i # 1
        <5>1. i - 1 \in 1..k /\ a[i] = packets[i - 1]
          BY <3>8, <4>1, <4>2, <4>5
        <5>2. i - 1 < j - 1
          BY <4>1
        <5> QED BY <1>1, <4>2, <4>3, <5>1, <5>2 DEF Seam
      <4> QED BY <4>4, <4>5
    <3>12. \A i, j \in h+1..Len(packets') : i < j => packets'[i] > packets'[j]
      <4> SUFFICES ASSUME NEW i \in h+1..Len(packets'), NEW j \in h+1..Len(packets'), i < j
                   PROVE  packets'[i] > packets'[j]
        OBVIOUS
      <4>1. h = k + 1 /\ i \in 1..Len(packets') /\ j \in 1..Len(packets')
        BY <3>10
      <4>2. packets'[i] = a[i] /\ packets'[j] = a[j] /\ i \in k+2..Len(a) /\ j \in k+2..Len(a)
        BY <3>3, <4>1
      <4>3. /\ i - 1 \in k+1..Len(packets) /\ a[i] = packets[i - 1]
            /\ j - 1 \in k+1..Len(packets) /\ a[j] = packets[j - 1]
        BY <3>9, <4>2
      <4>4. i - 1 < j - 1
        BY <4>1
      <4> QED BY <1>1, <4>2, <4>3, <4>4 DEF Seam
    <3>13. ASSUME NEW i \in 1..h, NEW p \in Packet, packets'[i] = p PROVE Follows(0, p)'
      <4>1. i \in 1..k+1 /\ i \in 1..Len(packets')
        BY <3>10
      <4>2. packets'[i] = a[i] /\ i <= Len(a)
        BY <3>3, <4>1
      <4>3. CASE i = 1
        <5>1. p = e
          BY <3>2, <3>13, <4>2, <4>3
        <5> QED BY <3>5, <5>1
      <4>4. CASE i # 1
        <5>1. i - 1 \in 1..k /\ a[i] = packets[i - 1]
          BY <3>8, <4>1, <4>2, <4>4
        <5>2. Follows(0, p)
          BY <1>1, <3>13, <4>2, <5>1
        <5> QED BY <2>2, <2>5, <5>2
      <4> QED BY <4>3, <4>4
    <3> QED BY <3>10, <3>11, <3>12, <3>13 DEF Seamed, Seam
  <2> QED BY <1>4, <2>3, <2>4, <2>5 DEF Takes
<1> QED BY <1>3, <1>4, StreamStep

\* What a broadcast leaves in a receiver keeps its order.
LEMMA RisingNewest ==
  ASSUME NEW s \in Seq(Packet), NEW e \in Packet, NEW cap \in Nat, Rising(s), Packet \subseteq Nat,
         \A q \in Range(s) : q < e
  PROVE  Rising(Newest(Append(s, e), cap))
<1> DEFINE a == Append(s, e)
<1>1. /\ a \in Seq(Packet) /\ Len(a) = Len(s) + 1 /\ Len(s) \in Nat /\ a # <<>>
      /\ \A i \in 1..Len(s) : a[i] = s[i] /\ s[i] \in Range(s)
      /\ a[Len(s) + 1] = e
  BY RangeEquality
<1> HIDE DEF a
<1>2. Rising(a)
  <2> SUFFICES ASSUME NEW i \in 1..Len(a), NEW j \in 1..Len(a), i < j PROVE a[i] < a[j]
    BY DEF Rising
  <2>1. i \in 1..Len(s) /\ (j \in 1..Len(s) \/ j = Len(s) + 1)
    BY <1>1
  <2> QED BY <1>1, <2>1 DEF Rising
<1>3. Rising(Tail(a))
  <2>1. Len(Tail(a)) = Len(a) - 1 /\ \A i \in 1..Len(Tail(a)) : Tail(a)[i] = a[i + 1]
    BY <1>1, HeadTailProperties
  <2> SUFFICES ASSUME NEW i \in 1..Len(Tail(a)), NEW j \in 1..Len(Tail(a)), i < j
               PROVE  Tail(a)[i] < Tail(a)[j]
    BY DEF Rising
  <2>2. i + 1 \in 1..Len(a) /\ j + 1 \in 1..Len(a) /\ i + 1 < j + 1
    BY <1>1, <2>1
  <2>3. a[i + 1] < a[j + 1]
    BY <1>2, <2>2 DEF Rising
  <2> QED BY <2>1, <2>3
<1> QED BY <1>2, <1>3 DEF Newest, a

\* Both the log and the receiver are in the order of recording.
LEMMA NumberingStep == Types /\ Numbering /\ [Next]_vars => Numbering'
<1> SUFFICES ASSUME Types, Numbering, [Next]_vars PROVE Numbering'
  OBVIOUS
<1> USE DEF Types
<1>t. /\ packetFeed \in Seq(Packet) /\ log \in Seq(Packet) /\ Len(log) \in Nat
      /\ nextId \in Nat /\ Upcoming \in Int /\ Packet \subseteq Nat
      /\ LogCap \in Nat \ {0} /\ EventCap \in Nat \ {0} /\ Len(packetFeed) <= EventCap
  BY NumberTypes, Caps, LenProperties DEF DaemonTypes, FeedTypes
\* What leaves the packets alone.
<1>f. ASSUME UNCHANGED <<log, nextId, packetFeed>>, Upcoming' = Upcoming,
             mesh' = "packet" <=> mesh = "packet", srv' = "none" => srv = "none"
      PROVE  Numbering'
  BY <1>f DEF Numbering
<1>1. ASSUME NEW change \in Change, NEW mine \in BOOLEAN, BeginChange(change, mine)
      PROVE  Numbering'
  BY <1>1, <1>f DEF BeginChange, Upcoming, Change
<1>2. CASE EndChange
  BY <1>2, <1>f DEF EndChange, Awaited, Upcoming, Change
<1>3. CASE FailCommand
  BY <1>3, <1>f DEF FailCommand, Awaited, Upcoming, feeds
<1>4. CASE BeginPacket
  <2>1. /\ mesh = "idle" /\ nextId \in Packet /\ nextId' = nextId + 1 /\ mesh' = "packet"
        /\ log' = First(<<nextId>> \o log, LogCap) /\ UNCHANGED <<srv, packetFeed>>
    BY <1>4, <1>t, Caps DEF BeginPacket, handler, feeds, Packet, DaemonTypes
  <2> DEFINE a == <<nextId>> \o log
  <2>2. /\ a \in Seq(Packet) /\ Len(a) = Len(log) + 1 /\ a[1] = nextId
        /\ \A i \in 1..Len(log) : a[i + 1] = log[i]
    BY <1>t, <2>1, PushIs
  <2>3. /\ \A i \in 1..Len(log') : log'[i] = a[i] /\ i \in 1..Len(a)
        /\ Len(log') = (IF Len(a) <= LogCap THEN Len(a) ELSE LogCap)
    <3>1. log' = First(a, LogCap)
      BY <2>1
    <3> HIDE DEF a
    <3>2. /\ Len(First(a, LogCap)) = IF Len(a) <= LogCap THEN Len(a) ELSE LogCap
          /\ \A i \in 1..Len(First(a, LogCap)) : First(a, LogCap)[i] = a[i] /\ i \in 1..Len(a)
      BY <1>t, <2>2, FirstIs
    <3> QED BY <3>1, <3>2
  <2> HIDE DEF a
  <2>4. \A i \in 2..Len(a) : i - 1 \in 1..Len(log) /\ a[i] = log[i - 1]
    <3> SUFFICES ASSUME NEW i \in 2..Len(a) PROVE i - 1 \in 1..Len(log) /\ a[i] = log[i - 1]
      OBVIOUS
    <3>1. i - 1 \in 1..Len(log) /\ (i - 1) + 1 = i
      BY <1>t, <2>2
    <3> QED BY <2>2, <3>1
  <2>5. Upcoming' = Upcoming /\ Upcoming = nextId
    BY <1>t, <2>1 DEF Upcoming
  <2>6. NewestFirst(log')
    <3> SUFFICES ASSUME NEW i \in 1..Len(log'), NEW j \in 1..Len(log'), i < j
                 PROVE  log'[i] > log'[j]
      BY DEF NewestFirst
    <3>1. log'[i] = a[i] /\ log'[j] = a[j] /\ i \in 1..Len(a) /\ j \in 2..Len(a)
      BY <2>3
    <3>2. j - 1 \in 1..Len(log) /\ a[j] = log[j - 1]
      BY <2>4, <3>1
    <3>3. CASE i = 1
      <4>1. log[j - 1] < nextId /\ log[j - 1] \in Packet
        BY <1>t, <3>2, ElementOfSeq DEF Numbering
      <4> QED BY <1>t, <2>2, <3>1, <3>2, <3>3, <4>1
    <3>4. CASE i # 1
      <4>1. i - 1 \in 1..Len(log) /\ a[i] = log[i - 1] /\ i - 1 < j - 1
        BY <2>4, <3>1, <3>4
      <4> QED BY <3>1, <3>2, <4>1 DEF Numbering, NewestFirst
    <3> QED BY <3>3, <3>4
  <2>7. ASSUME NEW i \in 1..Len(log') PROVE log'[i] < nextId'
    <3>1. log'[i] = a[i] /\ i \in 1..Len(a)
      BY <2>3
    <3>2. CASE i = 1
      BY <1>t, <2>1, <2>2, <3>1, <3>2
    <3>3. CASE i # 1
      <4>1. i - 1 \in 1..Len(log) /\ a[i] = log[i - 1]
        BY <2>4, <3>1, <3>3
      <4>2. log[i - 1] < nextId /\ log[i - 1] \in Packet
        BY <1>t, <4>1, ElementOfSeq DEF Numbering
      <4>3. log[i - 1] \in Nat
        BY <1>t, <4>2
      <4>4. log[i - 1] < nextId + 1
        BY <1>t, <4>2, <4>3
      <4> QED BY <2>1, <3>1, <4>1, <4>4
    <3> QED BY <3>2, <3>3
  <2>8. log'[1] = Upcoming'
    <3>1. 1 \in 1..Len(log')
      BY <1>t, <2>2, <2>3
    <3> QED BY <2>2, <2>3, <2>5, <3>1
  <2> QED BY <2>1, <2>5, <2>6, <2>7, <2>8 DEF Numbering
<1>5. CASE EndPacket
  <2>1. /\ mesh = "packet" /\ mesh' = "idle" /\ UNCHANGED <<log, nextId, srv>>
        /\ log # <<>> /\ Head(log) = Upcoming /\ Head(log) \in Packet
    BY <1>5, <1>t, TailFacts DEF EndPacket, Halfway, Numbering
  <2>2. Upcoming' = Upcoming + 1
    BY <1>t, <2>1 DEF Upcoming
  <2>3. CASE srv = "none"
    <3>1. packetFeed = <<>> /\ packetFeed' = <<>>
      BY <1>5, <2>3 DEF EndPacket, Subscribed, Numbering
    <3> QED BY <2>1, <3>1, EmptyFacts DEF Numbering, Rising
  <2>4. CASE srv # "none"
    <3>1. packetFeed' = Newest(Append(packetFeed, Head(log)), EventCap)
      BY <1>5, <2>4 DEF EndPacket, Subscribed
    <3>2. Rising(packetFeed')
      BY <1>t, <2>1, <3>1, RisingNewest DEF Numbering
    <3>3. Range(packetFeed') \subseteq Range(packetFeed) \cup {Head(log)}
      BY <1>t, <2>1, <3>1, NewestFacts
    <3>4. Range(packetFeed) \subseteq Packet
      BY NumberTypes
    <3>5. \A q \in Range(packetFeed') : q < Upcoming'
      <4> SUFFICES ASSUME NEW q \in Range(packetFeed') PROVE q < Upcoming + 1
        BY <2>2
      <4>1. q = Upcoming \/ (q \in Packet /\ q < Upcoming)
        BY <2>1, <3>3, <3>4 DEF Numbering
      <4>2. Upcoming \in Int
        BY <1>t
      <4>3. q \in Packet => q \in Int
        BY DEF Packet
      <4> QED BY <4>1, <4>2, <4>3
    <3> QED BY <2>1, <2>4, <3>2, <3>5 DEF Numbering
  <2> QED BY <2>3, <2>4
<1>6. CASE Stop
  <2>1. log' = <<>> /\ packetFeed' = <<>> /\ mesh' = "idle"
    BY <1>6 DEF Stop
  <2> QED BY <2>1, EmptyFacts DEF Numbering, NewestFirst, Rising
<1>7. CASE Start \/ DispatchCommand \/ GetSlot \/ NodeLeaves \/ NodeReturns
  BY <1>7, <1>f DEF Start, DispatchCommand, GetSlot, NodeLeaves, NodeReturns, Upcoming, handler, feeds
<1>8. CASE ForwardPacket
  <2>1. packetFeed # <<>> /\ packetFeed' = Tail(packetFeed) /\ UNCHANGED <<log, nextId, mesh, srv>>
        /\ srv = "serving"
    BY <1>8 DEF ForwardPacket, daemon
  <2>2. Upcoming' = Upcoming
    BY <2>1 DEF Upcoming
  <2>3. Range(packetFeed') \subseteq Range(packetFeed)
    BY <1>t, <2>1, TailFacts
  <2>4. Len(packetFeed') = Len(packetFeed) - 1 /\ \A i \in 1..Len(packetFeed') : packetFeed'[i] = packetFeed[i + 1]
    BY <1>t, <2>1, HeadTailProperties
  <2>5. Rising(packetFeed')
    <3> SUFFICES ASSUME NEW i \in 1..Len(packetFeed'), NEW j \in 1..Len(packetFeed'), i < j
                 PROVE  packetFeed'[i] < packetFeed'[j]
      BY DEF Rising
    <3>1. Len(packetFeed) \in Nat
      BY <1>t, LenProperties
    <3>2. i + 1 \in 1..Len(packetFeed) /\ j + 1 \in 1..Len(packetFeed) /\ i + 1 < j + 1
      BY <2>4, <3>1
    <3> QED BY <2>4, <3>2 DEF Numbering, Rising
  <2> QED BY <2>1, <2>2, <2>3, <2>5 DEF Numbering
<1>9. CASE SendSnapshot \/ SendBacklog \/ ForwardEvent \/ AnswerRefresh \/ GiveUp \/ SendError
  BY <1>9, <1>f DEF SendSnapshot, SendBacklog, ForwardEvent, AnswerRefresh, GiveUp, SendError,
     Upcoming, daemon, handler, feeds
<1>10. CASE Connect
  <2>1. packetFeed' = <<>> /\ UNCHANGED <<log, nextId, mesh>>
    BY <1>10 DEF Connect, daemon
  <2>2. Upcoming' = Upcoming
    BY <2>1 DEF Upcoming
  <2> QED BY <2>1, <2>2, EmptyFacts DEF Numbering, Rising
<1>11. CASE IpcStep /\ ~Connect
  BY <1>11, <1>f DEF IpcStep, ConnectFails, TellLink, Deliver, DeliverBlocks, SendCommand, SeeEnd,
     Upcoming, daemon, handler, feeds
<1>12. CASE UiStep \/ UserStep \/ UNCHANGED vars
  BY <1>12, <1>f DEF UiStep, Unblock, ApplyLink, ApplySnapshot, ApplyEvent, ApplyBacklog, ApplyEntry,
     ApplyError, UserStep, Key, vars, Upcoming, daemon, handler, feeds
<1> QED BY <1>1, <1>2, <1>3, <1>4, <1>5, <1>6, <1>7, <1>8, <1>9, <1>10, <1>11, <1>12,
           StepCases DEF DaemonStep, OtherServerStep

-----------------------------------------------------------------------------
(* No packet is lost.                                                      *)

\* A message that brings p, as the sequence it is in changes.
LEMMA PendingFacts ==
  ASSUME NEW s \in Seq(UiEvent), NEW p
  PROVE  /\ \A m \in UiEvent :
              /\ Pending(s, p) /\ m.kind # "log" => Pending(Append(s, m), p)
              /\ Carries(m, p) => Pending(Append(s, m), p)
              /\ Silent(s, 0) /\ m.kind # "log" => Silent(Append(s, m), 0)
         /\ s # <<>> => /\ Pending(s, p) => Pending(Tail(s), p) \/ (Carries(Head(s), p) /\ Silent(Tail(s), 0))
                        /\ Silent(s, 0) => Silent(Tail(s), 0) /\ Head(s).kind # "log"
<1>0. Len(s) \in Nat
  BY LenProperties
<1>1. ASSUME NEW m \in UiEvent
      PROVE  /\ Pending(s, p) /\ m.kind # "log" => Pending(Append(s, m), p)
             /\ Carries(m, p) => Pending(Append(s, m), p)
             /\ Silent(s, 0) /\ m.kind # "log" => Silent(Append(s, m), 0)
  <2>0. Len(Append(s, m)) = Len(s) + 1 /\ Append(s, m)[Len(s) + 1] = m
    BY AppendProperties
  <2>1. ASSUME Pending(s, p), m.kind # "log" PROVE Pending(Append(s, m), p)
    <3>1. PICK j \in 1..Len(s) : Carries(s[j], p) /\ Silent(s, j)
      BY <2>1 DEF Pending
    <3>2. Append(s, m)[j] = s[j] /\ Silent(Append(s, m), j) /\ j \in 1..Len(Append(s, m))
      BY <1>0, <2>0, <2>1, <3>1, AppendTrail
    <3> QED BY <3>1, <3>2 DEF Pending
  <2>2. ASSUME Carries(m, p) PROVE Pending(Append(s, m), p)
    <3>1. Silent(Append(s, m), Len(s) + 1) /\ Len(s) + 1 \in 1..Len(Append(s, m))
      BY <1>0, <2>0, AppendTrail
    <3> QED BY <2>0, <2>2, <3>1 DEF Pending
  <2>3. Silent(s, 0) /\ m.kind # "log" => Silent(Append(s, m), 0)
    BY <1>0, AppendTrail
  <2> QED BY <2>1, <2>2, <2>3
<1>2. ASSUME s # <<>>
      PROVE  /\ Pending(s, p) => Pending(Tail(s), p) \/ (Carries(Head(s), p) /\ Silent(Tail(s), 0))
             /\ Silent(s, 0) => Silent(Tail(s), 0) /\ Head(s).kind # "log"
  <2>1. /\ \A i \in 1..Len(s) : Silent(s, i) <=> Silent(Tail(s), i - 1)
        /\ Len(Tail(s)) = Len(s) - 1 /\ 1 \in 1..Len(s) /\ Head(s) = s[1]
        /\ \A i \in 1..Len(Tail(s)) : Tail(s)[i] = s[i + 1]
        /\ Head(s).kind # "log" => (Silent(s, 0) <=> Silent(Tail(s), 0))
    BY <1>2, TailTrail
  <2>2. ASSUME Pending(s, p) PROVE Pending(Tail(s), p) \/ (Carries(Head(s), p) /\ Silent(Tail(s), 0))
    <3>1. PICK j \in 1..Len(s) : Carries(s[j], p) /\ Silent(s, j)
      BY <2>2 DEF Pending
    <3>2. CASE j = 1
      BY <2>1, <3>1, <3>2
    <3>3. CASE j # 1
      <4>1. j - 1 \in 1..Len(Tail(s)) /\ (j - 1) + 1 = j
        BY <1>0, <2>1, <3>3
      <4>2. Tail(s)[j - 1] = s[j]
        BY <2>1, <4>1
      <4>3. Carries(Tail(s)[j - 1], p) /\ Silent(Tail(s), j - 1)
        BY <2>1, <3>1, <4>2
      <4>4. \E l \in 1..Len(Tail(s)) : Carries(Tail(s)[l], p) /\ Silent(Tail(s), l)
        BY <4>1, <4>3
      <4> QED BY <4>4 DEF Pending
    <3> QED BY <3>2, <3>3
  <2>3. Silent(s, 0) => Head(s).kind # "log"
    BY <2>1 DEF Silent
  <2> QED BY <2>1, <2>2, <2>3
<1> QED BY <1>1, <1>2

\* What has been announced stays in the receiver until it is forwarded, unless
\* the receiver lags.
LEMMA FeedStep ==
  ASSUME Types, Adrift, [Next]_vars, ~missedPacket', srv # "none", srv' # "none"
  PROVE  /\ ~missedPacket
         /\ \A p \in Range(packetFeed) :
              p \in Range(packetFeed') \/ (ForwardPacket /\ p = Head(packetFeed))
<1> USE DEF Types
<1>f. ASSUME UNCHANGED <<packetFeed, missedPacket>>
      PROVE  ~missedPacket /\ Range(packetFeed) \subseteq Range(packetFeed')
  BY <1>f
<1>1. CASE EndPacket
  <2>1. /\ packetFeed' = Newest(Append(packetFeed, Head(log)), EventCap)
        /\ missedPacket' = (missedPacket \/ Len(packetFeed) = EventCap)
    BY <1>1 DEF EndPacket, Subscribed
  <2>2. Head(log) \in Packet
    BY <1>1, TailFacts DEF EndPacket, DaemonTypes, Halfway
  <2>3. Range(packetFeed') = Range(packetFeed) \cup {Head(log)}
    BY <2>1, <2>2, NewestFacts, Caps DEF FeedTypes
  <2> QED BY <2>1, <2>3
<1>2. CASE ForwardPacket
  <2>1. packetFeed # <<>> /\ packetFeed' = Tail(packetFeed) /\ UNCHANGED missedPacket
    BY <1>2 DEF ForwardPacket
  <2> QED BY <1>2, <2>1, TailFacts DEF FeedTypes
<1>3. CASE Stop \/ Connect
  BY <1>3 DEF Stop, Connect, Adrift
<1>4. CASE DaemonStep /\ ~EndPacket /\ ~Stop
  <2>1. UNCHANGED <<packetFeed, missedPacket>>
    BY <1>4 DEF DaemonStep, BeginChange, EndChange, FailCommand, BeginPacket, Start, DispatchCommand, GetSlot, NodeLeaves, NodeReturns,
       handler, feeds
  <2> QED BY <1>f, <2>1
<1>5. CASE OtherServerStep /\ ~ForwardPacket
  <2>1. UNCHANGED <<packetFeed, missedPacket>>
    BY <1>5 DEF OtherServerStep, SendSnapshot, SendBacklog, ForwardEvent, AnswerRefresh, GiveUp,
       SendError, handler, feeds
  <2> QED BY <1>f, <2>1
<1>6. CASE IpcStep /\ ~Connect
  <2>1. UNCHANGED <<packetFeed, missedPacket>>
    BY <1>6 DEF IpcStep, ConnectFails, TellLink, Deliver, DeliverBlocks, SendCommand, SeeEnd,
       handler, feeds
  <2> QED BY <1>f, <2>1
<1>7. CASE UiStep \/ UserStep \/ UNCHANGED vars
  <2>1. UNCHANGED <<packetFeed, missedPacket>>
    BY <1>7 DEF UiStep, Unblock, ApplyLink, ApplySnapshot, ApplyEvent, ApplyBacklog, ApplyEntry,
       ApplyError, UserStep, Key, vars, handler, feeds
  <2> QED BY <1>f, <2>1
<1> QED BY <1>1, <1>2, <1>3, <1>4, <1>5, <1>6, <1>7, StepCases

\* A packet of the log goes on reaching the UI.
LEMMA ReachesStep ==
  ASSUME Types, Adrift, [Next]_vars, ~missedPacket', srv # "none", srv' # "none",
         NEW p \in Packet, Reaches(p), SendBacklog => p \in Range(log)
  PROVE  Reaches(p)'
<1> USE DEF Types
<1>s. /\ Stream \in Seq(UiEvent) /\ packets \in Seq(Packet) /\ Len(packets) \in Nat
      /\ MaxShown \in Nat \ {0} /\ Len(packets) <= MaxShown
  BY StreamType, Caps, LenProperties DEF ScreenTypes
<1>1. CASE srv \in {"subscribed", "snapped"}
  <2>1. CASE SendBacklog
    <3>1. Stream' = Append(Stream, Backlog(log)) /\ Backlog(log) \in UiEvent
      <4>1. Send(Backlog(log)) /\ UNCHANGED client
        BY <2>1 DEF SendBacklog
      <4>2. Backlog(log) \in UiEvent
        BY MessageFacts DEF DaemonTypes
      <4> QED BY <4>1, <4>2, StreamSends DEF client
    <3>2. Carries(Backlog(log), p)
      BY <2>1 DEF Carries, Backlog
    <3>3. Pending(Stream', p)
      BY <1>s, <3>1, <3>2, PendingFacts
    <3> QED BY <3>3 DEF Reaches
  <2>2. CASE ~SendBacklog
    <3>1. srv' \in {"subscribed", "snapped"}
      BY <1>1, <2>2, StepCases DEF DaemonStep, BeginChange, EndChange, FailCommand, Awaited, BeginPacket,
         EndPacket, Stop, Start, DispatchCommand, GetSlot, NodeLeaves, NodeReturns, OtherServerStep, SendSnapshot, ForwardEvent,
         ForwardPacket, AnswerRefresh, GiveUp, SendError, IpcStep, Connect, ConnectFails, TellLink,
         Deliver, DeliverBlocks, SendCommand, SeeEnd, UiStep, Unblock, ApplyLink, ApplySnapshot,
         ApplyEvent, ApplyBacklog, ApplyEntry, ApplyError, UserStep, Key, vars, handler
    <3> QED BY <3>1 DEF Reaches
  <2> QED BY <2>1, <2>2
<1>n. CASE SendBacklog
  BY <1>1, <1>n, HandlerFrame
<1>2. CASE p \in Range(packetFeed) /\ ~SendBacklog
  <2>1. CASE p \in Range(packetFeed')
    BY <2>1 DEF Reaches
  <2>2. CASE ForwardPacket /\ p = Head(packetFeed)
    <3>1. Send(Entry(p)) /\ UNCHANGED client
      BY <2>2 DEF ForwardPacket
    <3>2. Entry(p) \in UiEvent /\ Carries(Entry(p), p)
      BY MessageFacts DEF Carries, Entry
    <3>3. Stream' = Append(Stream, Entry(p))
      BY <3>1, <3>2, StreamSends DEF client
    <3>4. Pending(Stream', p)
      BY <1>s, <3>2, <3>3, PendingFacts
    <3> QED BY <3>4 DEF Reaches
  <2> QED BY <1>2, <2>1, <2>2, FeedStep
<1>3. CASE Pending(Stream, p) /\ ~SendBacklog
  <2>1. CASE Stays
    BY <1>3, <2>1 DEF Stays, Reaches
  <2>2. CASE Sends
    <3>1. PICK m \in UiEvent : Stream' = Append(Stream, m) /\ m.kind # "log"
      BY <1>3, <2>2 DEF Sends, Entry
    <3>2. Pending(Stream', p)
      BY <1>s, <1>3, <3>1, PendingFacts
    <3> QED BY <3>2 DEF Reaches
  <2>3. CASE Takes
    <3>1. Stream # <<>> /\ Stream' = Tail(Stream) /\ Head(Stream) \in UiEvent
      BY <1>s, <2>3, HeadTailProperties DEF Takes
    <3>2. CASE Pending(Stream', p)
      BY <3>2 DEF Reaches
    <3>3. CASE Carries(Head(Stream), p) /\ Silent(Stream', 0)
      <4> DEFINE m == Head(Stream)
      <4>1. Len(packets') = MaxShown \/ p \in Range(packets')
        <5>1. CASE m.kind = "log"
          <6>1. m.entries \in Seq(Packet) /\ p \in Range(m.entries) /\ packets' = First(m.entries, MaxShown)
            BY <2>3, <3>1, <3>3, <5>1, MessageFacts DEF Carries, Takes
          <6> DEFINE e == m.entries
          <6> HIDE DEF m
          <6>2. /\ Len(packets') = (IF Len(e) <= MaxShown THEN Len(e) ELSE MaxShown)
                /\ \A i \in 1..Len(packets') : packets'[i] = e[i]
                /\ packets' \in Seq(Packet)
            BY <1>s, <6>1, FirstIs
          <6>3. PICK i \in 1..Len(e) : e[i] = p
            BY <6>1, RangeEquality
          <6>4. CASE Len(e) <= MaxShown
            <7>1. i \in 1..Len(packets') /\ packets'[i] = p
              BY <6>2, <6>3, <6>4
            <7> QED BY <6>2, <7>1, RangeEquality
          <6> QED BY <6>2, <6>4
        <5>2. CASE m.kind = "entry"
          <6>1. m.id = p /\ packets' = First(<<p>> \o packets, MaxShown)
            BY <2>3, <3>3, <5>2 DEF Carries, Takes
          <6> DEFINE a == <<p>> \o packets
          <6>2. a \in Seq(Packet) /\ Len(a) = Len(packets) + 1 /\ a[1] = p
            BY <1>s, PushIs
          <6>3. /\ Len(packets') = (IF Len(a) <= MaxShown THEN Len(a) ELSE MaxShown)
                /\ \A i \in 1..Len(packets') : packets'[i] = a[i]
                /\ packets' \in Seq(Packet)
            <7> HIDE DEF a
            <7>1. /\ Len(First(a, MaxShown)) = IF Len(a) <= MaxShown THEN Len(a) ELSE MaxShown
                  /\ \A i \in 1..Len(First(a, MaxShown)) : First(a, MaxShown)[i] = a[i]
                  /\ First(a, MaxShown) \in Seq(Packet)
              BY <1>s, <6>2, FirstIs
            <7>2. packets' = First(a, MaxShown)
              BY <6>1 DEF a
            <7> QED BY <7>1, <7>2
          <6>4. 1 \in 1..Len(packets') /\ packets'[1] = p
            BY <1>s, <6>2, <6>3
          <6> QED BY <6>3, <6>4, RangeEquality
        <5> QED BY <3>3, <5>1, <5>2 DEF Carries
      <4> QED BY <3>3, <4>1 DEF Reaches
    <3> QED BY <1>s, <1>3, <3>1, <3>2, <3>3, PendingFacts
  <2>4. CASE Cuts
    BY <2>4 DEF Cuts, Reaches
  <2> QED BY <2>1, <2>2, <2>3, <2>4, StreamStep
<1>4. CASE Silent(Stream, 0) /\ (Len(packets) = MaxShown \/ p \in Range(packets)) /\ ~SendBacklog
  <2>1. CASE Stays
    BY <1>4, <2>1 DEF Stays, Reaches
  <2>2. CASE Sends
    <3>1. PICK m \in UiEvent : Stream' = Append(Stream, m) /\ m.kind # "log" /\ packets' = packets
      BY <1>4, <2>2 DEF Sends, Entry
    <3>2. Silent(Stream', 0)
      BY <1>s, <1>4, <3>1, PendingFacts
    <3> QED BY <1>4, <3>1, <3>2 DEF Reaches
  <2>3. CASE Takes
    <3>1. /\ Stream # <<>> /\ Stream' = Tail(Stream) /\ Head(Stream) \in UiEvent
          /\ Silent(Stream', 0) /\ Head(Stream).kind # "log"
      BY <1>s, <1>4, <2>3, HeadTailProperties, PendingFacts DEF Takes
    <3>2. CASE packets' = packets
      BY <1>4, <3>1, <3>2 DEF Reaches
    <3>3. CASE Head(Stream).kind = "entry" /\ packets' = First(<<Head(Stream).id>> \o packets, MaxShown)
      <4>1. PICK e \in Packet : packets' = First(<<e>> \o packets, MaxShown)
        BY <3>1, <3>3, MessageFacts
      <4> DEFINE a == <<e>> \o packets
      <4>2. /\ a \in Seq(Packet) /\ Len(a) = Len(packets) + 1
            /\ \A i \in 1..Len(packets) : a[i + 1] = packets[i]
        BY <1>s, PushIs
      <4>3. /\ Len(packets') = (IF Len(a) <= MaxShown THEN Len(a) ELSE MaxShown)
            /\ \A i \in 1..Len(packets') : packets'[i] = a[i]
            /\ packets' \in Seq(Packet)
        <5>1. packets' = First(a, MaxShown)
          BY <4>1
        <5> HIDE DEF a
        <5>2. /\ Len(First(a, MaxShown)) = IF Len(a) <= MaxShown THEN Len(a) ELSE MaxShown
              /\ \A i \in 1..Len(First(a, MaxShown)) : First(a, MaxShown)[i] = a[i]
              /\ First(a, MaxShown) \in Seq(Packet)
          BY <1>s, <4>2, FirstIs
        <5> QED BY <5>1, <5>2
      <4> HIDE DEF a
      <4>4. CASE Len(a) <= MaxShown /\ p \in Range(packets)
        <5>1. PICK i \in 1..Len(packets) : packets[i] = p
          BY <1>s, <4>4, RangeEquality
        <5>2. i + 1 \in 1..Len(packets') /\ packets'[i + 1] = p
          BY <1>s, <4>2, <4>3, <4>4, <5>1
        <5>3. p \in Range(packets')
          BY <4>3, <5>2, RangeEquality
        <5> QED BY <3>1, <5>3 DEF Reaches
      <4>5. CASE ~(Len(a) <= MaxShown)
        BY <3>1, <4>3, <4>5 DEF Reaches
      <4>6. CASE Len(a) <= MaxShown /\ Len(packets) = MaxShown
        BY <1>s, <4>2, <4>6
      <4> QED BY <1>4, <4>4, <4>5, <4>6
    <3> QED BY <2>3, <3>1, <3>2, <3>3 DEF Takes
  <2>4. CASE Cuts
    BY <2>4 DEF Cuts, Reaches
  <2> QED BY <2>1, <2>2, <2>3, <2>4, StreamStep
<1> QED BY <1>1, <1>n, <1>2, <1>3, <1>4 DEF Reaches

LEMMA KeptStep == Types /\ Numbering /\ Adrift /\ Kept /\ [Next]_vars => Kept'
<1> SUFFICES ASSUME Types, Numbering, Adrift, Kept, [Next]_vars, ~missedPacket', srv' # "none"
             PROVE  Kept'
  BY DEF Kept
<1> USE DEF Types
<1>t. /\ log \in Seq(Packet) /\ Len(log) \in Nat /\ log' \in Seq(Packet)
      /\ \A i \in 1..Len(log) : log[i] \in Packet
  BY TypesStep, LenProperties, ElementOfSeq DEF DaemonTypes
<1> SUFFICES \A i \in 1..Len(log'), p \in Packet :
               log'[i] = p => (mesh' = "packet" /\ i = 1) \/ Reaches(p)'
  BY <1>t, ElementOfSeq DEF Kept, Reaches
\* A new connection will have all of the log.
<1>1. CASE srv = "none"
  <2>1. srv' = "subscribed"
    BY <1>1, StepCases DEF DaemonStep, BeginChange, EndChange, FailCommand, Awaited, BeginPacket,
       EndPacket, Stop, Start, DispatchCommand, GetSlot, NodeLeaves, NodeReturns, OtherServerStep, SendSnapshot, SendBacklog, ForwardEvent,
       ForwardPacket, AnswerRefresh, GiveUp, SendError, IpcStep, Connect, ConnectFails, TellLink,
       Deliver, DeliverBlocks, SendCommand, SeeEnd, UiStep, Unblock, ApplyLink, ApplySnapshot,
       ApplyEvent, ApplyBacklog, ApplyEntry, ApplyError, UserStep, Key, vars, handler
  <2> QED BY <2>1 DEF Reaches
<1>2. CASE srv # "none"
  <2>1. ~missedPacket
    BY <1>2, FeedStep
  <2>2. \A i \in 1..Len(log) : (mesh = "packet" /\ i = 1) \/ Reaches(log[i])
    BY <1>2, <2>1 DEF Kept
  <2>3. ASSUME NEW p \in Packet, Reaches(p), p \in Range(log) PROVE Reaches(p)'
    BY <1>2, <2>3, ReachesStep
  <2>4. \A i \in 1..Len(log) : log[i] \in Range(log)
    BY <1>t, RangeEquality
  <2>5. CASE UNCHANGED log /\ (mesh = "packet" => mesh' = "packet")
    BY <1>t, <2>2, <2>3, <2>4, <2>5
  <2>6. CASE BeginPacket
    <3>1. /\ mesh = "idle" /\ nextId \in Packet /\ mesh' = "packet"
          /\ log' = First(<<nextId>> \o log, LogCap)
      BY <2>6, Caps DEF BeginPacket, Packet, DaemonTypes
    <3> DEFINE a == <<nextId>> \o log
    <3>2. /\ a \in Seq(Packet) /\ Len(a) = Len(log) + 1
          /\ \A i \in 1..Len(log) : a[i + 1] = log[i]
      BY <1>t, <3>1, PushIs
    <3>3. \A i \in 1..Len(log') : log'[i] = a[i] /\ i \in 1..Len(a)
      BY <3>1, <3>2, FirstIs, Caps
    <3> HIDE DEF a
    <3> SUFFICES ASSUME NEW i \in 1..Len(log'), NEW p \in Packet, log'[i] = p, i # 1
                 PROVE  Reaches(p)'
      BY <3>1
    <3>4. i - 1 \in 1..Len(log) /\ (i - 1) + 1 = i
      BY <1>t, <3>2, <3>3
    <3>5. p = log[i - 1]
      BY <3>2, <3>3, <3>4
    <3>6. Reaches(p) /\ p \in Range(log)
      BY <2>2, <2>4, <3>1, <3>4, <3>5
    <3> QED BY <2>3, <3>6
  <2>7. CASE EndPacket
    <3>1. /\ mesh = "packet" /\ log # <<>> /\ Head(log) \in Packet /\ Head(log) = log[1]
          /\ UNCHANGED log
          /\ packetFeed' = Newest(Append(packetFeed, Head(log)), EventCap)
      BY <1>2, <1>t, <2>7, TailFacts DEF EndPacket, Halfway, Subscribed
    <3>2. log[1] \in Range(packetFeed')
      BY <3>1, NewestFacts, Caps DEF FeedTypes
    <3> SUFFICES ASSUME NEW i \in 1..Len(log), NEW p \in Packet, log[i] = p
                 PROVE  Reaches(p)'
      BY <3>1
    <3>3. CASE i = 1
      BY <3>2, <3>3 DEF Reaches
    <3>4. CASE i # 1
      BY <2>2, <2>3, <2>4, <3>4
    <3> QED BY <3>3, <3>4
  <2>8. CASE Stop
    BY <2>8 DEF Stop
  <2>9. CASE ~BeginPacket /\ ~EndPacket /\ ~Stop
    <3>1. UNCHANGED log /\ (mesh = "packet" => mesh' = "packet")
      <4>1. CASE DaemonStep
        BY <2>9, <4>1 DEF DaemonStep, BeginChange, EndChange, FailCommand, Start, DispatchCommand, GetSlot, NodeLeaves, NodeReturns, Change
      <4> QED BY <4>1, StepCases, DaemonFrame
    <3> QED BY <2>5, <3>1
  <2> QED BY <2>6, <2>7, <2>8, <2>9
<1> QED BY <1>1, <1>2

LEMMA InitPackets == Init => PacketInv
<1> SUFFICES ASSUME Init PROVE PacketInv
  OBVIOUS
<1>1. /\ log = <<>> /\ packetFeed = <<>> /\ toClient = <<>> /\ uiQueue = <<>> /\ packets = <<>>
      /\ srv = "none" /\ ipc = "away" /\ mesh = "idle" /\ nextId = 1
  BY DEF Init
<1>2. Stream = <<>>
  BY <1>1 DEF Stream, Link
<1>3. Numbering /\ Adrift /\ Kept
  BY <1>1, EmptyFacts DEF Numbering, NewestFirst, Rising, Adrift, Kept
<1>4. InOrder
  BY <1>2 DEF InOrder
<1>5. Seamed
  <2>1. Seam(packets, 0) /\ 0 \in 0..Len(packets)
    BY <1>1 DEF Seam
  <2> QED BY <2>1 DEF Seamed
<1> QED BY <1>3, <1>4, <1>5 DEF PacketInv

\* The list is at its seam two lists, each newest first.
LEMMA SeamParts ==
  ASSUME NEW s \in Seq(Nat), NEW k \in 0..Len(s), Seam(s, k)
  PROVE  NewestFirst(SubSeq(s, 1, k)) /\ NewestFirst(SubSeq(s, k + 1, Len(s)))
<1>0. Len(s) \in Nat /\ \A i \in 1..Len(s) : s[i] \in Nat
  BY LenProperties, ElementOfSeq
<1>1. Len(SubSeq(s, 1, k)) = k /\ \A i \in 1..k : SubSeq(s, 1, k)[i] = s[i]
  <2>1. \A i \in 1..k : s[i] \in Nat
    BY <1>0
  <2>2. /\ Len(SubSeq(s, 1, k)) = (IF 1 <= k THEN k - 1 + 1 ELSE 0)
        /\ \A i \in 1..k-1+1 : SubSeq(s, 1, k)[i] = s[1 + i - 1]
    BY <1>0, <2>1, SubSeqProperties
  <2> QED BY <2>2
<1> DEFINE r == SubSeq(s, k + 1, Len(s))
<1>2. Len(r) = Len(s) - k /\ \A i \in 1..Len(s) - k : r[i] = s[k + i]
  <2>1. \A i \in k+1..Len(s) : s[i] \in Nat
    BY <1>0
  <2>2. /\ Len(r) = (IF k + 1 <= Len(s) THEN Len(s) - (k + 1) + 1 ELSE 0)
        /\ \A i \in 1..Len(s)-(k+1)+1 : r[i] = s[(k + 1) + i - 1]
    BY <1>0, <2>1, SubSeqProperties
  <2> HIDE DEF r
  <2> QED BY <1>0, <2>2
<1>3. NewestFirst(SubSeq(s, 1, k))
  BY <1>1 DEF NewestFirst, Seam
<1> HIDE DEF r
<1>4. NewestFirst(r)
  <2> SUFFICES ASSUME NEW i \in 1..Len(r), NEW j \in 1..Len(r), i < j PROVE r[i] > r[j]
    BY DEF NewestFirst
  <2>1. /\ k + i \in k+1..Len(s) /\ k + j \in k+1..Len(s) /\ k + i < k + j
        /\ r[i] = s[k + i] /\ r[j] = s[k + j]
    BY <1>0, <1>2
  <2> QED BY <2>1 DEF Seam
<1> QED BY <1>3, <1>4 DEF r

\* The UI's packet list misses nothing the daemon's log holds, unless the
\* connection lost packets or the list is full, and is newest first but for the
\* seam between the backlog and what came after it (server.rs, handle_client;
\* app.rs, set_packet_log and push_packet).
THEOREM PacketsAreListed == Spec => []PacketsListed
<1>1. IInv /\ PacketInv /\ [Next]_vars => PacketInv'
  BY NumberingStep, AdriftStep, InOrderStep, SeamedStep, KeptStep DEF IInv, PacketInv
<1>2. IInv /\ PacketInv => PacketsListed
  <2> SUFFICES ASSUME IInv, PacketInv PROVE PacketsListed
    OBVIOUS
  <2>t. /\ packets \in Seq(Packet) /\ packets \in Seq(Nat) /\ Packet \subseteq Nat
        /\ Len(packets) \in Nat /\ Len(packets) <= MaxShown /\ MaxShown \in Nat
    <3>1. packets \in Seq(Packet) /\ Len(packets) <= MaxShown /\ Packet \subseteq Nat /\ MaxShown \in Nat
      BY Caps DEF IInv, Types, ScreenTypes, Packet
    <3> QED BY <3>1, SeqMonotonic, LenProperties
  <2>1. ASSUME Rest, ~missedPacket, Len(packets) < MaxShown, NEW i \in 1..Len(log)
        PROVE  \E j \in 1..Len(packets) : packets[j] = log[i]
    <3>1. /\ mesh = "idle" /\ srv = "serving" /\ Range(packetFeed) = {} /\ Stream = <<>>
      BY <2>1, EmptyFacts DEF Rest, ClientIdle, Stream, Link
    <3>2. Reaches(log[i])
      BY <2>1, <3>1 DEF PacketInv, Kept
    <3>3. ~Pending(Stream, log[i])
      BY <3>1 DEF Pending
    <3>4. log[i] \in Range(packets)
      BY <2>t, <2>1, <3>1, <3>2, <3>3 DEF Reaches
    <3> QED BY <2>t, <3>4, RangeEquality
  <2>2. PICK k \in 0..Len(packets) : Seam(packets, k)
    BY DEF PacketInv, Seamed
  <2>3. NewestFirst(SubSeq(packets, 1, k)) /\ NewestFirst(SubSeq(packets, k + 1, Len(packets)))
    BY <2>t, <2>2, SeamParts
  <2> QED BY <2>1, <2>3 DEF PacketsListed
<1> QED BY Invariance, InitPackets, <1>1, <1>2, PTL DEF Spec
=============================================================================
