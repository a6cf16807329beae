-------------------------- MODULE RepeaterCliProofs --------------------------
(***************************************************************************)
(* Four results about requests made over the mesh, from one strengthening  *)
(* each: the mesh task never waits for a client's slots, no repeater is    *)
(* left with a session, the command line reports what happened, and the    *)
(* popup settles on what its request came to.  All of them rest on the     *)
(* order of requests: from the clients over the command channel to the     *)
(* mesh task a detail request never overtakes a later one.                 *)
(***************************************************************************)
EXTENDS RepeaterCli, TLAPS, SequenceTheorems

-----------------------------------------------------------------------------
(* Types.                                                                  *)

Place   == Category \cup {"idle", "login", "logout", "done"}
Asked   == [kind : {"detail"}, id : Nat, on : Repeaters]
Update  == [kind : {"category"}, id : Nat, on : Repeaters, of : Category, ok : BOOLEAN]
Failure == [kind : {"error"}, id : Nat]
Answer  == [id : Nat, ok : BOOLEAN]
MeshState == [at : Place, cmd : Request \cup {None}, loggedIn : BOOLEAN,
              out : Seq(Update) \cup Seq(Answer)]

Channels ==
  /\ queue \in Seq(Request) /\ toServer \in Seq(Asked)
  /\ srv \in Asked \cup {None} /\ updates \in Seq(Update)
  /\ toClient \in Seq(Update \cup Failure) /\ last \in Nat

\* What the mesh task has to send suits the request it serves.
MeshShape ==
  /\ mesh \in MeshState
  /\ mesh.at = "idle" => mesh = Idle
  /\ mesh.at # "idle" => mesh.cmd \in Request /\ mesh.cmd.kind \in {"detail", "telemetry"}
  /\ mesh.at # "idle" /\ mesh.cmd.kind = "detail" => mesh.out \in Seq(Update)
  /\ mesh.at # "idle" /\ mesh.cmd.kind = "telemetry" =>
       /\ mesh.out \in Seq(Answer)
       /\ mesh.at \in {"login", "telemetry", "logout", "done"}
       /\ mesh.at = "login" => mesh.cmd.on \in Passwords
  /\ mesh.at = "login" => mesh.out = <<>>

Typed == Channels /\ MeshShape

-----------------------------------------------------------------------------
(* The order of requests.                                                  *)

\* Requests are told apart, and none that comes after a detail request is older.
Precede(x, y) == x.id # y.id /\ (x.kind = "detail" => x.id < y.id)

Numbered ==
  /\ \A i \in DOMAIN queue : queue[i].id \in 1..last
  /\ \A i \in DOMAIN toServer : toServer[i].id \in 1..last
  /\ mesh.at # "idle" => mesh.cmd.id \in 1..last
  /\ srv # None => srv.id \in 1..last

Ordered ==
  /\ \A i, j \in DOMAIN queue : i < j => Precede(queue[i], queue[j])
  /\ \A i, j \in DOMAIN toServer : i < j => toServer[i].id < toServer[j].id
  /\ \A i \in DOMAIN queue, j \in DOMAIN toServer : Precede(queue[i], toServer[j])
  /\ mesh.at # "idle" => \A i \in DOMAIN queue : Precede(mesh.cmd, queue[i])
  /\ mesh.at # "idle" => \A i \in DOMAIN toServer : Precede(mesh.cmd, toServer[i])
  /\ srv # None => \A i \in DOMAIN toServer : srv.id < toServer[i].id

\* The command line knows its command once it is connected.
CommandKnown ==
  /\ cli = [at |-> cli.at, cmd |-> cli.cmd, seen |-> cli.seen]
  /\ cli.at # "start" => cli.cmd \in Commands

OrderInv == Typed /\ CommandKnown /\ Numbered /\ Ordered

-----------------------------------------------------------------------------
(* The slots.                                                              *)

\* What a detail request may still have to send.
Left == [c \in Place |->
           CASE c \in {"login", "status"} -> 4 [] c = "telemetry" -> 3
             [] c = "neighbours" -> 2 [] c = "regions" -> 1 [] OTHER -> 0]

Slots ==
  /\ srv = None \/ srv \in Range(queue) => updates = <<>>
  /\ mesh.at # "idle" /\ mesh.cmd = srv =>
       Len(updates) + Len(mesh.out) + Left[mesh.at] <= 4

-----------------------------------------------------------------------------
(* The sessions.                                                           *)

Sessions ==
  /\ mesh.at = "login" => ~mesh.loggedIn
  /\ sessions \subseteq kept \cup (IF mesh.loggedIn /\ mesh.at \in Category \cup {"logout"}
                                   THEN {mesh.cmd.on} ELSE {})

-----------------------------------------------------------------------------
(* The report.                                                             *)

Others(q) == {i \in DOMAIN q : q[i].kind # "detail"}

\* The command line's request has not come to its outcome.
Answering == mesh.at # "idle" /\ mesh.cmd.kind = "telemetry"
Live ==
  \/ Others(queue) # {}
  \/ Answering /\ ~(mesh.at = "done" /\ mesh.out = <<>>)

\* There is at most one.
Alone ==
  /\ \A i, j \in Others(queue) : i = j
  /\ Answering => Others(queue) = {}

ViewType == [listed : SUBSET Repeaters, registered : SUBSET Repeaters, managed : SUBSET Repeaters]

ReportTyped ==
  /\ shown \in ViewType
  /\ cached \subseteq Repeaters /\ onNode \subseteq Repeaters /\ tiers \subseteq Repeaters
  /\ reply # None => reply.ok \in BOOLEAN

\* The request on its way is the command line's.
Sent ==
  /\ cli.at \in {"start", "deciding"} =>
       /\ Others(queue) = {} /\ ~Answering /\ reply = None
       /\ effect = "none" /\ report = None
  /\ \A i \in Others(queue) : queue[i].kind = "telemetry" <=> cli.cmd.do = "telemetry"
  /\ Answering => cli.cmd.do = "telemetry"

\* The reply says what the command came to, and only once.
Outcome ==
  /\ effect # "none" => ~Live
  /\ reply # None => effect = (IF reply.ok THEN "ok" ELSE "failed")

\* Until the command runs nothing else changes the contacts.
Before ==
  effect = "none" =>
    /\ cached = onNode /\ shown.listed = onNode \cup Heard
    /\ cli.at = "deciding" => cli.seen.listed = onNode \cup Heard
    /\ cli.at \in {"waiting", "gone"} /\ Others(queue) # {} /\ cli.cmd.do # "add" =>
         cli.cmd.on \in onNode \cup Heard

\* Once it has run the snapshot shows it.
Shows ==
  effect = "ok" /\ cli.at = "waiting" /\ cli.cmd.do # "telemetry" /\ ~disturbed =>
    \/ Verdict(cli.cmd) = "success"
    \/ cli.cmd.do = "add" /\ cli.cmd.key = "upper"

ReportInv == ReportTyped /\ Alone /\ Sent /\ Outcome /\ Before /\ Shows /\ ReportTruthful

-----------------------------------------------------------------------------
(* The popup.                                                              *)

\* Categories whose request the mesh task has yet to make.
Ahead == [at \in Place |->
            CASE at \in {"login", "status"} -> Category
              [] at = "telemetry" -> {"telemetry", "neighbours", "regions"}
              [] at = "neighbours" -> {"neighbours", "regions"}
              [] at = "regions" -> {"regions"}
              [] OTHER -> {}]

Popup == [on : Repeaters, id : Nat, value : [Category -> Nat], error : [Category -> Nat]]
Tally == [Category -> {"none", "ok", "failed"}]

PopupTyped ==
  /\ popup \in Popup \cup {None}
  /\ readings \in [Repeaters -> Nat]
  /\ result \in Seq(Tally) /\ Len(result) = last
  /\ popup # None => popup.id \in 1..last

\* Requests the mesh task has not taken, and updates on their way.
Waiting == Range(queue) \cup Range(toServer)
Sending == IF mesh.at # "idle" /\ mesh.cmd.kind = "detail" THEN Range(mesh.out) ELSE {}
Passed  == {m \in Range(toClient) : m.kind = "category"} \cup Range(updates)
Flying  == Passed \cup Sending

\* An update tells the result of its request.
Truthful(m) == m.id \in 1..last /\ result[m.id][m.of] = (IF m.ok THEN "ok" ELSE "failed")

\* What requests have come to, by how far they are.
Results ==
  /\ \A q \in Waiting : result[q.id] = Blank("none")
  /\ mesh.at # "idle" /\ mesh.cmd.kind = "detail" =>
       \A c \in Category : result[mesh.cmd.id][c] = "none" <=> c \in Ahead[mesh.at]
  /\ \A m \in Flying : Truthful(m)

\* The updates of one request follow those of the one before.
Streams ==
  /\ \A m \in Range(updates) : srv # None /\ m.id = srv.id /\ m.on = srv.on
  /\ \A m \in Sending : m.id = mesh.cmd.id /\ m.on = mesh.cmd.on
  /\ Answering => \A i \in DOMAIN mesh.out : mesh.out[i].id = mesh.cmd.id
  /\ \A i, j \in DOMAIN toClient : i < j => toClient[i].id <= toClient[j].id
  /\ \A m \in Range(toClient) :
       /\ m.id \in 1..last
       /\ srv # None => m.id <= srv.id
       /\ \A q \in Range(toServer) : m.id < q.id

\* Everything in the popup's stream is about its request or an older one.
Newest ==
  popup # None =>
    /\ \A q \in Range(toServer) : q.id <= popup.id
    /\ srv # None => srv.id <= popup.id
    /\ \A m \in Range(toClient) : m.id <= popup.id
    /\ \A c \in Category : /\ popup.value[c] <= popup.id
                           /\ popup.value[c] = popup.id => result[popup.id][c] = "ok"

PopupRequest == [kind |-> "detail", id |-> popup.id, on |-> popup.on]

\* The popup's request is still to be made, wholly or in part.
Coming ==
  \/ PopupRequest \in Range(toServer)
  \/ srv = PopupRequest /\ (srv \in Range(queue) \/ mesh.cmd = srv)

\* Its outcome for category c is on its way.
Bound == Passed \cup (IF mesh.cmd = srv THEN Sending ELSE {})
OnTheWay(c) == \E m \in Bound : m.id = popup.id /\ m.on = popup.on /\ m.of = c

\* Nothing older than the popup's request is on its way any more.
OlderGone ==
  /\ \A q \in Range(toServer) : popup.id <= q.id
  /\ srv # None => popup.id <= srv.id
  /\ \A m \in Range(toClient) : popup.id <= m.id

Settling ==
  popup # None /\ popup.id \notin cut =>
    \A c \in Category :
      \/ result[popup.id][c] = "none" /\ Coming
      \/ OnTheWay(c)
      \/ Settled(c, result[popup.id][c]) /\ OlderGone

\* A reading on its way or shown: no request still to be made is older.
Old(v) ==
  /\ v \in 0..last
  /\ mesh.at # "idle" => v <= mesh.cmd.id
  /\ \A q \in Waiting : v < q.id

Read(m) == Old(m.id) /\ (m.of = "telemetry" /\ m.ok => m.id <= readings[m.on])

Readings ==
  /\ \A m \in Flying : Read(m)
  /\ popup # None => Old(popup.value["telemetry"]) /\ popup.value["telemetry"] <= readings[popup.on]

PopupInv == PopupTyped /\ Results /\ Streams /\ Newest /\ Settling /\ Readings

-----------------------------------------------------------------------------
\* The four categories and the order their requests are made in.
LEMMA CategoryFacts ==
  /\ Category = {"status", "telemetry", "neighbours", "regions"}
  /\ Categories \in [1..4 -> Category]
  /\ After["status"] = "telemetry" /\ After["telemetry"] = "neighbours"
  /\ After["neighbours"] = "regions" /\ After["regions"] = "logout"
<1>1. Category = {"status", "telemetry", "neighbours", "regions"}
  BY DEF Category, Categories, ToSet
<1>2. Categories \in [1..4 -> Category]
  BY <1>1 DEF Categories
<1> QED BY <1>1, <1>2 DEF After

\* What the handlers put into the command channel are requests.
LEMMA RequestFacts ==
  /\ Asked \subseteq Request /\ None \notin Request /\ None \notin Asked
  /\ \A q \in Request : q.kind = "detail" <=> q \in Asked
  /\ \A x \in Asked : x.kind = "detail"
BY DetailAssumption DEF Request, Asked

\* An update of a request.
LEMMA MessageFacts ==
  ASSUME NEW cmd \in Asked, NEW c \in Category, NEW ok \in BOOLEAN
  PROVE  /\ Message(cmd, c, ok) \in Update
         /\ Message(cmd, c, ok).id = cmd.id /\ Message(cmd, c, ok).on = cmd.on
         /\ Message(cmd, c, ok).of = c /\ Message(cmd, c, ok).ok = ok
         /\ Message(cmd, c, ok).kind = "category"
BY DEF Message, Update, Asked

\* The refusal of a request: an error for each category.
LEMMA AllFailFacts ==
  ASSUME NEW cmd \in Asked
  PROVE  /\ AllFail(cmd) \in Seq(Update) /\ Len(AllFail(cmd)) = 4
         /\ \A i \in DOMAIN AllFail(cmd) :
              AllFail(cmd)[i] = Message(cmd, Categories[i], FALSE)
         /\ \A c \in Category : \E i \in DOMAIN AllFail(cmd) :
              AllFail(cmd)[i] = Message(cmd, c, FALSE)
<1>1. \A i \in 1..4 : Message(cmd, Categories[i], FALSE) \in Update
  BY CategoryFacts, MessageFacts
<1>2. AllFail(cmd) \in [1..4 -> Update]
  BY <1>1 DEF AllFail
<1>3. AllFail(cmd) \in Seq(Update)
  BY <1>2, SeqDef
<1>4. Len(AllFail(cmd)) = 4 /\ DOMAIN AllFail(cmd) = 1..4
  BY <1>2, <1>3, LenProperties
<1>6. \A i \in 1..4 : AllFail(cmd)[i] = Message(cmd, Categories[i], FALSE)
  BY DEF AllFail
<1>5. ASSUME NEW c \in Category PROVE \E i \in 1..4 : Categories[i] = c
  BY CategoryFacts DEF Categories
<1>7. ASSUME NEW c \in Category PROVE \E i \in 1..4 : AllFail(cmd)[i] = Message(cmd, c, FALSE)
  BY <1>5, <1>6
<1> QED BY <1>3, <1>4, <1>6, <1>7

-----------------------------------------------------------------------------
(* What a step does to the channels and to the mesh task.                  *)

LEMMA TypedInit == CliInit => Typed
BY DEF CliInit, Init, Typed, Channels, MeshShape, MeshState, Idle, Place

\* The steps of the terminal UI, its handler and the command line keep the types.
LEMMA TypedClients ==
  ASSUME Typed,
         \/ \E r \in Repeaters : Open(r)
         \/ Close \/ Receive \/ Dispatch \/ Forward \/ EndOfStream \/ DeadlinePasses \/ Reconnect
  PROVE  Typed' /\ mesh' = mesh
<1> USE DEF Typed, Channels
<1>0. ASSUME mesh' = mesh PROVE MeshShape'
  BY <1>0 DEF MeshShape, Idle
<1>1. ASSUME NEW r \in Repeaters, Open(r) PROVE Typed' /\ mesh' = mesh
  <2>1. [kind |-> "detail", id |-> last + 1, on |-> r] \in Asked
    BY DEF Asked
  <2> QED BY <1>1, <2>1, <1>0 DEF Open, air
<1>2. CASE Close
  BY <1>2, <1>0 DEF Close, air, asking
<1>3. CASE Receive
  BY <1>3, <1>0 DEF Receive, air
<1>4. CASE Dispatch
  BY <1>4, <1>0, RequestFacts DEF Dispatch, air, screen
<1>5. CASE Forward
  BY <1>5, <1>0 DEF Forward, air, screen
<1>6. CASE EndOfStream
  BY <1>6, <1>0 DEF EndOfStream, air, screen
<1>7. CASE DeadlinePasses
  <2>1. [kind |-> "error", id |-> srv.id] \in Failure
    BY <1>7 DEF DeadlinePasses, Failure, Asked
  <2> QED BY <1>7, <2>1, <1>0 DEF DeadlinePasses, air
<1>8. CASE Reconnect
  BY <1>8, <1>0 DEF Reconnect, air
<1> QED BY <1>1, <1>2, <1>3, <1>4, <1>5, <1>6, <1>7, <1>8

\* What a login comes to: the session is used, the guest login is not missed, or
\* the command ends (mesh_task.rs request_repeater_detail, request_telemetry).
LoginEnds(at, out) == mesh' = [mesh EXCEPT !.loggedIn = mesh'.loggedIn, !.at = at, !.out = out]

LEMMA LoginSteps ==
  ASSUME Typed, Login
  PROVE  /\ mesh.at = "login" /\ mesh.cmd \in Request /\ mesh'.loggedIn \in BOOLEAN
         /\ \/ /\ mesh.cmd.kind = "detail" /\ LoginEnds("status", <<>>)
               /\ UNCHANGED <<result, reply>>
            \/ /\ mesh.cmd.kind = "detail" /\ LoginEnds("done", AllFail(mesh.cmd))
               /\ NoteAll(mesh.cmd.id) /\ UNCHANGED reply
            \/ /\ mesh.cmd.kind = "telemetry" /\ LoginEnds("telemetry", <<>>)
               /\ UNCHANGED <<result, reply>>
            \/ /\ mesh.cmd.kind = "telemetry" /\ LoginEnds("done", <<>>)
               /\ reply' = [id |-> mesh.cmd.id, ok |-> FALSE] /\ UNCHANGED result
<1>1. /\ mesh.at = "login" /\ mesh \in MeshState /\ mesh.out = <<>> /\ mesh.cmd \in Request
      /\ mesh.cmd.kind \in {"detail", "telemetry"}
      /\ mesh.cmd.kind = "telemetry" => mesh.cmd.on \in Passwords
  BY DEF Login, Typed, MeshShape
<1>2. ASSUME LoggedIn
      PROVE  /\ mesh'.loggedIn = TRUE /\ UNCHANGED <<result, reply>>
             /\ LoginEnds(IF mesh.cmd.kind = "detail" THEN "status" ELSE "telemetry", <<>>)
  BY <1>1, <1>2 DEF LoggedIn, LoginEnds, MeshState
<1>3. ASSUME LoginFailed
      PROVE  /\ mesh'.loggedIn \in BOOLEAN
             /\ \/ /\ mesh.cmd.kind = "detail" /\ LoginEnds("status", <<>>)
                   /\ UNCHANGED <<result, reply>>
                \/ /\ mesh.cmd.kind = "detail" /\ LoginEnds("done", AllFail(mesh.cmd))
                   /\ NoteAll(mesh.cmd.id) /\ UNCHANGED reply
                \/ /\ mesh.cmd.kind = "telemetry" /\ LoginEnds("done", <<>>)
                   /\ reply' = [id |-> mesh.cmd.id, ok |-> FALSE] /\ UNCHANGED result
  <2>1. CASE mesh.cmd.on \notin Passwords
    BY <1>1, <1>3, <2>1 DEF LoginFailed, Go, LoginEnds, MeshState
  <2>2. CASE mesh.cmd.on \in Passwords /\ mesh.cmd.kind = "detail"
    BY <1>1, <1>3, <2>2 DEF LoginFailed, Refuse, LoginEnds, MeshState
  <2>3. CASE mesh.cmd.on \in Passwords /\ mesh.cmd.kind = "telemetry"
    BY <1>1, <1>3, <2>3 DEF LoginFailed, Go, LoginEnds, MeshState
  <2> QED BY <1>1, <2>1, <2>2, <2>3
<1>4. LoggedIn \/ LoginFailed
  BY DEF Login
<1>5. CASE LoggedIn
  BY <1>1, <1>2, <1>5
<1>6. CASE LoginFailed
  BY <1>1, <1>3, <1>6
<1> QED BY <1>4, <1>5, <1>6

\* The mesh task takes the oldest request (mesh_task.rs handle_command).
LEMMA TakeSteps ==
  ASSUME Typed, TakeCommand({"detail", "telemetry"})
  PROVE  /\ mesh.at = "idle" /\ queue # <<>> /\ queue' = Tail(queue)
         /\ mesh'.cmd = Head(queue) /\ Head(queue) \in Request
         /\ Head(queue).kind \in {"detail", "telemetry"}
         /\ \/ /\ Head(queue).kind = "detail" /\ NoteAll(Head(queue).id)
               /\ mesh' = [Idle EXCEPT !.at = "done", !.cmd = Head(queue), !.out = AllFail(Head(queue))]
            \/ /\ mesh' = [Idle EXCEPT !.at = "login", !.cmd = Head(queue)]
               /\ Head(queue).kind = "telemetry" => Head(queue).on \in Passwords
               /\ UNCHANGED result
            \/ /\ Head(queue).kind = "telemetry" /\ UNCHANGED result
               /\ mesh' = [Idle EXCEPT !.at = "telemetry", !.cmd = Head(queue)]
<1>1. /\ mesh.at = "idle" /\ queue # <<>> /\ queue' = Tail(queue)
      /\ Head(queue) \in Request /\ Head(queue).kind \in {"detail", "telemetry"}
  BY HeadTailProperties DEF TakeCommand, Typed, Channels
<1>2. CASE Head(queue).kind = "detail" /\ ~Resolves(Head(queue).on)
  BY <1>1, <1>2 DEF TakeCommand, Idle
<1>3. CASE ~(Head(queue).kind = "detail" /\ ~Resolves(Head(queue).on))
  <2>1. /\ UNCHANGED result
        /\ mesh' = [Idle EXCEPT !.at = IF Head(queue).kind = "telemetry" /\ Head(queue).on \notin Passwords
                                       THEN "telemetry" ELSE "login", !.cmd = Head(queue)]
    BY <1>3 DEF TakeCommand
  <2> QED BY <1>1, <2>1 DEF Idle
<1> QED BY <1>2, <1>3

\* The requests of a detail command, one for each category.
LEMMA FetchSteps ==
  ASSUME Typed, Fetch
  PROVE  /\ mesh.at \in Category /\ mesh.cmd \in Asked /\ mesh.out = <<>>
         /\ \E ok \in BOOLEAN :
              /\ mesh' = [mesh EXCEPT !.at = After[mesh.at],
                                      !.out = <<Message(mesh.cmd, mesh.at, ok)>>]
              /\ Message(mesh.cmd, mesh.at, ok) \in Update
              /\ Note(mesh.cmd.id, mesh.at, ok)
              /\ IF ok /\ mesh.at = "telemetry" THEN Finalize(mesh.cmd.on, mesh.cmd.id)
                 ELSE UNCHANGED readings
<1>1. mesh.at \in Category /\ mesh.at # "idle" /\ mesh.out = <<>>
  BY CategoryFacts DEF Fetch
<1>2. mesh.cmd \in Asked
  BY <1>1, RequestFacts DEF Fetch, Typed, MeshShape
<1>3. PICK ok \in BOOLEAN :
              /\ mesh' = [mesh EXCEPT !.at = After[mesh.at],
                                      !.out = <<Message(mesh.cmd, mesh.at, ok)>>]
              /\ Note(mesh.cmd.id, mesh.at, ok)
              /\ IF ok /\ mesh.at = "telemetry" THEN Finalize(mesh.cmd.on, mesh.cmd.id)
                 ELSE UNCHANGED readings
  BY Zenon DEF Fetch, Answers, RegionAnswers
<1> QED BY <1>1, <1>2, <1>3, MessageFacts

\* The steps of the mesh task keep the types.
LEMMA TypedTask ==
  ASSUME Typed,
         \/ TakeCommand({"detail", "telemetry"}) \/ Login \/ Fetch \/ FetchTelemetry
         \/ SendUpdate \/ Logout \/ Finish \/ StrayLost
  PROVE  Typed'
<1> USE DEF Typed
<1>0. mesh \in MeshState /\ (mesh.cmd \in Request /\ mesh.cmd.kind = "detail" => mesh.cmd \in Asked)
  BY RequestFacts DEF MeshShape
<1>1. CASE TakeCommand({"detail", "telemetry"})
  <2>1. Channels'
    BY <1>1, HeadTailProperties DEF Channels, TakeCommand, screen
  <2>2. Head(queue).kind = "detail" => AllFail(Head(queue)) \in Seq(Update)
    BY <1>1, TakeSteps, AllFailFacts, RequestFacts
  <2> DEFINE q == Head(queue)
             State(at, out) == [at |-> at, cmd |-> q, loggedIn |-> FALSE, out |-> out]
  <2>3. /\ q \in Request /\ q.kind \in {"detail", "telemetry"}
        /\ \/ q.kind = "detail" /\ mesh' = State("done", AllFail(q))
           \/ mesh' = State("login", <<>>) /\ (q.kind = "telemetry" => q.on \in Passwords)
           \/ q.kind = "telemetry" /\ mesh' = State("telemetry", <<>>)
    BY <1>1, TakeSteps DEF Idle
  <2> HIDE DEF q
  <2>5. \A at \in Place, out \in Seq(Update) \cup Seq(Answer) : State(at, out) \in MeshState
    BY <2>3 DEF MeshState
  <2>6. <<>> \in Seq(Update) /\ <<>> \in Seq(Answer)
    OBVIOUS
  <2>7. {"done", "login", "telemetry"} \subseteq Place
    BY CategoryFacts DEF Place
  <2>8. q.kind = "detail" => AllFail(q) \in Seq(Update)
    BY <2>2 DEF q
  <2>9. mesh' \in MeshState
    BY <2>3, <2>5, <2>6, <2>7, <2>8
  <2>4. MeshShape'
    <3>1. CASE q.kind = "detail" /\ mesh' = State("done", AllFail(q))
      BY <2>3, <2>8, <2>9, <3>1 DEF MeshShape
    <3>2. CASE mesh' = State("login", <<>>) /\ (q.kind = "telemetry" => q.on \in Passwords)
      BY <2>3, <2>6, <2>9, <3>2 DEF MeshShape
    <3>3. CASE q.kind = "telemetry" /\ mesh' = State("telemetry", <<>>)
      BY <2>3, <2>6, <2>9, <3>3 DEF MeshShape
    <3> QED BY <2>3, <3>1, <3>2, <3>3
  <2> QED BY <2>1, <2>4
<1>2. CASE Login
  <2>1. Channels'
    BY <1>2 DEF Channels, Login, asking
  <2>2. mesh.cmd.kind = "detail" => AllFail(mesh.cmd) \in Seq(Update)
    BY <1>2, LoginSteps, AllFailFacts, RequestFacts
  <2>3. MeshShape'
    BY <1>2, <2>2, LoginSteps, <1>0, CategoryFacts DEF MeshShape, MeshState, Place, LoginEnds
  <2> QED BY <2>1, <2>3
<1>3. CASE Fetch
  <2>1. Channels'
    BY <1>3 DEF Channels, Fetch, asking
  <2>2. mesh.at # "idle" /\ mesh.cmd \in Asked /\ mesh.cmd.kind = "detail" /\ mesh.cmd \in Request
    BY <1>3, FetchSteps, CategoryFacts, RequestFacts
  <2>3. After[mesh.at] \in Place \ {"idle", "login"}
    BY <1>3, FetchSteps, CategoryFacts DEF Place
  <2>4. \A m \in Update : <<m>> \in Seq(Update)
    OBVIOUS
  <2>5. mesh' \in MeshState /\ mesh'.out \in Seq(Update) /\ mesh'.cmd = mesh.cmd
        /\ mesh'.at \notin {"idle", "login"}
    BY <1>0, <1>3, <2>2, <2>3, <2>4, FetchSteps, ZenonT(30) DEF MeshState
  <2>6. MeshShape'
    BY <2>2, <2>5 DEF MeshShape
  <2> QED BY <2>1, <2>6
<1>4. CASE FetchTelemetry
  <2>1. Channels'
    BY <1>4 DEF Channels, FetchTelemetry, asking, screen
  <2>2. /\ mesh.cmd \in Request /\ mesh.cmd.kind = "telemetry" /\ mesh.at # "idle"
        /\ \E ok \in BOOLEAN : mesh' = [mesh EXCEPT !.at = "logout", !.out = <<[id |-> mesh.cmd.id, ok |-> ok]>>]
    BY <1>4 DEF FetchTelemetry, Answers, MeshShape
  <2>3. \A ok \in BOOLEAN : [id |-> mesh.cmd.id, ok |-> ok] \in Answer
    BY <2>2 DEF Answer, Request
  <2>4. \A m \in Answer : <<m>> \in Seq(Answer)
    OBVIOUS
  <2>7. PICK ok \in BOOLEAN :
          mesh' = [mesh EXCEPT !.at = "logout", !.out = <<[id |-> mesh.cmd.id, ok |-> ok]>>]
    BY <2>2
  <2>8. <<[id |-> mesh.cmd.id, ok |-> ok]>> \in Seq(Answer)
    BY <2>3, <2>4
  <2>5. mesh' \in MeshState /\ mesh'.out \in Seq(Answer) /\ mesh'.cmd = mesh.cmd
        /\ mesh'.at = "logout"
    BY <1>0, <2>7, <2>8 DEF MeshState, Place
  <2>6. MeshShape'
    BY <2>2, <2>5 DEF MeshShape
  <2> QED BY <2>1, <2>6
<1>5. CASE SendUpdate
  <2>1. mesh.at # "idle"
    BY <1>5 DEF SendUpdate, MeshShape, Idle
  <2>2. mesh.out \in Seq(Update) /\ mesh.cmd \in Request /\ mesh.cmd.kind = "detail"
    BY <1>5, <2>1 DEF SendUpdate, MeshShape
  <2>3. Head(mesh.out) \in Update /\ Tail(mesh.out) \in Seq(Update)
    BY <1>5, <2>2 DEF SendUpdate
  <2>7. updates' = Append(updates, Head(mesh.out)) \/ updates' = updates
    BY <1>5 DEF SendUpdate
  <2>8. updates \in Seq(Update)
    BY DEF Channels
  <2>4. updates' \in Seq(Update)
    BY <2>3, <2>7, <2>8, AppendProperties
  <2>6. Channels'
    BY <1>5, <2>4 DEF SendUpdate, Channels, screen
  <2>5. MeshShape'
    BY <1>0, <1>5, <2>1, <2>2, <2>3 DEF SendUpdate, MeshShape, MeshState
  <2> QED BY <2>5, <2>6
<1>6. CASE Logout
  <2>1. Channels'
    BY <1>6 DEF Channels, Logout, asking, screen
  <2>2. MeshShape'
    BY <1>0, <1>6 DEF Logout, Go, MeshShape, MeshState, Place
  <2> QED BY <2>1, <2>2
<1>7. CASE Finish
  BY <1>7 DEF Finish, Channels, MeshShape, MeshState, Idle, Place, asking, screen
<1>8. CASE StrayLost
  BY <1>8 DEF StrayLost, Channels, MeshShape, Idle, asking, screen
<1> QED BY <1>1, <1>2, <1>3, <1>4, <1>5, <1>6, <1>7, <1>8

\* So do those of the command line and of the other clients.
LEMMA TypedCommandLine ==
  ASSUME Typed, CommandKnown,
         \/ \E cmd \in Commands : CliConnect(cmd)
         \/ CliDecide \/ Answered \/ CliTimesOut \/ RunCommand
         \/ \E r \in Repeaters : OtherChanges(r)
         \/ CacheFollows
  PROVE  Typed' /\ mesh' = mesh
<1> USE DEF Typed
<1>0. ASSUME mesh' = mesh PROVE MeshShape'
  BY <1>0 DEF MeshShape, Idle
<1>1. ASSUME UNCHANGED detailVars PROVE Typed' /\ mesh' = mesh
  BY <1>0, <1>1 DEF detailVars, Channels, asking, screen
<1>2. CASE \E cmd \in Commands : CliConnect(cmd)
  BY <1>1, <1>2 DEF CliConnect
<1>3. CASE CliDecide
  <2>1. cli.cmd.on \in Repeaters
    BY <1>3, CliAssumption DEF CliDecide, CommandKnown
  <2>2. Forwarded(cli.cmd) \in Request
    BY <2>1 DEF Forwarded, Request, Channels
  <2>4. Append(queue, Forwarded(cli.cmd)) \in Seq(Request) /\ last + 1 \in Nat
    BY <2>2 DEF Channels
  <2>5. queue' \in Seq(Request) /\ last' \in Nat
    BY <1>3, <2>4 DEF CliDecide, Channels, Exit
  <2>3. Channels'
    BY <1>3, <2>5 DEF CliDecide, Channels
  <2> QED BY <1>0, <1>3, <2>3 DEF CliDecide
<1>4. CASE Answered
  BY <1>0, <1>4 DEF Answered, Channels, asking, screen
<1>5. CASE CliTimesOut
  BY <1>1, <1>5 DEF CliTimesOut
<1>6. CASE RunCommand
  BY <1>0, <1>6, HeadTailProperties DEF RunCommand, Channels, screen
<1>7. CASE \E r \in Repeaters : OtherChanges(r)
  BY <1>0, <1>7 DEF OtherChanges, KeepDetail, Channels, asking, screen
<1>8. CASE CacheFollows
  BY <1>0, <1>8 DEF CacheFollows, KeepDetail, Channels, asking, screen
<1> QED BY <1>2, <1>3, <1>4, <1>5, <1>6, <1>7, <1>8

-----------------------------------------------------------------------------
(* The order of requests.                                                  *)

\* A step that takes no request keeps the order.
LEMMA OrderShrinks ==
  ASSUME Numbered, Ordered, Channels,
         last' = last, queue' = queue, toServer' = toServer \/ toServer' = <<>>,
         srv' = srv \/ srv' = None,
         mesh'.at = "idle" \/ (mesh.at # "idle" /\ mesh'.cmd = mesh.cmd)
  PROVE  Numbered' /\ Ordered'
<1>1. DOMAIN toServer' = {} \/ toServer' = toServer
  OBVIOUS
<1>2. Numbered'
  BY <1>1 DEF Numbered
<1>3. Ordered'
  BY <1>1 DEF Ordered, Precede
<1> QED BY <1>2, <1>3

\* The head of the command channel is served before everything else.
LEMMA HeadFirst ==
  ASSUME Channels, Numbered, Ordered, queue # <<>>
  PROVE  /\ Head(queue) \in Request /\ Head(queue).id \in 1..last
         /\ Tail(queue) \in Seq(Request) /\ DOMAIN Tail(queue) = 1..(Len(queue) - 1)
         /\ DOMAIN queue = 1..Len(queue) /\ Head(queue) = queue[1]
         /\ \A i \in DOMAIN Tail(queue) : i + 1 \in DOMAIN queue /\ Tail(queue)[i] = queue[i + 1]
         /\ \A i \in DOMAIN Tail(queue) : Precede(Head(queue), Tail(queue)[i])
         /\ \A i \in DOMAIN toServer : Precede(Head(queue), toServer[i])
<1>1. /\ Head(queue) \in Request /\ Tail(queue) \in Seq(Request) /\ Head(queue) = queue[1]
      /\ Len(Tail(queue)) = Len(queue) - 1 /\ 1 \in DOMAIN queue
      /\ \A i \in 1..Len(Tail(queue)) : Tail(queue)[i] = queue[i + 1]
  BY HeadTailProperties DEF Channels
<1>2. DOMAIN queue = 1..Len(queue) /\ Len(queue) \in Nat /\ DOMAIN Tail(queue) = 1..Len(Tail(queue))
  BY <1>1, LenProperties DEF Channels
<1>3. \A i \in DOMAIN Tail(queue) : i + 1 \in DOMAIN queue /\ 1 < i + 1 /\ Tail(queue)[i] = queue[i + 1]
  BY <1>1, <1>2
<1>4. \A i \in DOMAIN Tail(queue) : Precede(Head(queue), Tail(queue)[i])
  BY <1>1, <1>3 DEF Ordered
<1>5. \A i \in DOMAIN toServer : Precede(Head(queue), toServer[i])
  BY <1>1 DEF Ordered
<1>6. Head(queue).id \in 1..last
  BY <1>1 DEF Numbered
<1> QED BY <1>1, <1>2, <1>3, <1>4, <1>5, <1>6

\* A popup's request is the newest (ui.rs open_repeater_detail_pending).
LEMMA OrderOpen ==
  ASSUME OrderInv, NEW r \in Repeaters, Open(r), Typed'
  PROVE  Numbered' /\ Ordered'
<1> DEFINE q == [kind |-> "detail", id |-> last + 1, on |-> r]
<1>1. /\ last' = last + 1 /\ toServer' = Append(toServer, q)
      /\ UNCHANGED <<queue, srv>> /\ mesh' = mesh
  BY DEF Open
<1>2. /\ Len(toServer) \in Nat /\ DOMAIN toServer = 1..Len(toServer) /\ last \in Nat
      /\ DOMAIN toServer' = 1..(Len(toServer) + 1)
      /\ \A i \in 1..Len(toServer) : toServer'[i] = toServer[i]
      /\ toServer'[Len(toServer) + 1] = q
  BY <1>1, LenProperties, AppendProperties DEF OrderInv, Typed, Channels
<1>3. \A i \in DOMAIN toServer' :
        \/ i \in DOMAIN toServer /\ toServer'[i] = toServer[i]
        \/ i = Len(toServer) + 1 /\ toServer'[i] = q
  BY <1>2
<1>4. q.id = last + 1 /\ q.kind = "detail"
  OBVIOUS
<1> HIDE DEF q
<1>5. Numbered'
  BY <1>1, <1>2, <1>3, <1>4 DEF OrderInv, Numbered
<1>6. /\ \A i \in DOMAIN toServer : toServer[i].id < q.id
      /\ \A i \in DOMAIN queue : Precede(queue[i], q)
      /\ mesh.at # "idle" => Precede(mesh.cmd, q)
      /\ srv # None => srv.id < q.id
  BY <1>2, <1>4 DEF OrderInv, Numbered, Precede
<1>7. \A i, j \in DOMAIN toServer' : i < j => toServer'[i].id < toServer'[j].id
  BY <1>2, <1>3, <1>6 DEF OrderInv, Ordered
<1>8. /\ \A i \in DOMAIN queue, j \in DOMAIN toServer' : Precede(queue[i], toServer'[j])
      /\ mesh.at # "idle" => \A i \in DOMAIN toServer' : Precede(mesh.cmd, toServer'[i])
      /\ srv # None => \A i \in DOMAIN toServer' : srv.id < toServer'[i].id
  BY <1>3, <1>6 DEF OrderInv, Ordered
<1> QED BY <1>1, <1>5, <1>7, <1>8 DEF OrderInv, Ordered, Precede

\* The handler passes the requests of its connection on in their order.
LEMMA OrderDispatch ==
  ASSUME OrderInv, Dispatch, Typed'
  PROVE  /\ Numbered' /\ Ordered'
         /\ srv' = toServer[1] /\ srv' \in Asked /\ queue' = Append(queue, srv')
         /\ DOMAIN toServer' = 1..(Len(toServer) - 1)
         /\ \A i \in DOMAIN toServer' : i + 1 \in DOMAIN toServer /\ toServer'[i] = toServer[i + 1]
<1>1. /\ srv' = Head(toServer) /\ queue' = Append(queue, srv') /\ toServer' = Tail(toServer)
      /\ toServer # <<>> /\ last' = last /\ mesh' = mesh
  BY DEF Dispatch, screen
<1>2. /\ toServer[1] = srv' /\ srv' \in Asked
      /\ Len(toServer) \in Nat /\ DOMAIN toServer = 1..Len(toServer) /\ 1 \in DOMAIN toServer
      /\ DOMAIN toServer' = 1..(Len(toServer) - 1)
      /\ \A i \in DOMAIN toServer' : toServer'[i] = toServer[i + 1]
  BY <1>1, HeadTailProperties, LenProperties DEF OrderInv, Typed, Channels
<1>3. /\ Len(queue) \in Nat /\ DOMAIN queue = 1..Len(queue)
      /\ DOMAIN queue' = 1..(Len(queue) + 1)
      /\ \A i \in 1..Len(queue) : queue'[i] = queue[i]
      /\ queue'[Len(queue) + 1] = srv'
  <2>1. queue \in Seq(Request) /\ srv' \in Request
    BY <1>2, RequestFacts DEF OrderInv, Typed, Channels
  <2> QED BY <1>1, <2>1, LenProperties, AppendProperties
<1>4. \A i \in DOMAIN toServer' : i + 1 \in DOMAIN toServer /\ i < i + 1 /\ 1 < i + 1
  BY <1>2
<1>5. \A i \in DOMAIN queue' :
        \/ i \in DOMAIN queue /\ queue'[i] = queue[i]
        \/ i = Len(queue) + 1 /\ queue'[i] = srv'
  BY <1>3
<1>6. srv'.kind = "detail" /\ srv' # None
  BY <1>2, RequestFacts
<1>7. Numbered'
  BY <1>1, <1>2, <1>4, <1>5 DEF OrderInv, Numbered
<1>8. \A i \in DOMAIN toServer' : srv'.id < toServer'[i].id
  BY <1>2, <1>4 DEF OrderInv, Ordered
<1>9. \A i \in DOMAIN toServer' : Precede(srv', toServer'[i])
  <2>1. /\ srv'.id \in Nat /\ \A i \in DOMAIN toServer' : toServer'[i].id \in Nat
    BY <1>6, <1>7 DEF Numbered
  <2> QED BY <1>8, <2>1 DEF Precede
<1>10. \A i, j \in DOMAIN toServer' : i < j => toServer'[i].id < toServer'[j].id
  <2>1. \A i, j \in DOMAIN toServer' : i < j => i + 1 < j + 1
    BY <1>2
  <2> QED BY <1>2, <1>4, <2>1 DEF OrderInv, Ordered
<1>11. \A i, j \in DOMAIN queue' : i < j => Precede(queue'[i], queue'[j])
  <2>1. ASSUME NEW i \in DOMAIN queue', NEW j \in DOMAIN queue', i < j
        PROVE  Precede(queue'[i], queue'[j])
    <3>1. i \in DOMAIN queue /\ queue'[i] = queue[i]
      BY <1>3, <2>1
    <3>2. CASE j \in DOMAIN queue
      BY <1>3, <2>1, <3>1, <3>2 DEF OrderInv, Ordered
    <3>3. CASE j \notin DOMAIN queue
      BY <1>2, <1>5, <2>1, <3>1, <3>3 DEF OrderInv, Ordered
    <3> QED BY <3>2, <3>3
  <2> QED BY <2>1
<1>12. \A i \in DOMAIN queue', j \in DOMAIN toServer' : Precede(queue'[i], toServer'[j])
  BY <1>2, <1>4, <1>5, <1>9 DEF OrderInv, Ordered
<1>13. mesh.at # "idle" => /\ \A i \in DOMAIN queue' : Precede(mesh.cmd, queue'[i])
                           /\ \A i \in DOMAIN toServer' : Precede(mesh.cmd, toServer'[i])
  BY <1>2, <1>4, <1>5 DEF OrderInv, Ordered
<1>14. Ordered'
  BY <1>1, <1>8, <1>10, <1>11, <1>12, <1>13 DEF Ordered, Precede
<1> QED BY <1>1, <1>2, <1>4, <1>7, <1>14

\* Taking the oldest request keeps the order.
LEMMA OrderTake ==
  ASSUME OrderInv, queue # <<>>, queue' = Tail(queue),
         UNCHANGED <<srv, toServer, last>>, mesh.at = "idle",
         mesh'.at = "idle" \/ mesh'.cmd = Head(queue)
  PROVE  Numbered' /\ Ordered'
<1>1. Channels /\ Numbered /\ Ordered
  BY DEF OrderInv, Typed
<1>2. Numbered'
  BY <1>1, HeadFirst DEF Numbered
<1>3. \A i, j \in DOMAIN queue' : i < j => Precede(queue'[i], queue'[j])
  <2>1. \A i, j \in DOMAIN queue' : i < j => i + 1 < j + 1
    BY <1>1, HeadFirst, LenProperties DEF Channels
  <2> QED BY <1>1, <2>1, HeadFirst DEF Ordered
<1>4. \A i \in DOMAIN queue', j \in DOMAIN toServer : Precede(queue'[i], toServer[j])
  BY <1>1, HeadFirst DEF Ordered
<1>5. mesh'.at # "idle" => /\ \A i \in DOMAIN queue' : Precede(mesh'.cmd, queue'[i])
                           /\ \A i \in DOMAIN toServer : Precede(mesh'.cmd, toServer[i])
  BY <1>1, HeadFirst
<1>6. Ordered'
  BY <1>1, <1>3, <1>4, <1>5 DEF Ordered, Precede
<1> QED BY <1>2, <1>6

\* The request of the command line is passed on at once, ahead of those the
\* terminal UI's handler has not read (server.rs dispatch_command).
LEMMA OrderSend ==
  ASSUME OrderInv, NEW q \in Request, q.id = last + 1, q.kind # "detail",
         queue' = Append(queue, q), last' = last + 1,
         UNCHANGED <<srv, toServer, mesh>>
  PROVE  /\ Numbered' /\ Ordered'
         /\ DOMAIN queue' = 1..(Len(queue) + 1) /\ DOMAIN queue = 1..Len(queue)
         /\ Len(queue) \in Nat
         /\ \A i \in DOMAIN queue : queue'[i] = queue[i]
         /\ queue'[Len(queue) + 1] = q
<1>1. /\ Len(queue) \in Nat /\ DOMAIN queue = 1..Len(queue) /\ last \in Nat
      /\ DOMAIN queue' = 1..(Len(queue) + 1)
      /\ \A i \in 1..Len(queue) : queue'[i] = queue[i]
      /\ queue'[Len(queue) + 1] = q
  BY LenProperties, AppendProperties DEF OrderInv, Typed, Channels
<1>2. \A i \in DOMAIN queue' :
        \/ i \in DOMAIN queue /\ queue'[i] = queue[i]
        \/ i = Len(queue) + 1 /\ queue'[i] = q
  BY <1>1
<1>3. Numbered'
  BY <1>1, <1>2 DEF OrderInv, Numbered
<1>4. /\ \A i \in DOMAIN queue : Precede(queue[i], q)
      /\ \A i \in DOMAIN toServer : Precede(q, toServer[i])
      /\ mesh.at # "idle" => Precede(mesh.cmd, q)
  BY <1>1 DEF OrderInv, Numbered, Precede
<1>5. \A i, j \in DOMAIN queue' : i < j => Precede(queue'[i], queue'[j])
  BY <1>1, <1>2, <1>4 DEF OrderInv, Ordered
<1>6. /\ \A i \in DOMAIN queue', j \in DOMAIN toServer : Precede(queue'[i], toServer[j])
      /\ mesh.at # "idle" => \A i \in DOMAIN queue' : Precede(mesh.cmd, queue'[i])
  BY <1>2, <1>4 DEF OrderInv, Ordered
<1>7. Ordered'
  BY <1>5, <1>6 DEF OrderInv, Ordered, Precede
<1> QED BY <1>1, <1>3, <1>7

LEMMA OrderInit == CliInit => OrderInv
BY TypedInit DEF CliInit, Init, OrderInv, CommandKnown, Numbered, Ordered, Idle

\* What CliDecide sends.
LEMMA DecideSteps ==
  ASSUME OrderInv, CliDecide
  PROVE  /\ cli.at = "deciding" /\ cli.cmd \in Commands /\ UNCHANGED <<srv, toServer, mesh>>
         /\ UNCHANGED <<air, readings, reply, toClient, updates, popup, cut>> /\ KeepDaemon
         /\ \E d \in Decided :
              \/ /\ d = "send" /\ Forwarded(cli.cmd) \in Request
                 /\ Forwarded(cli.cmd).id = last + 1 /\ Forwarded(cli.cmd).kind # "detail"
                 /\ Forwarded(cli.cmd).kind = "telemetry" <=> cli.cmd.do = "telemetry"
                 /\ cli' = [cli EXCEPT !.at = "waiting"]
                 /\ handler' = last + 1 /\ last' = last + 1
                 /\ result' = Append(result, Blank("none"))
                 /\ queue' = Append(queue, Forwarded(cli.cmd))
                 /\ UNCHANGED report
              \/ d # "send" /\ Exit(d) /\ UNCHANGED <<last, result, queue>>
<1>1. cli.at = "deciding" /\ cli.cmd \in Commands /\ cli.cmd.on \in Repeaters /\ last \in Nat
  BY CliAssumption DEF CliDecide, OrderInv, CommandKnown, Typed, Channels
<1>2. /\ Forwarded(cli.cmd) \in Request /\ Forwarded(cli.cmd).id = last + 1
      /\ Forwarded(cli.cmd).kind # "detail"
      /\ Forwarded(cli.cmd).kind = "telemetry" <=> cli.cmd.do = "telemetry"
  BY <1>1 DEF Forwarded, Request
<1>3. PICK d \in Decided :
        IF d = "send"
        THEN /\ last < MaxRequests
             /\ cli' = [cli EXCEPT !.at = "waiting"]
             /\ handler' = last + 1 /\ last' = last + 1
             /\ result' = Append(result, Blank("none"))
             /\ queue' = Append(queue, Forwarded(cli.cmd))
             /\ UNCHANGED report
        ELSE Exit(d) /\ UNCHANGED <<last, result, queue>>
  BY Zenon DEF CliDecide
<1>4. /\ UNCHANGED <<srv, toServer, mesh>> /\ KeepDaemon
      /\ UNCHANGED <<air, readings, reply, toClient, updates, popup, cut>>
  BY DEF CliDecide
<1>5. CASE d = "send"
  BY <1>1, <1>2, <1>3, <1>4, <1>5, Zenon
<1>6. CASE d # "send"
  BY <1>1, <1>3, <1>4, <1>6, Zenon
<1> QED BY <1>5, <1>6, Zenon

\* Every step keeps the order.
LEMMA OrderStep ==
  ASSUME OrderInv, CliNext PROVE OrderInv'
<1> USE DEF OrderInv
<1>0. /\ Channels /\ mesh \in MeshState
      /\ mesh' = mesh => mesh'.at = "idle" \/ (mesh.at # "idle" /\ mesh'.cmd = mesh.cmd)
  BY DEF Typed, MeshShape
<1>1. ASSUME \E cmd \in Commands : CliConnect(cmd) PROVE OrderInv'
  <2>1. Typed'
    BY <1>1, TypedCommandLine
  <2>2. Numbered' /\ Ordered'
    BY <1>0, <1>1, OrderShrinks DEF CliConnect, detailVars, asking, screen
  <2> QED BY <1>1, <2>1, <2>2 DEF CliConnect, CommandKnown
<1>2. ASSUME CliDecide PROVE OrderInv'
  <2>1. Typed'
    BY <1>2, TypedCommandLine
  <2>2. Numbered' /\ Ordered'
    <3>1. CASE queue' = Append(queue, Forwarded(cli.cmd)) /\ last' = last + 1
               /\ Forwarded(cli.cmd) \in Request
               /\ Forwarded(cli.cmd).id = last + 1 /\ Forwarded(cli.cmd).kind # "detail"
      BY <1>2, <3>1, DecideSteps, OrderSend
    <3>2. CASE UNCHANGED <<last, queue>>
      BY <1>0, <1>2, <3>2, DecideSteps, OrderShrinks
    <3> QED BY <1>2, <3>1, <3>2, DecideSteps
  <2>3. CommandKnown'
    BY <1>2, DecideSteps DEF Exit, CommandKnown
  <2> QED BY <2>1, <2>2, <2>3
<1>3. ASSUME Answered \/ CliTimesOut \/ (\E r \in Repeaters : OtherChanges(r)) \/ CacheFollows
      PROVE  OrderInv'
  <2>1. Typed'
    BY <1>3, TypedCommandLine
  <2>2. UNCHANGED <<asking, last, mesh>> /\ CommandKnown'
    BY <1>3 DEF Answered, CliTimesOut, OtherChanges, CacheFollows, KeepDetail, detailVars,
                screen, Exit, CommandKnown, cliVars
  <2>3. Numbered' /\ Ordered'
    BY <1>0, <2>2, OrderShrinks DEF asking
  <2> QED BY <2>1, <2>2, <2>3
<1>4. ASSUME RunCommand PROVE OrderInv'
  <2>1. Typed'
    BY <1>4, TypedCommandLine
  <2>2. Numbered' /\ Ordered' /\ CommandKnown'
    BY <1>4, OrderTake DEF RunCommand, screen, CommandKnown
  <2> QED BY <2>1, <2>2
<1>5. ASSUME DetailNext, UNCHANGED cli PROVE OrderInv'
  <2>0. CommandKnown'
    BY <1>5 DEF CommandKnown
  <2>1. ASSUME NEW r \in Repeaters, Open(r) PROVE OrderInv'
    <3>1. Typed'
      BY <2>1, TypedClients
    <3> QED BY <2>0, <2>1, <3>1, OrderOpen
  <2>2. ASSUME Dispatch PROVE OrderInv'
    <3>1. Typed'
      BY <2>2, TypedClients
    <3> QED BY <2>0, <2>2, <3>1, OrderDispatch
  <2>3. ASSUME Close \/ Receive \/ Forward \/ EndOfStream \/ DeadlinePasses \/ Reconnect
        PROVE  OrderInv'
    <3>1. Typed' /\ mesh' = mesh
      BY <2>3, TypedClients
    <3>2. /\ last' = last /\ queue' = queue
          /\ toServer' = toServer \/ toServer' = <<>>
          /\ srv' = srv \/ srv' = None
      BY <2>3 DEF Close, Receive, Forward, EndOfStream, DeadlinePasses, Reconnect, asking, screen
    <3> QED BY <1>0, <2>0, <3>1, <3>2, OrderShrinks
  <2>4. ASSUME TakeCommand({"detail", "telemetry"}) PROVE OrderInv'
    <3>1. Typed'
      BY <2>4, TypedTask
    <3>2. Numbered' /\ Ordered'
      BY <2>4, TakeSteps, OrderTake DEF TakeCommand
    <3> QED BY <2>0, <3>1, <3>2
  <2>5. ASSUME Login \/ Fetch \/ FetchTelemetry \/ SendUpdate \/ Logout \/ Finish \/ StrayLost
        PROVE  OrderInv'
    <3>1. Typed'
      BY <2>5, TypedTask
    <3>2. UNCHANGED <<queue, srv, toServer, last>>
      BY <2>5 DEF Login, Fetch, FetchTelemetry, SendUpdate, Logout, Finish, StrayLost, asking, screen
    <3>3. mesh'.at = "idle" \/ (mesh.at # "idle" /\ mesh'.cmd = mesh.cmd)
      <4>1. CASE Login
        BY <1>0, <4>1, LoginSteps DEF LoginEnds, MeshState
      <4>2. CASE Fetch
        BY <1>0, <4>2, FetchSteps, CategoryFacts DEF MeshState
      <4>3. CASE FetchTelemetry
        BY <4>3 DEF FetchTelemetry
      <4>4. CASE SendUpdate
        BY <4>4 DEF SendUpdate, Typed, MeshShape, Idle
      <4>5. CASE Logout
        BY <4>5 DEF Logout, Go
      <4>6. CASE Finish
        BY <4>6 DEF Finish, Idle
      <4>7. CASE StrayLost
        BY <1>0, <4>7 DEF StrayLost
      <4> QED BY <2>5, <4>1, <4>2, <4>3, <4>4, <4>5, <4>6, <4>7
    <3> QED BY <1>0, <2>0, <3>1, <3>2, <3>3, OrderShrinks
  <2> QED BY <1>5, <2>1, <2>2, <2>3, <2>4, <2>5 DEF DetailNext
<1> QED BY <1>1, <1>2, <1>3, <1>4, <1>5 DEF CliNext

LEMMA OrderStutters == ASSUME OrderInv, UNCHANGED vars PROVE OrderInv'
BY DEF vars, detailVars, cliVars, asking, air, screen, OrderInv, Typed, Channels,
       MeshShape, Idle, CommandKnown, Numbered, Ordered, Precede

-----------------------------------------------------------------------------
(* The slots.                                                              *)

\* What is left to send, place by place.
LEMMA LeftFacts ==
  /\ \A at \in Place : Left[at] \in 0..4
  /\ Left["login"] = 4 /\ Left["status"] = 4 /\ Left["telemetry"] = 3
  /\ Left["logout"] = 0 /\ Left["done"] = 0
  /\ \A c \in Category : After[c] \in Place /\ After[c] # "idle" /\ Left[c] = Left[After[c]] + 1
<1>1. Place = {"status", "telemetry", "neighbours", "regions", "idle", "login", "logout", "done"}
  BY CategoryFacts DEF Place
<1>2. /\ Left["login"] = 4 /\ Left["status"] = 4 /\ Left["telemetry"] = 3
      /\ Left["neighbours"] = 2 /\ Left["regions"] = 1
      /\ Left["logout"] = 0 /\ Left["done"] = 0 /\ Left["idle"] = 0
  BY <1>1 DEF Left
<1> QED BY <1>1, <1>2, CategoryFacts

LEMMA SlotsInit == CliInit => Slots
BY DEF CliInit, Init, Slots, Idle

\* A step that leaves the slots, their owner and the mesh task alone.
LEMMA SlotsKept ==
  ASSUME Slots, UNCHANGED <<updates, srv, mesh>>,
         srv # None => (srv \in Range(queue') => srv \in Range(queue))
  PROVE  Slots'
BY DEF Slots

\* The slots hold all a request may still send (server.rs dispatch_repeater_detail).
LEMMA SlotsStep ==
  ASSUME OrderInv, Slots, CliNext PROVE Slots'
<1>0. Typed /\ Channels /\ MeshShape /\ mesh \in MeshState /\ Numbered /\ Ordered /\ Typed'
  BY OrderStep DEF OrderInv, Typed, MeshShape
<1>1. ASSUME \/ \E cmd \in Commands : CliConnect(cmd)
             \/ Answered \/ CliTimesOut \/ (\E r \in Repeaters : OtherChanges(r)) \/ CacheFollows
             \/ (\E r \in Repeaters : Open(r)) \/ Close \/ Receive
      PROVE  Slots'
  <2>1. UNCHANGED <<updates, srv, mesh, queue>>
    BY <1>1 DEF CliConnect, Answered, CliTimesOut, OtherChanges, CacheFollows, Open, Close,
                Receive, KeepDetail, detailVars, asking
  <2> QED BY <2>1, SlotsKept
<1>2. ASSUME CliDecide PROVE Slots'
  <2>1. CASE queue' = Append(queue, Forwarded(cli.cmd)) /\ last' = last + 1
             /\ Forwarded(cli.cmd) \in Request
             /\ Forwarded(cli.cmd).id = last + 1 /\ Forwarded(cli.cmd).kind # "detail"
    <3>1. Range(queue') \subseteq Range(queue) \cup {Forwarded(cli.cmd)}
      <4> HIDE DEF Forwarded
      <4>1. /\ DOMAIN queue' = 1..(Len(queue) + 1) /\ DOMAIN queue = 1..Len(queue)
            /\ Len(queue) \in Nat
            /\ \A i \in DOMAIN queue : queue'[i] = queue[i]
            /\ queue'[Len(queue) + 1] = Forwarded(cli.cmd)
        BY <1>2, <2>1, DecideSteps, OrderSend
      <4> QED BY <4>1 DEF Range
    <3>2. srv # None => srv # Forwarded(cli.cmd)
      BY <1>0, <2>1, RequestFacts DEF Channels
    <3> QED BY <1>2, <3>1, <3>2, DecideSteps, SlotsKept
  <2>2. CASE UNCHANGED <<last, queue>>
    BY <1>2, <2>2, DecideSteps, SlotsKept
  <2> QED BY <1>2, <2>1, <2>2, DecideSteps
<1>3. ASSUME RunCommand PROVE Slots'
  <2>1. Range(queue') \subseteq Range(queue)
    BY <1>0, <1>3, HeadFirst DEF RunCommand, Range
  <2> QED BY <1>3, <2>1, SlotsKept DEF RunCommand
<1>4. ASSUME Dispatch PROVE Slots'
  <2>1. updates' = <<>> /\ mesh' = mesh
    BY <1>4 DEF Dispatch, Slots
  <2>2. srv' = toServer[1] /\ 1 \in DOMAIN toServer
    BY <1>0, <1>4, HeadTailProperties DEF Dispatch, Channels
  <2>3. mesh.at # "idle" => mesh.cmd # srv'
    BY <1>0, <2>2 DEF Ordered, Precede
  <2> QED BY <2>1, <2>3 DEF Slots
<1>5. ASSUME Forward PROVE Slots'
  <2>1. updates # <<>> /\ updates' = Tail(updates) /\ UNCHANGED <<srv, queue, mesh>>
    BY <1>5 DEF Forward
  <2>2. Len(updates') \in Nat /\ Len(updates) \in Nat /\ Len(updates') <= Len(updates)
    BY <1>0, <2>1, HeadTailProperties, LenProperties DEF Channels
  <2>3. mesh.at # "idle" => Len(mesh.out) \in Nat /\ Left[mesh.at] \in 0..4
    BY <1>0, LeftFacts, LenProperties DEF MeshShape, MeshState
  <2> QED BY <2>1, <2>2, <2>3, SMTT(30) DEF Slots
<1>6. ASSUME EndOfStream \/ DeadlinePasses \/ Reconnect PROVE Slots'
  <2>1. srv' = None /\ updates' = <<>> /\ mesh' = mesh
    BY <1>6 DEF EndOfStream, DeadlinePasses, Reconnect
  <2>2. mesh.at # "idle" => mesh.cmd # None
    BY <1>0, RequestFacts DEF MeshShape
  <2> QED BY <2>1, <2>2 DEF Slots
<1>7. ASSUME TakeCommand({"detail", "telemetry"}) PROVE Slots'
  <2>1. UNCHANGED <<srv, updates>>
    BY <1>7 DEF TakeCommand
  <2>2. Range(queue') \subseteq Range(queue) /\ mesh'.cmd \in Range(queue)
    BY <1>0, <1>7, TakeSteps, HeadFirst DEF Range
  <2>3. mesh'.cmd \in Request /\ (mesh'.cmd.kind = "detail" => Len(AllFail(mesh'.cmd)) = 4)
    BY <1>0, <1>7, TakeSteps, AllFailFacts, RequestFacts
  <2>4. \/ mesh'.cmd.kind = "detail" /\ mesh'.out = AllFail(mesh'.cmd) /\ mesh'.at = "done"
        \/ mesh'.out = <<>> /\ mesh'.at \in {"login", "telemetry"}
    BY <1>0, <1>7, TakeSteps DEF Idle
  <2>5. \/ Len(mesh'.out) = 4 /\ Left[mesh'.at] = 0
        \/ Len(mesh'.out) = 0 /\ Left[mesh'.at] \in {3, 4}
    <3>1. CASE mesh'.cmd.kind = "detail" /\ mesh'.out = AllFail(mesh'.cmd) /\ mesh'.at = "done"
      BY <2>3, <3>1, LeftFacts
    <3>2. CASE mesh'.out = <<>> /\ mesh'.at \in {"login", "telemetry"}
      BY <3>2, LeftFacts
    <3> QED BY <2>4, <3>1, <3>2
  <2>6. mesh'.cmd = srv' => Len(updates') = 0
    BY <2>1, <2>2 DEF Slots
  <2>7. mesh'.cmd = srv' => Len(updates') + Len(mesh'.out) + Left[mesh'.at] <= 4
    <3>1. 0 + 4 + 0 <= 4 /\ \A l \in {3, 4} : 0 + 0 + l <= 4
      OBVIOUS
    <3> QED BY <2>5, <2>6, <3>1, Zenon
  <2>8. srv' = None \/ srv' \in Range(queue') => updates' = <<>>
    BY <2>1, <2>2 DEF Slots
  <2> QED BY <2>7, <2>8 DEF Slots
<1>8. ASSUME Login PROVE Slots'
  <2>1. UNCHANGED <<srv, updates, queue>>
    BY <1>8 DEF Login, asking
  <2>2. mesh.at = "login" /\ mesh.out = <<>> /\ mesh'.cmd = mesh.cmd
    BY <1>0, <1>8, LoginSteps DEF MeshShape, LoginEnds, MeshState
  <2>3. \/ mesh'.at = "done" /\ mesh.cmd.kind = "detail" /\ mesh'.out = AllFail(mesh.cmd)
        \/ mesh'.at \in {"status", "telemetry", "done"} /\ mesh'.out = <<>>
    BY <1>0, <1>8, LoginSteps DEF LoginEnds, MeshState
  <2>4. mesh.cmd.kind = "detail" => Len(AllFail(mesh.cmd)) = 4
    BY <1>0, <1>8, LoginSteps, AllFailFacts, RequestFacts
  <2>5. \/ Len(mesh'.out) = 4 /\ Left[mesh'.at] = 0
        \/ Len(mesh'.out) = 0 /\ Left[mesh'.at] \in 0..4
    <3>1. CASE mesh'.at = "done" /\ mesh.cmd.kind = "detail" /\ mesh'.out = AllFail(mesh.cmd)
      BY <2>4, <3>1, LeftFacts
    <3>2. CASE mesh'.at \in {"status", "telemetry", "done"} /\ mesh'.out = <<>>
      BY <3>2, LeftFacts
    <3> QED BY <2>3, <3>1, <3>2
  <2>6. Len(mesh.out) = 0 /\ Left[mesh.at] = 4 /\ Len(updates) \in Nat
    BY <1>0, <2>2, LeftFacts, LenProperties DEF Channels
  <2> QED BY <2>1, <2>2, <2>5, <2>6 DEF Slots
<1>9. ASSUME Fetch PROVE Slots'
  <2>1. UNCHANGED <<srv, updates, queue>>
    BY <1>9 DEF Fetch, asking
  <2>2. /\ mesh.at \in Category /\ mesh.at # "idle" /\ mesh.out = <<>>
        /\ mesh'.cmd = mesh.cmd /\ mesh'.at = After[mesh.at] /\ Len(mesh'.out) = 1
    <3>1. PICK ok \in BOOLEAN :
            mesh' = [mesh EXCEPT !.at = After[mesh.at], !.out = <<Message(mesh.cmd, mesh.at, ok)>>]
      BY <1>0, <1>9, FetchSteps
    <3>2. mesh'.cmd = mesh.cmd /\ mesh'.at = After[mesh.at]
          /\ mesh'.out = <<Message(mesh.cmd, mesh.at, ok)>>
      BY <1>0, <3>1 DEF MeshState
    <3> QED BY <1>0, <1>9, <3>2, FetchSteps, CategoryFacts
  <2>3. Left[mesh.at] = Left[mesh'.at] + 1 /\ Left[mesh'.at] \in 0..4 /\ Len(updates) \in Nat
    BY <1>0, <2>2, LeftFacts, LenProperties DEF Channels
  <2> QED BY <2>1, <2>2, <2>3 DEF Slots
<1>10. ASSUME FetchTelemetry PROVE Slots'
  <2>1. UNCHANGED <<srv, updates, queue>>
    BY <1>10 DEF FetchTelemetry, asking
  <2>2. mesh.cmd.kind = "telemetry" /\ mesh'.cmd = mesh.cmd /\ mesh.cmd \in Request
    BY <1>0, <1>10 DEF FetchTelemetry, MeshShape
  <2>3. mesh.cmd # srv
    BY <1>0, <2>2, RequestFacts DEF Channels
  <2> QED BY <2>1, <2>2, <2>3 DEF Slots
<1>11. ASSUME SendUpdate PROVE Slots'
  <2>1. mesh.at # "idle" /\ mesh.out # <<>> /\ mesh.out \in Seq(Update) /\ mesh.cmd \in Request
    BY <1>0, <1>11 DEF SendUpdate, MeshShape, Idle
  <2>2. /\ mesh'.at = mesh.at /\ mesh'.cmd = mesh.cmd /\ mesh'.out = Tail(mesh.out)
        /\ UNCHANGED <<srv, queue>>
    BY <1>0, <1>11 DEF SendUpdate, MeshState
  <2>3. Len(mesh'.out) = Len(mesh.out) - 1 /\ Len(mesh.out) \in Nat /\ Left[mesh.at] \in 0..4
    BY <1>0, <2>1, <2>2, HeadTailProperties, LenProperties, LeftFacts DEF MeshState
  <2>4. CASE mesh.cmd = srv
    <3>1. updates' = Append(updates, Head(mesh.out))
      BY <1>11, <2>4 DEF SendUpdate
    <3>2. Len(updates') = Len(updates) + 1 /\ Len(updates) \in Nat
      BY <1>0, <2>1, <3>1, HeadTailProperties, AppendProperties, LenProperties DEF Channels
    <3>3. srv # None /\ srv \notin Range(queue)
      BY <1>0, <2>1, <2>4, RequestFacts DEF Ordered, Precede, Range
    <3>5. Len(updates) + Len(mesh.out) + Left[mesh.at] <= 4
      BY <2>1, <2>4 DEF Slots
    <3>6. Len(mesh'.out) = Len(mesh.out) - 1 /\ Left[mesh'.at] = Left[mesh.at]
      BY <2>2, <2>3
    <3>4. Len(updates') + Len(mesh'.out) + Left[mesh'.at] <= 4
      <4>1. \A u, o, l \in Int : u + o + l <= 4 => (u + 1) + (o - 1) + l <= 4
        OBVIOUS
      <4>2. (Len(updates) + 1) + (Len(mesh.out) - 1) + Left[mesh.at] <= 4
        <5>1. Len(updates) \in Int /\ Len(mesh.out) \in Int /\ Left[mesh.at] \in Int
          BY <2>3, <3>2
        <5> QED BY <3>5, <4>1, <5>1, Zenon
      <4> QED BY <3>2, <3>6, <4>2, Zenon
    <3> QED BY <2>2, <3>3, <3>4 DEF Slots
  <2>5. CASE mesh.cmd # srv
    <3>1. updates' = updates
      BY <1>11, <2>5 DEF SendUpdate
    <3> QED BY <2>2, <2>5, <3>1 DEF Slots
  <2> QED BY <2>4, <2>5
<1>12. ASSUME Logout PROVE Slots'
  <2>1. UNCHANGED <<srv, updates, queue>>
    BY <1>12 DEF Logout, asking
  <2>2. mesh.at = "logout" /\ mesh'.at = "done" /\ mesh'.cmd = mesh.cmd /\ mesh'.out = mesh.out
    BY <1>0, <1>12 DEF Logout, Go, MeshState
  <2> QED BY <2>1, <2>2, LeftFacts DEF Slots
<1>13. ASSUME Finish PROVE Slots'
  BY <1>13 DEF Finish, asking, Slots, Idle
<1>14. ASSUME StrayLost PROVE Slots'
  BY <1>14, SlotsKept DEF StrayLost, asking
<1> QED BY <1>1, <1>2, <1>3, <1>4, <1>5, <1>6, <1>7, <1>8, <1>9, <1>10, <1>11, <1>12,
           <1>13, <1>14 DEF CliNext, DetailNext

\* MeshNeverWaits: whatever the pace of the terminal UI, the channel of the
\* request being streamed has room for what the mesh task has to send, so the
\* task never waits for a client (server.rs dispatch_repeater_detail,
\* mpsc::channel(4); mesh_task.rs request_repeater_detail).
THEOREM MeshIsNeverHeldUp == Spec => []MeshNeverWaits
<1>1. CliInit => OrderInv /\ Slots
  BY OrderInit, SlotsInit
<1>2. OrderInv /\ Slots /\ [CliNext]_vars => OrderInv' /\ Slots'
  <2>1. ASSUME OrderInv, Slots, UNCHANGED vars PROVE OrderInv' /\ Slots'
    BY <2>1, OrderStutters DEF vars, detailVars, asking, Slots
  <2> QED BY <2>1, OrderStep, SlotsStep
<1>3. OrderInv /\ Slots => MeshNeverWaits
  <2> SUFFICES ASSUME OrderInv, Slots, mesh.out # <<>>, mesh.cmd = srv
               PROVE  Len(updates) < UpdateSlots
    BY DEF MeshNeverWaits
  <2>1. mesh.at # "idle" /\ mesh.at \in Place
    BY DEF OrderInv, Typed, MeshShape, MeshState, Idle
  <2>2. mesh.out \in Seq(Update) \cup Seq(Answer)
    BY DEF OrderInv, Typed, MeshShape, MeshState
  <2>3. Len(mesh.out) \in Nat \ {0} /\ Len(updates) \in Nat /\ Left[mesh.at] \in 0..4
    BY <2>1, <2>2, LeftFacts, LenProperties, EmptySeq DEF OrderInv, Typed, Channels
  <2>4. Len(updates) + Len(mesh.out) + Left[mesh.at] <= 4
    BY <2>1 DEF Slots
  <2>5. UpdateSlots \in Nat /\ UpdateSlots >= 4
    BY DetailAssumption
  <2> QED BY <2>3, <2>4, <2>5
<1> QED BY <1>1, <1>2, <1>3, PTL DEF Spec

-----------------------------------------------------------------------------
(* The sessions.                                                           *)

\* The session of a login in use is remembered until the logout.
LEMMA SessionsLogin ==
  ASSUME Typed, Sessions, Login PROVE Sessions'
<1> DEFINE r == mesh.cmd.on
<1>1. /\ mesh.at = "login" /\ ~mesh.loggedIn /\ sessions \subseteq kept
      /\ mesh \in MeshState /\ mesh.at \notin Category \cup {"logout"}
  BY CategoryFacts DEF Login, Sessions, Typed, MeshShape
<1>2. mesh'.at # "login" /\ mesh'.cmd = mesh.cmd
  BY <1>1, LoginSteps DEF LoginEnds, MeshState
<1>3. LoggedIn => mesh'.loggedIn /\ mesh'.at \in Category \cup {"logout"}
  BY <1>1, CategoryFacts DEF LoggedIn, MeshState
<1>4. \/ LoggedIn /\ sessions' \subseteq sessions \cup {r} /\ UNCHANGED kept
      \/ sessions' = sessions \cup {r} /\ kept' = kept \cup {r}
      \/ UNCHANGED <<sessions, kept>>
  BY Zenon DEF Login
<1>5. CASE LoggedIn /\ sessions' \subseteq sessions \cup {r} /\ UNCHANGED kept
  BY <1>1, <1>2, <1>3, <1>5 DEF Sessions
<1>6. CASE \/ sessions' = sessions \cup {r} /\ kept' = kept \cup {r}
           \/ UNCHANGED <<sessions, kept>>
  <2>1. sessions' \subseteq kept'
    BY <1>1, <1>6
  <2> QED BY <1>2, <2>1 DEF Sessions
<1> QED BY <1>4, <1>5, <1>6

LEMMA SessionsStep ==
  ASSUME OrderInv, Sessions, CliNext PROVE Sessions'
<1>0. Typed /\ MeshShape /\ mesh \in MeshState
  BY DEF OrderInv, Typed, MeshShape
<1>1. ASSUME UNCHANGED <<sessions, kept, mesh>> PROVE Sessions'
  BY <1>1 DEF Sessions
<1>2. ASSUME \/ \E cmd \in Commands : CliConnect(cmd)
             \/ CliDecide \/ Answered \/ CliTimesOut \/ RunCommand
             \/ (\E r \in Repeaters : OtherChanges(r)) \/ CacheFollows
      PROVE  Sessions'
  BY <1>1, <1>2 DEF CliConnect, CliDecide, Answered, CliTimesOut, RunCommand, OtherChanges,
                    CacheFollows, KeepDetail, detailVars, air
<1>3. ASSUME \/ \E r \in Repeaters : Open(r)
             \/ Close \/ Receive \/ Dispatch \/ Forward \/ EndOfStream \/ DeadlinePasses
             \/ Reconnect \/ StrayLost
      PROVE  Sessions'
  BY <1>1, <1>3 DEF Open, Close, Receive, Dispatch, Forward, EndOfStream, DeadlinePasses,
                    Reconnect, StrayLost, air
<1>4. ASSUME TakeCommand({"detail", "telemetry"}) PROVE Sessions'
  <2>1. sessions \subseteq kept /\ UNCHANGED <<sessions, kept>>
    BY <1>0, <1>4, CategoryFacts DEF TakeCommand, Sessions, air
  <2>2. ~mesh'.loggedIn
    BY <1>0, <1>4, TakeSteps DEF Idle
  <2> QED BY <2>1, <2>2 DEF Sessions
<1>5. ASSUME Login PROVE Sessions'
  BY <1>0, <1>5, SessionsLogin
<1>6. ASSUME Fetch \/ FetchTelemetry PROVE Sessions'
  <2>1. UNCHANGED <<sessions, kept>>
    BY <1>6 DEF Fetch, FetchTelemetry, air
  <2>2. mesh.at \in Category
    BY <1>6, CategoryFacts DEF Fetch, FetchTelemetry
  <2>3. /\ mesh'.cmd = mesh.cmd /\ mesh'.loggedIn = mesh.loggedIn
        /\ mesh'.at \in Category \cup {"logout"}
    <3>1. CASE Fetch
      <4>1. mesh'.at = After[mesh.at] /\ mesh'.cmd = mesh.cmd /\ mesh'.loggedIn = mesh.loggedIn
        BY <1>0, <3>1, FetchSteps DEF MeshState
      <4> QED BY <2>2, <4>1, CategoryFacts
    <3>2. CASE FetchTelemetry
      BY <1>0, <3>2 DEF FetchTelemetry, MeshState
    <3> QED BY <1>6, <3>1, <3>2
  <2>4. mesh'.at # "login"
    BY <2>3, CategoryFacts
  <2> QED BY <2>1, <2>2, <2>3, <2>4 DEF Sessions
<1>7. ASSUME SendUpdate PROVE Sessions'
  <2>1. /\ UNCHANGED <<sessions, kept>> /\ mesh'.at = mesh.at /\ mesh'.cmd = mesh.cmd
        /\ mesh'.loggedIn = mesh.loggedIn
    BY <1>0, <1>7 DEF SendUpdate, air, MeshState
  <2> QED BY <2>1 DEF Sessions
<1>8. ASSUME Logout PROVE Sessions'
  <2>1. mesh.at = "logout" /\ mesh'.at = "done"
    BY <1>0, <1>8 DEF Logout, Go, MeshState
  <2>2. sessions \subseteq kept \cup (IF mesh.loggedIn THEN {mesh.cmd.on} ELSE {})
    BY <2>1 DEF Sessions
  <2>3. sessions' \subseteq kept'
    BY <1>8, <2>2 DEF Logout, Leaving
  <2> QED BY <2>1, <2>3 DEF Sessions
<1>9. ASSUME Finish PROVE Sessions'
  <2>1. sessions \subseteq kept /\ UNCHANGED <<sessions, kept>> /\ mesh' = Idle
    BY <1>9, CategoryFacts DEF Finish, Sessions, air
  <2> QED BY <2>1 DEF Sessions, Idle
<1> QED BY <1>2, <1>3, <1>4, <1>5, <1>6, <1>7, <1>8, <1>9 DEF CliNext, DetailNext

\* SessionsClosed: between two commands the only repeaters that may hold a login
\* of ours are those whose answer came too late or whose logout got lost; every
\* other path through a request, with or without a password, ends in a logout
\* (mesh_task.rs request_repeater_detail, request_telemetry).
THEOREM NoSessionIsForgotten == Spec => []SessionsClosed
<1>1. CliInit => OrderInv /\ Sessions
  BY OrderInit, CategoryFacts DEF CliInit, Init, Sessions, Idle
<1>2. OrderInv /\ Sessions /\ [CliNext]_vars => OrderInv' /\ Sessions'
  <2>1. ASSUME OrderInv, Sessions, UNCHANGED vars PROVE OrderInv' /\ Sessions'
    BY <2>1, OrderStutters DEF vars, detailVars, air, Sessions
  <2> QED BY <2>1, OrderStep, SessionsStep
<1>3. Sessions => SessionsClosed
  BY CategoryFacts DEF Sessions, SessionsClosed
<1> QED BY <1>1, <1>2, <1>3, PTL DEF Spec

-----------------------------------------------------------------------------
(* The report.                                                             *)

\* The commands the user may run.
LEMMA CommandFacts ==
  ASSUME NEW cmd \in Commands
  PROVE  /\ cmd.on \in Repeaters
         /\ cmd.do \in {"manage", "unmanage", "remove", "telemetry", "add"}
         /\ cmd.do = "add" => cmd.manage \in BOOLEAN /\ cmd.key \in {"lower", "upper"}
BY CliAssumption DEF KeyForms

LEMMA ViewFacts ==
  ASSUME NEW contacts, contacts \subseteq Repeaters, NEW managed, managed \subseteq Repeaters
  PROVE  /\ View(contacts, managed) \in ViewType
         /\ View(contacts, managed).listed = contacts \cup Heard
         /\ View(contacts, managed).registered = contacts
         /\ View(contacts, managed).managed = managed
BY CliAssumption DEF View, ViewType

LEMMA ReportInit == CliInit => ReportInv
<1> SUFFICES ASSUME CliInit PROVE ReportInv
  OBVIOUS
<1>1. /\ queue = <<>> /\ mesh.at = "idle" /\ reply = None /\ effect = "none" /\ report = None
      /\ cached = Registered /\ onNode = Registered /\ shown = View(Registered, tiers)
      /\ tiers \subseteq Registered /\ Registered \subseteq Repeaters /\ cli.at = "start"
      /\ disturbed = FALSE
  BY DetailAssumption DEF CliInit, Init, Idle
<1>2. Others(queue) = {} /\ ~Answering /\ ~Live
  BY <1>1 DEF Others, Answering, Live
<1>3. ReportTyped /\ Alone /\ Sent /\ Outcome /\ Before
  BY <1>1, <1>2, ViewFacts DEF ReportTyped, Alone, Sent, Outcome, Before
<1>4. Shows /\ ReportTruthful
  BY <1>1, CliAssumption DEF Shows, ReportTruthful, Reports
<1> QED BY <1>3, <1>4 DEF ReportInv

\* A step that neither sends nor ends the command line's request.
LEMMA ReportKept ==
  ASSUME ReportInv, Others(queue)' = Others(queue),
         \A i \in Others(queue) : queue'[i] = queue[i],
         Answering' => Answering, Live' => Live,
         UNCHANGED <<cached, onNode, tiers, shown, cli, report, disturbed, effect, reply>>
  PROVE  ReportInv'
<1> USE DEF ReportInv
<1>1. ReportTyped' /\ Alone' /\ Outcome'
  BY DEF ReportTyped, Alone, Outcome
<1>2. Sent'
  BY DEF Sent
<1>3. Before'
  BY DEF Before
<1>4. Shows' /\ ReportTruthful'
  BY DEF Shows, Verdict, FindsContact, ReportTruthful
<1> QED BY <1>1, <1>2, <1>3, <1>4

\* The outcome of a telemetry request reaches the reply once (mesh_task.rs
\* request_telemetry).
LEMMA ReportReplied ==
  ASSUME ReportInv, queue' = queue, Live, Others(queue) = {}, Answering,
         Answering' => mesh'.at = "done" /\ mesh'.out = <<>>,
         NEW ok \in BOOLEAN, NEW id, reply' = [id |-> id, ok |-> ok], NoteTelemetry,
         UNCHANGED <<cached, onNode, tiers, shown, cli, report, disturbed>>
  PROVE  ReportInv'
<1> USE DEF ReportInv
<1>1. effect = "none" /\ cli.cmd.do = "telemetry"
  BY DEF Outcome, Sent
<1>2. reply = None
  BY <1>1 DEF Outcome
<1>3. ~Live' /\ Others(queue)' = {}
  BY DEF Live, Others
<1>4. reply' # None => effect' = (IF ok THEN "ok" ELSE "failed") /\ reply'.ok = ok
  BY <1>2 DEF NoteTelemetry
<1>5. reply' = None => effect' = effect
  BY <1>2 DEF NoteTelemetry
<1>6. ReportTyped' /\ Alone' /\ Outcome'
  BY <1>3, <1>4, <1>5 DEF ReportTyped, Alone, Outcome
<1>7. Sent'
  BY <1>1, <1>3, <1>4 DEF Sent
<1>8. Before'
  BY <1>1, <1>3 DEF Before
<1>9. Shows' /\ ReportTruthful'
  BY <1>1, <1>4, <1>5 DEF Shows, ReportTruthful
<1> QED BY <1>6, <1>7, <1>8, <1>9

\* Taking the oldest request, by what it is.
LEMMA OthersTail ==
  ASSUME OrderInv, Alone, queue # <<>>, queue' = Tail(queue)
  PROVE  /\ \A i \in Others(queue)' : i + 1 \in Others(queue) /\ queue'[i] = queue[i + 1]
         /\ \A i, j \in Others(queue)' : i = j
         /\ Head(queue).kind # "detail" => Others(queue) # {} /\ Others(queue)' = {}
                                           /\ 1 \in Others(queue) /\ Head(queue) = queue[1]
<1>1. Channels /\ Numbered /\ Ordered
  BY DEF OrderInv, Typed
<1>2. /\ DOMAIN queue' = 1..(Len(queue) - 1) /\ DOMAIN queue = 1..Len(queue)
      /\ Len(queue) \in Nat /\ Head(queue) = queue[1] /\ 1 \in DOMAIN queue
      /\ \A i \in DOMAIN queue' : i + 1 \in DOMAIN queue /\ queue'[i] = queue[i + 1]
  BY <1>1, HeadFirst, HeadTailProperties, LenProperties DEF Channels
<1>3. \A i \in Others(queue)' : i + 1 \in Others(queue) /\ queue'[i] = queue[i + 1]
  BY <1>2 DEF Others
<1>4. \A i \in Others(queue)' : i \in Nat \ {0}
  BY <1>2 DEF Others
<1>5. \A i, j \in Others(queue)' : i + 1 = j + 1
  BY <1>3 DEF Alone
<1>6. \A i, j \in Others(queue)' : i = j
  BY <1>4, <1>5
<1>7. ASSUME Head(queue).kind # "detail" PROVE Others(queue)' = {} /\ 1 \in Others(queue)
  <2>1. 1 \in Others(queue)
    BY <1>2, <1>7 DEF Others
  <2>2. \A i \in Others(queue)' : i + 1 = 1
    BY <1>3, <2>1 DEF Alone
  <2> QED BY <1>4, <2>1, <2>2
<1> QED BY <1>2, <1>3, <1>6, <1>7

\* The mesh task takes a request of either kind.
LEMMA ReportTake ==
  ASSUME OrderInv, ReportInv, TakeCommand({"detail", "telemetry"}), NoteTelemetry,
         UNCHANGED <<onNode, tiers, shown, cli, report, disturbed>>
  PROVE  ReportInv'
<1> USE DEF ReportInv
<1>0. Typed /\ Typed'
  BY TypedTask DEF OrderInv
<1>1. UNCHANGED <<cached, reply>> /\ queue' = Tail(queue) /\ queue # <<>> /\ mesh.at = "idle"
  BY DEF TakeCommand, air
<1>2. effect' = effect
  BY <1>1 DEF NoteTelemetry
<1>3. mesh'.cmd = Head(queue)
  BY <1>0, TakeSteps
<1>4. /\ \A i \in Others(queue)' : i + 1 \in Others(queue) /\ queue'[i] = queue[i + 1]
      /\ \A i, j \in Others(queue)' : i = j
      /\ Head(queue).kind # "detail" => /\ Others(queue) # {} /\ Others(queue)' = {}
                                        /\ 1 \in Others(queue) /\ Head(queue) = queue[1]
  BY <1>1, OthersTail
<1>5. Answering' => Others(queue) # {} /\ Others(queue)' = {} /\ Head(queue).kind = "telemetry"
                    /\ 1 \in Others(queue) /\ Head(queue) = queue[1]
  BY <1>3, <1>4 DEF Answering
<1>6. Others(queue)' # {} => Others(queue) # {}
  BY <1>4
<1>7. Live' => Live
  BY <1>5, <1>6 DEF Live
<1>8. ReportTyped' /\ Alone' /\ Outcome'
  BY <1>1, <1>2, <1>4, <1>5, <1>7 DEF ReportTyped, Alone, Outcome
<1>9. Sent'
  <2>1. cli.at \in {"start", "deciding"} => Others(queue)' = {} /\ ~Answering'
    BY <1>5, <1>6 DEF Sent
  <2>2. \A i \in Others(queue)' : queue'[i].kind = "telemetry" <=> cli.cmd.do = "telemetry"
    BY <1>4 DEF Sent
  <2>3. Answering' => cli.cmd.do = "telemetry"
    BY <1>5 DEF Sent
  <2> QED BY <1>1, <1>2, <2>1, <2>2, <2>3 DEF Sent
<1>10. Before'
  BY <1>1, <1>2, <1>6 DEF Before
<1>11. Shows' /\ ReportTruthful'
  BY <1>1, <1>2 DEF Shows, Verdict, FindsContact, ReportTruthful
<1> QED BY <1>8, <1>9, <1>10, <1>11

\* What a command leaves in the contacts and tiers, and in the snapshot when it
\* is rebuilt from them (mesh_task.rs set_repeater_status, refresh_snapshot_contacts).
LEMMA EffectFacts ==
  ASSUME NEW cmd \in Commands, cmd.do # "telemetry", ReportTyped, Effect(cmd)
  PROVE  /\ onNode' \subseteq Repeaters /\ tiers' \subseteq Repeaters
         /\ cached = onNode /\ (cmd.do # "add" => cmd.on \in onNode \cup Heard) /\ shown' = View(onNode', tiers')
            => \/ Verdict(cmd)' = "success"
               \/ cmd.do = "add" /\ cmd.key = "upper"
<1>0. /\ cmd.on \in Repeaters /\ cmd.do \in {"manage", "unmanage", "remove", "add"}
      /\ cmd.do = "add" => cmd.manage \in BOOLEAN /\ cmd.key \in {"lower", "upper"}
  BY CommandFacts
<1>1. onNode \subseteq Repeaters /\ tiers \subseteq Repeaters
  BY DEF ReportTyped
<1>2. CASE cmd.do = "manage"
  <2>1. /\ cmd.on \in cached \cup Heard
        /\ onNode' = IF cmd.on \in cached THEN onNode ELSE onNode \cup {cmd.on}
        /\ tiers' = tiers \cup {cmd.on}
    BY <1>2 DEF Effect
  <2> QED BY <1>0, <1>1, <1>2, <2>1 DEF Verdict, FindsContact, View
<1>3. CASE cmd.do = "unmanage"
  <2>1. onNode' = onNode /\ tiers' = tiers \ {cmd.on}
    BY <1>3 DEF Effect
  <2> QED BY <1>0, <1>1, <1>3, <2>1 DEF Verdict, FindsContact, View
<1>4. CASE cmd.do = "remove"
  <2>1. cmd.on \in cached /\ onNode' = onNode \ {cmd.on} /\ tiers' = tiers
    BY <1>4 DEF Effect
  <2> QED BY <1>0, <1>1, <1>4, <2>1 DEF Verdict, FindsContact, View
<1>5. CASE cmd.do = "add"
  <2>1. /\ onNode' = IF cmd.on \in cached THEN onNode ELSE onNode \cup {cmd.on}
        /\ tiers' = IF cmd.manage THEN tiers \cup {cmd.on} ELSE tiers
    BY <1>5 DEF Effect
  <2> QED BY <1>0, <1>1, <1>5, <2>1 DEF Verdict, FindsContact, View
<1> QED BY <1>0, <1>2, <1>3, <1>4, <1>5

\* The command is run once, and its reply tells how it ended.
LEMMA ReportRun ==
  ASSUME OrderInv, ReportInv, RunCommand PROVE ReportInv'
<1> USE DEF ReportInv
<1>1. /\ queue # <<>> /\ queue' = Tail(queue) /\ mesh.at = "idle" /\ mesh' = mesh
      /\ Head(queue).kind = "command" /\ UNCHANGED <<cached, cli, report>>
      /\ reply' = IF cli.at = "waiting" THEN [id |-> handler, ok |-> effect' = "ok"] ELSE None
  BY DEF RunCommand
<1>2. Others(queue) # {} /\ Others(queue)' = {} /\ 1 \in Others(queue) /\ Head(queue) = queue[1]
  BY <1>1, OthersTail
<1>3. Live /\ ~Live' /\ ~Answering'
  BY <1>1, <1>2 DEF Live, Answering
<1>4. /\ cli.at \notin {"start", "deciding"} /\ effect = "none" /\ cli.cmd.do # "telemetry"
      /\ cli.cmd \in Commands
  BY <1>1, <1>2, <1>3 DEF Sent, Outcome, OrderInv, CommandKnown
<1>5. /\ cached = onNode
      /\ cli.at \in {"waiting", "gone"} /\ cli.cmd.do # "add" => cli.cmd.on \in onNode \cup Heard
  BY <1>2, <1>4 DEF Before
<1>6. Alone' /\ Sent'
  BY <1>1, <1>2, <1>3, <1>4 DEF Alone, Sent
<1>7. report \notin {"success", "error", "mismatch", "not found"}
  BY <1>4 DEF ReportTruthful
<1>8. ReportTruthful'
  BY <1>1, <1>7 DEF ReportTruthful
<1>9. CASE Effect(cli.cmd) /\ Refresh /\ effect' = "ok"
  <2>1. /\ onNode' \subseteq Repeaters /\ tiers' \subseteq Repeaters
        /\ cached = onNode /\ (cli.cmd.do # "add" => cli.cmd.on \in onNode \cup Heard)
           /\ shown' = View(onNode', tiers')
           => \/ Verdict(cli.cmd)' = "success"
              \/ cli.cmd.do = "add" /\ cli.cmd.key = "upper"
    <3> DEFINE cmd == cli.cmd
    <3>1. cmd \in Commands /\ cmd.do # "telemetry" /\ ReportTyped /\ Effect(cmd) /\ cmd' = cmd
      BY <1>1, <1>4, <1>9
    <3>2. \A c \in Commands : c.do # "telemetry" /\ Effect(c) =>
            /\ onNode' \subseteq Repeaters /\ tiers' \subseteq Repeaters
            /\ cached = onNode /\ (c.do # "add" => c.on \in onNode \cup Heard)
               /\ shown' = View(onNode', tiers')
               => \/ Verdict(c)' = "success"
                  \/ c.do = "add" /\ c.key = "upper"
      BY EffectFacts
    <3> QED BY <3>1, <3>2
  <2>2. PICK contacts \in {onNode', cached'} :
          shown' = View(contacts, tiers') /\ disturbed' = (disturbed \/ contacts # onNode')
    BY <1>9 DEF Refresh
  <2>3. cached' \subseteq Repeaters /\ contacts \subseteq Repeaters
    BY <1>1, <2>1, <2>2 DEF ReportTyped
  <2>4. shown' \in ViewType
    BY <2>1, <2>2, <2>3, ViewFacts
  <2>5. ReportTyped'
    BY <1>1, <2>1, <2>3, <2>4 DEF ReportTyped
  <2>6. Outcome' /\ Before'
    BY <1>1, <1>3, <1>9 DEF Outcome, Before
  <2>7. Shows'
    BY <1>1, <1>4, <1>5, <2>1, <2>2 DEF Shows
  <2> QED BY <1>6, <1>8, <2>5, <2>6, <2>7
<1>10. CASE PartEffect(cli.cmd) /\ effect' = "failed" /\ UNCHANGED <<shown, disturbed>>
  <2>1. onNode' \subseteq Repeaters /\ tiers' \subseteq Repeaters
    <3>1. CASE UNCHANGED <<onNode, tiers>>
      BY <3>1 DEF ReportTyped
    <3>2. CASE Effect(cli.cmd)
      BY <1>4, <3>2, EffectFacts
    <3> QED BY <1>10, <3>1, <3>2 DEF PartEffect
  <2>2. ReportTyped'
    BY <1>1, <1>10, <2>1 DEF ReportTyped
  <2>3. Outcome' /\ Before' /\ Shows'
    BY <1>1, <1>3, <1>10 DEF Outcome, Before, Shows
  <2> QED BY <1>6, <1>8, <2>2, <2>3
<1> QED BY <1>9, <1>10 DEF RunCommand

\* The command line decides on the snapshot it has seen.
LEMMA ReportDecide ==
  ASSUME OrderInv, ReportInv, CliDecide PROVE ReportInv'
<1> USE DEF ReportInv
<1>1. /\ cli.at = "deciding" /\ cli.cmd \in Commands /\ mesh' = mesh
      /\ UNCHANGED <<cached, reply, onNode, tiers, shown, effect, disturbed>>
  BY DecideSteps DEF KeepDaemon, air
<1>2. /\ Others(queue) = {} /\ ~Answering /\ reply = None /\ effect = "none" /\ report = None
      /\ ~Answering'
  BY <1>1 DEF Sent, Answering
<1>3. ReportTyped' /\ Outcome'
  BY <1>1, <1>2 DEF ReportTyped, Outcome
<1>4. PICK d \in Decided :
        \/ /\ d = "send" /\ Forwarded(cli.cmd) \in Request
           /\ Forwarded(cli.cmd).id = last + 1 /\ Forwarded(cli.cmd).kind # "detail"
           /\ Forwarded(cli.cmd).kind = "telemetry" <=> cli.cmd.do = "telemetry"
           /\ cli' = [cli EXCEPT !.at = "waiting"]
           /\ handler' = last + 1 /\ last' = last + 1
           /\ result' = Append(result, Blank("none"))
           /\ queue' = Append(queue, Forwarded(cli.cmd))
           /\ UNCHANGED report
        \/ d # "send" /\ Exit(d) /\ UNCHANGED <<last, result, queue>>
  BY DecideSteps
<1>5. CASE d = "send"
  <2>1. /\ DOMAIN queue' = 1..(Len(queue) + 1) /\ DOMAIN queue = 1..Len(queue)
        /\ Len(queue) \in Nat
        /\ \A i \in DOMAIN queue : queue'[i] = queue[i]
        /\ queue'[Len(queue) + 1] = Forwarded(cli.cmd)
    BY <1>4, <1>5, DecideSteps, OrderSend
  <2>2. \A i \in Others(queue)' : i = Len(queue) + 1
    BY <1>2, <2>1 DEF Others
  <2>3. Alone'
    BY <1>2, <2>2 DEF Alone
  <2>4. cli' = [at |-> "waiting", cmd |-> cli.cmd, seen |-> cli.seen]
    BY <1>4, <1>5 DEF OrderInv, CommandKnown
  <2>5. Sent'
    BY <1>2, <1>4, <1>5, <2>1, <2>2, <2>4 DEF Sent
  <2>6. cli.cmd.do # "add" => cli.cmd.on \in onNode \cup Heard
    <3>1. cli.seen.listed = onNode \cup Heard
      BY <1>1, <1>2 DEF Before
    <3>2. cli.cmd.do # "add" => cli.cmd.on \in cli.seen.listed
      BY <1>4, <1>5 DEF Decided
    <3> QED BY <3>1, <3>2
  <2>7. Before'
    BY <1>1, <1>2, <2>4, <2>6 DEF Before
  <2>8. Shows' /\ ReportTruthful'
    BY <1>1, <1>2, <1>4, <1>5, <2>4 DEF Shows, ReportTruthful
  <2> QED BY <1>3, <2>3, <2>5, <2>7, <2>8
<1>6. CASE d # "send"
  <2>1. queue' = queue /\ report' = d /\ cli'.at = "gone" /\ cli'.cmd = cli.cmd
    BY <1>4, <1>6 DEF Exit, OrderInv, CommandKnown
  <2>2. d \notin {"success", "error", "mismatch", "not found"}
    BY <1>4 DEF Decided
  <2>3. Alone' /\ Sent' /\ Before' /\ Shows' /\ ReportTruthful'
    BY <1>1, <1>2, <2>1, <2>2 DEF Alone, Sent, Before, Shows, ReportTruthful, Others
  <2> QED BY <1>3, <2>3
<1> QED BY <1>5, <1>6

\* The other steps of the command line and of the clients.
LEMMA ReportAnswered ==
  ASSUME OrderInv, ReportInv, Answered PROVE ReportInv'
<1> USE DEF ReportInv
<1> DEFINE what == IF ~reply.ok THEN "error"
                   ELSE IF cli.cmd.do = "telemetry" THEN "success" ELSE Verdict(cli.cmd)
<1>1. /\ cli.at = "waiting" /\ reply # None /\ reply' = None /\ report' = what
      /\ cli'.at = "gone" /\ cli'.cmd = cli.cmd /\ queue' = queue /\ mesh' = mesh
      /\ UNCHANGED <<cached, onNode, tiers, shown, effect, disturbed>>
  BY DEF Answered, Exit, OrderInv, CommandKnown, KeepDaemon, air, asking
<1>2. effect = (IF reply.ok THEN "ok" ELSE "failed") /\ reply.ok \in BOOLEAN
  BY <1>1 DEF Outcome, ReportTyped
<1>3. CASE reply.ok
  <2>1. effect = "ok" /\ what = (IF cli.cmd.do = "telemetry" THEN "success" ELSE Verdict(cli.cmd))
    BY <1>2, <1>3
  <2>2. what # "success" => disturbed \/ (cli.cmd.do = "add" /\ cli.cmd.key = "upper")
    BY <1>1, <2>1 DEF Shows
  <2>3. cli.cmd \in Commands
    BY <1>1 DEF OrderInv, CommandKnown
  <2>4. cli.cmd.do # "telemetry" => Verdict(cli.cmd) # "error"
    BY <2>3, CommandFacts DEF Verdict
  <2>5. what # "error"
    BY <2>1, <2>4
  <2> HIDE DEF what
  <2>6. ReportTruthful'
    BY <1>1, <2>1, <2>2, <2>5 DEF ReportTruthful
  <2> QED BY <1>1, <2>6 DEF ReportTyped, Alone, Sent, Outcome, Before, Shows, Others, Live, Answering
<1>4. CASE ~reply.ok
  <2>1. effect = "failed" /\ what = "error"
    BY <1>2, <1>4
  <2> HIDE DEF what
  <2>2. ReportTruthful'
    BY <1>1, <2>1 DEF ReportTruthful
  <2> QED BY <1>1, <2>2 DEF ReportTyped, Alone, Sent, Outcome, Before, Shows, Others, Live, Answering
<1> QED BY <1>3, <1>4

LEMMA ReportClients ==
  ASSUME OrderInv, ReportInv,
         \/ \E cmd \in Commands : CliConnect(cmd)
         \/ CliTimesOut \/ (\E r \in Repeaters : OtherChanges(r)) \/ CacheFollows
  PROVE  ReportInv'
<1> USE DEF ReportInv
<1>1. queue' = queue /\ mesh' = mesh /\ reply' = reply /\ effect' = effect
  BY DEF CliConnect, CliTimesOut, OtherChanges, CacheFollows, KeepDetail, KeepDaemon, cliVars,
         detailVars, asking
<1>2. Alone' /\ Outcome' /\ Others(queue)' = Others(queue) /\ (Answering' <=> Answering)
  BY <1>1 DEF Alone, Outcome, Others, Answering, Live
<1>3. ASSUME NEW cmd \in Commands, CliConnect(cmd) PROVE ReportInv'
  <2>1. /\ cli.at = "start" /\ cli' = [at |-> "deciding", cmd |-> cmd, seen |-> shown]
        /\ UNCHANGED <<cached, onNode, tiers, shown, report, disturbed>>
    BY <1>3 DEF CliConnect, KeepDaemon, detailVars, air
  <2>2. ReportTyped' /\ Sent' /\ Before' /\ Shows' /\ ReportTruthful'
    BY <1>1, <1>2, <2>1 DEF ReportTyped, Sent, Before, Shows, ReportTruthful
  <2> QED BY <1>2, <2>2
<1>4. ASSUME CliTimesOut PROVE ReportInv'
  <2>1. /\ cli.at = "waiting" /\ cli'.at = "gone" /\ cli'.cmd = cli.cmd /\ report' = "timed out"
        /\ UNCHANGED <<cached, onNode, tiers, shown, disturbed>>
    BY <1>4 DEF CliTimesOut, Exit, KeepDaemon, detailVars, air, OrderInv, CommandKnown
  <2>2. ReportTyped' /\ Sent' /\ Before' /\ Shows' /\ ReportTruthful'
    BY <1>1, <1>2, <2>1 DEF ReportTyped, Sent, Before, Shows, ReportTruthful
  <2> QED BY <1>2, <2>2
<1>5. ASSUME NEW r \in Repeaters, OtherChanges(r) PROVE ReportInv'
  <2>1. /\ tiers' \subseteq Repeaters /\ UNCHANGED <<cached, onNode, cli, report>>
        /\ disturbed' = TRUE
    BY <1>5 DEF OtherChanges, ReportTyped
  <2>2. PICK contacts \in {onNode, cached} : shown' = View(contacts, tiers')
    BY <1>5 DEF OtherChanges
  <2>3. /\ shown' \in ViewType /\ shown'.listed = contacts \cup Heard
    BY <2>1, <2>2, ViewFacts DEF ReportTyped
  <2>4. ReportTyped' /\ Sent' /\ Before' /\ Shows' /\ ReportTruthful'
    BY <1>1, <1>2, <2>1, <2>2, <2>3 DEF ReportTyped, Sent, Before, Shows, ReportTruthful
  <2> QED BY <1>2, <2>4
<1>6. ASSUME CacheFollows PROVE ReportInv'
  <2>1. cached' = onNode /\ UNCHANGED <<onNode, tiers, shown, cli, report, disturbed>>
    BY <1>6 DEF CacheFollows, cliVars
  <2>2. ReportTyped' /\ Sent' /\ Before' /\ Shows' /\ ReportTruthful'
    BY <1>1, <1>2, <2>1 DEF ReportTyped, Sent, Before, Shows, Verdict, FindsContact, ReportTruthful
  <2> QED BY <1>2, <2>2
<1> QED BY <1>3, <1>4, <1>5, <1>6

\* The steps of the terminal UI's requests next to it.
LEMMA ReportDetail ==
  ASSUME OrderInv, ReportInv, DetailNext, NoteTelemetry,
         UNCHANGED <<onNode, tiers, shown, cli, handler, report, changes, disturbed>>
  PROVE  ReportInv'
<1> USE DEF ReportInv
<1>0. Typed /\ Channels /\ MeshShape /\ mesh \in MeshState /\ Numbered /\ Ordered /\ Typed'
  BY OrderStep DEF OrderInv, Typed, MeshShape, CliNext
<1>1. ASSUME UNCHANGED <<queue, reply, cached>>, Answering' => Answering, Live' => Live
      PROVE  ReportInv'
  <2>1. effect' = effect
    BY <1>1 DEF NoteTelemetry
  <2>2. Others(queue)' = Others(queue) /\ \A i \in Others(queue) : queue'[i] = queue[i]
    BY <1>1 DEF Others
  <2> QED BY <1>1, <2>1, <2>2, ReportKept
<1>2. ASSUME UNCHANGED <<queue, reply, cached, mesh>> PROVE ReportInv'
  BY <1>1, <1>2 DEF Answering, Live, Others
<1>3. ASSUME \/ \E r \in Repeaters : Open(r)
             \/ Close \/ Receive \/ Forward \/ EndOfStream \/ DeadlinePasses \/ Reconnect \/ StrayLost
      PROVE  ReportInv'
  BY <1>2, <1>3 DEF Open, Close, Receive, Forward, EndOfStream, DeadlinePasses, Reconnect,
                    StrayLost, air, asking
<1>4. ASSUME Dispatch PROVE ReportInv'
  <2>1. UNCHANGED <<reply, cached, mesh>> /\ toServer # <<>>
    BY <1>4 DEF Dispatch, air
  <2>2. srv' \in Asked /\ queue' = Append(queue, srv')
    BY <1>0, <1>4, OrderDispatch
  <2>3. srv' \in Request /\ srv'.kind = "detail"
    BY <2>2, RequestFacts
  <2>4. /\ DOMAIN queue' = 1..(Len(queue) + 1) /\ DOMAIN queue = 1..Len(queue)
        /\ Len(queue) \in Nat
        /\ \A i \in 1..Len(queue) : queue'[i] = queue[i]
        /\ queue'[Len(queue) + 1] = srv'
    BY <1>0, <2>2, <2>3, LenProperties, AppendProperties DEF Channels
  <2>5. Others(queue)' = Others(queue) /\ \A i \in Others(queue) : queue'[i] = queue[i]
    BY <2>3, <2>4 DEF Others
  <2>6. effect' = effect
    BY <2>1 DEF NoteTelemetry
  <2>7. (Answering' => Answering) /\ (Live' => Live)
    BY <2>1, <2>5 DEF Answering, Live
  <2> QED BY <2>1, <2>5, <2>6, <2>7, ReportKept
<1>5. ASSUME TakeCommand({"detail", "telemetry"}) PROVE ReportInv'
  BY <1>5, ReportTake
<1>6. ASSUME Login PROVE ReportInv'
  <2>1. UNCHANGED <<queue, cached>>
    BY <1>6 DEF Login, asking
  <2>2. mesh.at = "login" /\ mesh.cmd \in Request /\ mesh'.cmd = mesh.cmd
    BY <1>0, <1>6, LoginSteps DEF LoginEnds, MeshState
  <2>3. mesh.cmd.kind \in {"detail", "telemetry"}
    BY <1>0, <2>2 DEF MeshShape
  <2>4. CASE UNCHANGED reply
    BY <1>1, <2>1, <2>2, <2>4 DEF Answering, Live, Others
  <2>5. CASE /\ mesh.cmd.kind = "telemetry" /\ LoginEnds("done", <<>>)
             /\ reply' = [id |-> mesh.cmd.id, ok |-> FALSE]
    <3>1. Answering /\ Live /\ Others(queue) = {}
      BY <2>2, <2>5 DEF Answering, Live, Alone
    <3>2. mesh'.at = "done" /\ mesh'.out = <<>>
      BY <1>0, <2>5 DEF LoginEnds, MeshState
    <3> QED BY <2>1, <2>5, <3>1, <3>2, ReportReplied
  <2> QED BY <1>0, <1>6, <2>4, <2>5, LoginSteps
<1>7. ASSUME Fetch PROVE ReportInv'
  <2>1. UNCHANGED <<queue, reply, cached>>
    BY <1>7 DEF Fetch, asking, air
  <2>2. mesh.cmd.kind = "detail" /\ mesh'.cmd = mesh.cmd
    BY <1>0, <1>7, FetchSteps DEF Fetch, MeshState
  <2> QED BY <1>1, <2>1, <2>2 DEF Answering, Live, Others
<1>8. ASSUME FetchTelemetry PROVE ReportInv'
  <2>1. UNCHANGED <<queue, reply, cached>> /\ mesh'.cmd = mesh.cmd
    BY <1>0, <1>8 DEF FetchTelemetry, asking, air, MeshState
  <2>2. Answering /\ mesh.at # "done"
    BY <1>8 DEF Answering, FetchTelemetry
  <2> QED BY <1>1, <2>1, <2>2 DEF Live
<1>9. ASSUME SendUpdate PROVE ReportInv'
  <2>1. UNCHANGED <<queue, reply, cached>> /\ mesh'.cmd = mesh.cmd /\ mesh.cmd.kind = "detail"
    BY <1>0, <1>9 DEF SendUpdate, air, MeshState
  <2> QED BY <1>1, <2>1 DEF Answering, Live, Others
<1>10. ASSUME Logout PROVE ReportInv'
  <2>1. /\ UNCHANGED <<queue, reply, cached>> /\ mesh'.cmd = mesh.cmd /\ mesh.at = "logout"
        /\ mesh'.at = "done"
    BY <1>0, <1>10 DEF Logout, Go, asking, MeshState
  <2> QED BY <1>1, <2>1 DEF Answering, Live, Others
<1>11. ASSUME Finish PROVE ReportInv'
  <2>1. UNCHANGED <<queue, cached>> /\ mesh' = Idle /\ mesh.at = "done"
    BY <1>11 DEF Finish, asking, air
  <2>2. ~Answering'
    BY <2>1 DEF Answering, Idle
  <2>3. CASE mesh.cmd.kind = "telemetry" /\ mesh.out # <<>>
    <3>1. /\ mesh.out \in Seq(Answer) /\ Answering /\ Live
      BY <1>0, <2>1, <2>3 DEF MeshShape, Answering, Live
    <3>2. PICK id \in Nat, ok \in BOOLEAN : Head(mesh.out) = [id |-> id, ok |-> ok]
      <4>1. Head(mesh.out) \in Answer
        BY <2>3, <3>1, HeadTailProperties
      <4>2. \A m \in Answer : m.id \in Nat /\ m.ok \in BOOLEAN /\ m = [id |-> m.id, ok |-> m.ok]
        BY DEF Answer
      <4> QED BY <4>1, <4>2
    <3>3. reply' = [id |-> id, ok |-> ok]
      BY <1>11, <2>3, <3>2 DEF Finish
    <3>4. Others(queue) = {}
      BY <3>1 DEF Alone
    <3> QED BY <2>1, <2>2, <3>1, <3>3, <3>4, ReportReplied
  <2>4. CASE ~(mesh.cmd.kind = "telemetry" /\ mesh.out # <<>>)
    <3>1. UNCHANGED reply
      BY <1>11, <2>4 DEF Finish
    <3> QED BY <1>1, <2>1, <2>2, <3>1 DEF Live, Others
  <2> QED BY <2>3, <2>4
<1> QED BY <1>3, <1>4, <1>5, <1>6, <1>7, <1>8, <1>9, <1>10, <1>11 DEF DetailNext

LEMMA ReportStep ==
  ASSUME OrderInv, ReportInv, CliNext PROVE ReportInv'
BY ReportDecide, ReportRun, ReportAnswered, ReportClients, ReportDetail DEF CliNext

\* ReportTruthful: the command line reports success only for what the mesh task
\* has done, an error only if it failed, and a mismatch or a missing contact only
\* when the snapshot shows more than the command or the key was typed in capitals
\* (repeater.rs wait_for_outcome; a timed-out command reports neither).
THEOREM ReportsWhatHappened == Spec => []ReportTruthful
<1>1. CliInit => OrderInv /\ ReportInv
  BY OrderInit, ReportInit
<1>2. OrderInv /\ ReportInv /\ [CliNext]_vars => OrderInv' /\ ReportInv'
  <2>1. ASSUME OrderInv, ReportInv, UNCHANGED vars PROVE OrderInv' /\ ReportInv'
    <3>1. /\ UNCHANGED <<queue, mesh, cached, onNode, tiers, shown, cli, report, disturbed, effect, reply>>
      BY <2>1 DEF vars, detailVars, cliVars, asking, air
    <3>2. ReportInv'
      BY <2>1, <3>1, ReportKept DEF Others, Answering, Live
    <3> QED BY <2>1, <3>2, OrderStutters
  <2> QED BY <2>1, OrderStep, ReportStep
<1>3. ReportInv => ReportTruthful
  BY DEF ReportInv
<1> QED BY <1>1, <1>2, <1>3, PTL DEF Spec

-----------------------------------------------------------------------------
(* The popup.                                                              *)

\* What a sequence holds when its head is taken, or an element is appended.
LEMMA TailRange ==
  ASSUME NEW S, NEW s \in Seq(S), s # <<>>
  PROVE  /\ Head(s) \in S /\ Tail(s) \in Seq(S) /\ Head(s) = s[1] /\ 1 \in DOMAIN s
         /\ Range(s) = {Head(s)} \cup Range(Tail(s))
         /\ \A i \in DOMAIN Tail(s) : i + 1 \in DOMAIN s /\ Tail(s)[i] = s[i + 1] /\ i \in Nat \ {0}
<1>1. /\ Head(s) \in S /\ Tail(s) \in Seq(S) /\ Head(s) = s[1] /\ 1 \in DOMAIN s
      /\ Len(s) \in Nat /\ DOMAIN s = 1..Len(s) /\ DOMAIN Tail(s) = 1..(Len(s) - 1)
      /\ \A i \in 1..(Len(s) - 1) : Tail(s)[i] = s[i + 1]
  BY HeadTailProperties, LenProperties
<1>2. \A i \in DOMAIN Tail(s) : i + 1 \in DOMAIN s /\ Tail(s)[i] = s[i + 1] /\ i \in Nat \ {0}
  BY <1>1
<1>3. \A i \in DOMAIN s : i = 1 \/ (i - 1 \in DOMAIN Tail(s) /\ s[i] = Tail(s)[i - 1])
  BY <1>1
<1>4. Range(s) \subseteq {Head(s)} \cup Range(Tail(s))
  BY <1>1, <1>3 DEF Range
<1>5. {Head(s)} \cup Range(Tail(s)) \subseteq Range(s)
  BY <1>1, <1>2 DEF Range
<1> QED BY <1>1, <1>2, <1>4, <1>5

LEMMA AppendRange ==
  ASSUME NEW S, NEW s \in Seq(S), NEW x \in S
  PROVE  /\ Range(Append(s, x)) = Range(s) \cup {x}
         /\ DOMAIN Append(s, x) = 1..(Len(s) + 1) /\ DOMAIN s = 1..Len(s) /\ Len(s) \in Nat
         /\ \A i \in DOMAIN s : Append(s, x)[i] = s[i]
         /\ Append(s, x)[Len(s) + 1] = x
<1>1. /\ DOMAIN Append(s, x) = 1..(Len(s) + 1) /\ DOMAIN s = 1..Len(s) /\ Len(s) \in Nat
      /\ \A i \in DOMAIN s : Append(s, x)[i] = s[i]
      /\ Append(s, x)[Len(s) + 1] = x
  BY LenProperties, AppendProperties
<1>2. \A i \in DOMAIN Append(s, x) : i \in DOMAIN s \/ i = Len(s) + 1
  BY <1>1
<1>3. DOMAIN s \subseteq DOMAIN Append(s, x) /\ Len(s) + 1 \in DOMAIN Append(s, x)
  BY <1>1
<1> QED BY <1>1, <1>2, <1>3 DEF Range

LEMMA SeqRange ==
  ASSUME NEW S, NEW s \in Seq(S)
  PROVE  Range(s) \subseteq S /\ (\A i \in DOMAIN s : s[i] \in Range(s))
BY LenProperties DEF Range

LEMMA NoRange == Range(<<>>) = {}
BY DEF Range

\* The requests on their way, in the order's terms.
LEMMA WaitingFacts ==
  ASSUME OrderInv
  PROVE  /\ \A q \in Waiting : q \in Request /\ q.id \in 1..last
         /\ Range(toServer) \subseteq Asked /\ Range(queue) \subseteq Request
         /\ mesh.at # "idle" => /\ mesh.cmd \in Request /\ mesh.cmd.id \in 1..last
                                /\ \A q \in Waiting : Precede(mesh.cmd, q)
         /\ srv # None => /\ srv \in Asked /\ srv.id \in 1..last
                          /\ \A q \in Range(toServer) : srv.id < q.id
<1>1. /\ queue \in Seq(Request) /\ toServer \in Seq(Asked) /\ srv \in Asked \cup {None}
  BY DEF OrderInv, Typed, Channels
<1>2. Range(toServer) \subseteq Asked /\ Range(queue) \subseteq Request
  BY <1>1, SeqRange
<1>3. \A q \in Waiting : q \in Request /\ q.id \in 1..last
  BY <1>2, RequestFacts DEF OrderInv, Numbered, Waiting, Range
<1>4. mesh.at # "idle" => /\ mesh.cmd \in Request /\ mesh.cmd.id \in 1..last
                          /\ \A q \in Waiting : Precede(mesh.cmd, q)
  BY DEF OrderInv, Typed, MeshShape, Numbered, Ordered, Waiting, Range
<1>5. srv # None => /\ srv \in Asked /\ srv.id \in 1..last
                    /\ \A q \in Range(toServer) : srv.id < q.id
  BY <1>1 DEF OrderInv, Numbered, Ordered, Range
<1> QED BY <1>2, <1>3, <1>4, <1>5

\* Where the requests of the next state come from.
LEMMA Moves ==
  ASSUME OrderInv, CliNext
  PROVE  /\ last' \in {last, last + 1} /\ last \in Nat
         /\ \A q \in Waiting' : q \in Waiting \/ (q.id = last + 1 /\ last' = last + 1)
         /\ mesh'.at # "idle" => \/ mesh.at # "idle" /\ mesh'.cmd = mesh.cmd
                                 \/ mesh.at = "idle" /\ mesh'.cmd \in Waiting
<1>0. /\ Typed /\ Channels /\ MeshShape /\ mesh \in MeshState /\ last \in Nat
      /\ queue \in Seq(Request) /\ toServer \in Seq(Asked)
  BY DEF OrderInv, Typed, MeshShape, Channels
<1> DEFINE Here == /\ last' \in {last, last + 1}
                   /\ \A q \in Waiting' : q \in Waiting \/ (q.id = last + 1 /\ last' = last + 1)
                   /\ mesh'.at # "idle" => \/ mesh.at # "idle" /\ mesh'.cmd = mesh.cmd
                                           \/ mesh.at = "idle" /\ mesh'.cmd \in Waiting
<1>1. ASSUME UNCHANGED <<last, queue, toServer>>, mesh'.at # "idle" => mesh.at # "idle" /\ mesh'.cmd = mesh.cmd
      PROVE  Here
  BY <1>1 DEF Waiting
<1>2. ASSUME UNCHANGED <<last, queue, toServer, mesh>> PROVE Here
  BY <1>1, <1>2
<1>3. ASSUME \/ \E cmd \in Commands : CliConnect(cmd)
             \/ Answered \/ CliTimesOut \/ (\E r \in Repeaters : OtherChanges(r)) \/ CacheFollows
             \/ Close \/ Receive \/ Forward \/ EndOfStream \/ DeadlinePasses \/ StrayLost
      PROVE  Here
  <2>1. UNCHANGED <<last, queue, toServer, mesh>>
    BY <1>3 DEF CliConnect, Answered, CliTimesOut, OtherChanges, CacheFollows, Close, Receive,
                Forward, EndOfStream, DeadlinePasses, StrayLost, KeepDetail, detailVars, asking,
                screen
  <2> QED BY <1>2, <2>1
<1>4. ASSUME CliDecide PROVE Here
  <2>1. UNCHANGED <<toServer, mesh>>
    BY <1>4, DecideSteps
  <2>2. CASE queue' = Append(queue, Forwarded(cli.cmd)) /\ last' = last + 1
             /\ Forwarded(cli.cmd) \in Request /\ Forwarded(cli.cmd).id = last + 1
    <3>1. Range(queue') = Range(queue) \cup {Forwarded(cli.cmd)}
      BY <1>0, <2>2, AppendRange
    <3> HIDE DEF Forwarded
    <3> QED BY <2>1, <2>2, <3>1 DEF Waiting
  <2>3. CASE UNCHANGED <<last, queue>>
    BY <1>2, <2>1, <2>3
  <2> QED BY <1>4, <2>2, <2>3, DecideSteps
<1>5. ASSUME NEW r \in Repeaters, Open(r) PROVE Here
  <2> DEFINE q == [kind |-> "detail", id |-> last + 1, on |-> r]
  <2>1. toServer' = Append(toServer, q) /\ last' = last + 1 /\ queue' = queue /\ mesh' = mesh
    BY <1>5 DEF Open
  <2>2. q \in Asked /\ q.id = last + 1
    BY <1>0 DEF Asked
  <2> HIDE DEF q
  <2>3. Range(toServer') = Range(toServer) \cup {q}
    BY <1>0, <2>1, <2>2, AppendRange
  <2> QED BY <2>1, <2>2, <2>3 DEF Waiting
<1>6. ASSUME Dispatch PROVE Here
  <2>1. /\ toServer # <<>> /\ queue' = Append(queue, Head(toServer)) /\ toServer' = Tail(toServer)
        /\ UNCHANGED <<last, mesh>>
    BY <1>6 DEF Dispatch, screen
  <2>2. Head(toServer) \in Request /\ Range(toServer) = {Head(toServer)} \cup Range(Tail(toServer))
    BY <1>0, <2>1, TailRange, RequestFacts
  <2>3. Range(queue') = Range(queue) \cup {Head(toServer)}
    BY <1>0, <2>1, <2>2, AppendRange
  <2> QED BY <2>1, <2>2, <2>3 DEF Waiting
<1>7. ASSUME Reconnect PROVE Here
  BY <1>7, NoRange DEF Reconnect, Waiting
<1>8. ASSUME RunCommand \/ TakeCommand({"detail", "telemetry"}) PROVE Here
  <2>1. /\ queue # <<>> /\ queue' = Tail(queue) /\ UNCHANGED <<last, toServer>> /\ mesh.at = "idle"
        /\ mesh'.at # "idle" => mesh'.cmd = Head(queue)
    <3>1. CASE RunCommand
      BY <3>1 DEF RunCommand, screen
    <3>2. CASE TakeCommand({"detail", "telemetry"})
      BY <1>0, <3>2, TakeSteps DEF TakeCommand
    <3> QED BY <1>8, <3>1, <3>2
  <2>2. Range(queue) = {Head(queue)} \cup Range(Tail(queue))
    BY <1>0, <2>1, TailRange
  <2> QED BY <2>1, <2>2 DEF Waiting
<1>9. ASSUME Login \/ Fetch \/ FetchTelemetry \/ SendUpdate \/ Logout \/ Finish PROVE Here
  <2>1. UNCHANGED <<last, queue, toServer>>
    BY <1>9 DEF Login, Fetch, FetchTelemetry, SendUpdate, Logout, Finish, asking, screen
  <2>2. mesh'.at # "idle" => mesh.at # "idle" /\ mesh'.cmd = mesh.cmd
    <3>1. CASE Login
      BY <1>0, <3>1, LoginSteps DEF LoginEnds, MeshState
    <3>2. CASE Fetch
      BY <1>0, <3>2, FetchSteps, CategoryFacts DEF MeshState
    <3>3. CASE FetchTelemetry \/ SendUpdate \/ Logout
      BY <1>0, <3>3 DEF FetchTelemetry, SendUpdate, Logout, Go, MeshShape, MeshState, Idle
    <3>4. CASE Finish
      BY <3>4 DEF Finish, Idle
    <3> QED BY <1>9, <3>1, <3>2, <3>3, <3>4
  <2> QED BY <1>1, <2>1, <2>2
<1> QED BY <1>0, <1>3, <1>4, <1>5, <1>6, <1>7, <1>8, <1>9 DEF CliNext, DetailNext

\* A request is refused: every category fails at once.
Refusal ==
  /\ mesh.at \in {"idle", "login"} /\ last' = last
  /\ mesh'.cmd \in Asked /\ mesh'.cmd.id \in 1..last
  /\ mesh'.at = "done" /\ mesh'.out = AllFail(mesh'.cmd) /\ mesh.out = <<>>
  /\ NoteAll(mesh'.cmd.id)
  /\ UNCHANGED <<readings, updates, toClient, srv, popup>>

\* The mesh task takes a request and refuses it or begins.
LEMMA TakeOrRefuse ==
  ASSUME OrderInv, TakeCommand({"detail", "telemetry"})
  PROVE  \/ Refusal
         \/ /\ mesh'.out = <<>> /\ mesh'.at \in {"login", "telemetry"}
            /\ mesh'.cmd.kind = "detail" => mesh'.at = "login"
            /\ UNCHANGED <<result, last>>
<1>0. Typed
  BY DEF OrderInv
<1>1. last' = last /\ UNCHANGED <<readings, updates, toClient, srv, popup>>
  BY DEF TakeCommand
<1>2. Head(queue).id \in 1..last
  BY <1>0, TakeSteps, HeadFirst DEF OrderInv, Typed
<1>3. CASE /\ Head(queue).kind = "detail" /\ NoteAll(Head(queue).id)
           /\ mesh' = [Idle EXCEPT !.at = "done", !.cmd = Head(queue), !.out = AllFail(Head(queue))]
  <2>1. mesh.out = <<>> /\ mesh.at = "idle" /\ Head(queue) \in Asked
    BY <1>0, <1>3, TakeSteps, RequestFacts DEF Typed, MeshShape, Idle
  <2>2. mesh'.cmd = Head(queue) /\ mesh'.at = "done" /\ mesh'.out = AllFail(Head(queue))
    BY <1>3 DEF Idle
  <2>3. NoteAll(mesh'.cmd.id)
    BY <1>3, <2>2 DEF NoteAll
  <2> QED BY <1>1, <1>2, <2>1, <2>2, <2>3 DEF Refusal
<1>4. CASE mesh' = [Idle EXCEPT !.at = "login", !.cmd = Head(queue)] /\ UNCHANGED result
  BY <1>1, <1>4 DEF Idle
<1>5. CASE /\ Head(queue).kind = "telemetry" /\ UNCHANGED result
           /\ mesh' = [Idle EXCEPT !.at = "telemetry", !.cmd = Head(queue)]
  BY <1>1, <1>5 DEF Idle
<1> QED BY <1>0, <1>3, <1>4, <1>5, TakeSteps

\* The login fails and the request is refused, or the session begins.
LEMMA LoginOrRefuse ==
  ASSUME OrderInv, Login
  PROVE  \/ Refusal /\ mesh'.cmd = mesh.cmd
         \/ /\ mesh'.out = <<>> /\ mesh'.cmd = mesh.cmd /\ mesh'.at # "idle"
            /\ mesh.cmd.kind = "detail" => mesh'.at = "status"
            /\ UNCHANGED <<result, last>>
<1>0. Typed
  BY DEF OrderInv
<1>1. last' = last /\ UNCHANGED <<readings, updates, toClient, srv, popup>>
  BY DEF Login, asking
<1>2. /\ mesh.at = "login" /\ mesh \in MeshState /\ mesh.cmd \in Request /\ mesh.cmd.id \in 1..last
      /\ mesh.out = <<>>
  BY <1>0, LoginSteps DEF Typed, MeshShape, OrderInv, Numbered
<1>3. CASE /\ mesh.cmd.kind = "detail" /\ LoginEnds("done", AllFail(mesh.cmd))
           /\ NoteAll(mesh.cmd.id)
  <2>1. mesh'.cmd = mesh.cmd /\ mesh'.at = "done" /\ mesh'.out = AllFail(mesh.cmd)
    BY <1>2, <1>3 DEF LoginEnds, MeshState
  <2>2. mesh'.cmd \in Asked
    BY <1>2, <1>3, <2>1, RequestFacts
  <2>3. NoteAll(mesh'.cmd.id)
    BY <1>3, <2>1 DEF NoteAll
  <2> QED BY <1>1, <1>2, <2>1, <2>2, <2>3 DEF Refusal
<1>4. CASE mesh.cmd.kind = "detail" /\ LoginEnds("status", <<>>) /\ UNCHANGED result
  BY <1>1, <1>2, <1>4 DEF LoginEnds, MeshState
<1>5. CASE /\ mesh.cmd.kind = "telemetry" /\ UNCHANGED result
           /\ LoginEnds("telemetry", <<>>) \/ LoginEnds("done", <<>>)
  BY <1>1, <1>2, <1>5 DEF LoginEnds, MeshState
<1> QED BY <1>0, <1>3, <1>4, <1>5, LoginSteps

\* How the results of requests change: not, by a new request, by a refusal or by
\* the outcome of one category.
LEMMA ResultMoves ==
  ASSUME OrderInv, CliNext
  PROVE  \/ UNCHANGED <<result, last>>
         \/ result' = Append(result, Blank("none")) /\ last' = last + 1
         \/ Refusal
         \/ Fetch /\ last' = last
<1>0. Typed
  BY DEF OrderInv
<1>1. CASE \/ \E cmd \in Commands : CliConnect(cmd)
           \/ Answered \/ CliTimesOut \/ RunCommand \/ (\E r \in Repeaters : OtherChanges(r))
           \/ CacheFollows
  BY <1>1 DEF CliConnect, Answered, CliTimesOut, RunCommand, OtherChanges, CacheFollows,
              KeepDetail, detailVars, screen
<1>2. CASE CliDecide
  BY <1>2, DecideSteps
<1>3. CASE \/ \E r \in Repeaters : Open(r)
           \/ Close \/ Receive \/ Dispatch \/ Forward \/ EndOfStream \/ DeadlinePasses \/ Reconnect
           \/ FetchTelemetry \/ SendUpdate \/ Logout \/ Finish \/ StrayLost
  BY <1>3 DEF Open, Close, Receive, Dispatch, Forward, EndOfStream, DeadlinePasses, Reconnect,
              FetchTelemetry, SendUpdate, Logout, Finish, StrayLost, screen
<1>4. CASE TakeCommand({"detail", "telemetry"})
  BY <1>4, TakeOrRefuse
<1>5. CASE Login
  BY <1>5, LoginOrRefuse
<1>6. CASE Fetch
  BY <1>6 DEF Fetch
<1> QED BY <1>1, <1>2, <1>3, <1>4, <1>5, <1>6 DEF CliNext, DetailNext

\* One entry of the results replaced.
LEMMA TallyExcept ==
  ASSUME NEW s \in Seq(Tally), NEW id \in 1..Len(s), NEW t \in Tally
  PROVE  /\ [s EXCEPT ![id] = t] \in Seq(Tally) /\ Len([s EXCEPT ![id] = t]) = Len(s)
         /\ [s EXCEPT ![id] = t][id] = t
         /\ \A i \in 1..Len(s) : i # id => [s EXCEPT ![id] = t][i] = s[i]
<1>1. Len(s) \in Nat /\ s \in [1..Len(s) -> Tally]
  BY LenProperties
<1>2. [s EXCEPT ![id] = t] \in [1..Len(s) -> Tally]
  BY <1>1
<1>3. [s EXCEPT ![id] = t] \in Seq(Tally)
  BY <1>1, <1>2, SeqDef
<1> HIDE DEF Tally
<1>4. Len([s EXCEPT ![id] = t]) = Len(s)
  BY <1>1, <1>2, <1>3, LenProperties
<1> QED BY <1>1, <1>3, <1>4

\* What a category came to is written once, and only for the request in hand.
LEMMA ResultSteps ==
  ASSUME OrderInv, PopupTyped, Results, CliNext
  PROVE  /\ result' \in Seq(Tally) /\ Len(result') = last'
         /\ last' = last + 1 => result'[last + 1] = Blank("none")
         /\ \A i \in 1..last : result'[i] = result[i]
                               \/ (mesh'.at # "idle" /\ mesh'.cmd.id = i)
         /\ \A i \in 1..last : \A c \in Category :
              result[i][c] # "none" => result'[i][c] = result[i][c]
<1>0. result \in Seq(Tally) /\ Len(result) = last /\ last \in Nat
  BY DEF PopupTyped, OrderInv, Typed, Channels
<1>1. CASE UNCHANGED <<result, last>>
  BY <1>0, <1>1
<1>2. CASE result' = Append(result, Blank("none")) /\ last' = last + 1
  <2>1. Blank("none") \in Tally
    BY DEF Blank, Tally
  <2>2. result' \in Seq(Tally) /\ Len(result') = last + 1
    BY <1>0, <1>2, <2>1, AppendProperties
  <2>3. result'[last + 1] = Blank("none") /\ \A i \in 1..last : result'[i] = result[i]
    BY <1>0, <1>2, <2>1, AppendRange
  <2> QED BY <1>2, <2>2, <2>3
<1>3. CASE Refusal
  <2>1. PICK id \in 1..last : id = mesh'.cmd.id
    BY <1>3 DEF Refusal
  <2>2. result' = [result EXCEPT ![id] = Blank("failed")] /\ Blank("failed") \in Tally
    BY <1>3, <2>1 DEF Refusal, NoteAll, Blank, Tally
  <2>3. /\ result' \in Seq(Tally) /\ Len(result') = last
        /\ \A i \in 1..last : i # id => result'[i] = result[i]
    BY <1>0, <2>2, TallyExcept
  <2>4. \A c \in Category : result[id][c] = "none"
    <3>1. CASE mesh.at # "idle"
      <4>1. mesh.cmd = mesh'.cmd
        BY <1>3, <3>1, Moves DEF Refusal
      <4>2. mesh.cmd.kind = "detail"
        BY <1>3, <4>1, RequestFacts DEF Refusal
      <4>3. mesh.at = "login" /\ Ahead["login"] = Category
        BY <1>3, <3>1 DEF Refusal, Ahead, Place
      <4> QED BY <2>1, <4>1, <4>2, <4>3 DEF Results
    <3>2. CASE mesh.at = "idle"
      <4>1. mesh'.cmd \in Waiting
        BY <1>3, <3>2, Moves DEF Refusal
      <4> QED BY <2>1, <4>1 DEF Results, Blank
    <3> QED BY <3>1, <3>2
  <2> QED BY <1>3, <2>1, <2>3, <2>4 DEF Refusal
<1>4. CASE Fetch /\ last' = last
  <2>0. Typed /\ mesh \in MeshState
    BY DEF OrderInv, Typed, MeshShape
  <2>1. /\ mesh.at \in Category /\ mesh.at # "idle" /\ mesh.cmd \in Asked /\ mesh.cmd.kind = "detail"
    BY <1>4, <2>0, FetchSteps, CategoryFacts, RequestFacts
  <2>2. PICK ok \in BOOLEAN : Note(mesh.cmd.id, mesh.at, ok)
    BY <1>4, <2>0, FetchSteps
  <2>3. mesh'.cmd = mesh.cmd /\ mesh'.at = After[mesh.at] /\ mesh'.at # "idle"
    BY <1>4, <2>0, <2>1, FetchSteps, CategoryFacts, ZenonT(30) DEF MeshState
  <2>4. mesh.cmd.id \in 1..last
    BY <2>1 DEF OrderInv, Numbered
  <2> DEFINE t == [result[mesh.cmd.id] EXCEPT ![mesh.at] = IF ok THEN "ok" ELSE "failed"]
  <2>5. result[mesh.cmd.id] \in Tally
    BY <1>0, <2>4, LenProperties
  <2>6. t \in Tally /\ \A c \in Category : c # mesh.at => t[c] = result[mesh.cmd.id][c]
    BY <2>1, <2>5 DEF Tally
  <2>7. result' = [result EXCEPT ![mesh.cmd.id] = t]
    BY <2>2 DEF Note
  <2> HIDE DEF t
  <2>8. /\ result' \in Seq(Tally) /\ Len(result') = last /\ result'[mesh.cmd.id] = t
        /\ \A i \in 1..last : i # mesh.cmd.id => result'[i] = result[i]
    BY <1>0, <2>4, <2>6, <2>7, TallyExcept
  <2>9. result[mesh.cmd.id][mesh.at] = "none"
    <3>1. mesh.at \in Ahead[mesh.at]
      BY <2>1, CategoryFacts DEF Ahead, Place
    <3> QED BY <2>1, <3>1 DEF Results
  <2> QED BY <1>4, <2>3, <2>4, <2>6, <2>8, <2>9
<1> QED BY <1>1, <1>2, <1>3, <1>4, ResultMoves

\* Updates on their way are updates.
LEMMA FlyingFacts ==
  ASSUME OrderInv
  PROVE  /\ Flying \subseteq Update /\ Range(updates) \subseteq Update
         /\ \A m \in Range(toClient) : m.id \in Nat /\ (m.kind = "category" => m \in Update)
         /\ \A m \in Update : m.kind = "category" /\ m.id \in Nat /\ m.of \in Category
                              /\ m.ok \in BOOLEAN /\ m.on \in Repeaters
         /\ Sending \subseteq Update
<1>1. \A m \in Update : m.kind = "category" /\ m.id \in Nat /\ m.of \in Category
                        /\ m.ok \in BOOLEAN /\ m.on \in Repeaters
  BY DEF Update
<1>2. toClient \in Seq(Update \cup Failure) /\ updates \in Seq(Update)
  BY DEF OrderInv, Typed, Channels
<1>3. \A m \in Failure : m.id \in Nat /\ m.kind = "error"
  BY DEF Failure
<1>4. Range(toClient) \subseteq Update \cup Failure /\ Range(updates) \subseteq Update
  BY <1>2, SeqRange
<1>5. Sending \subseteq Update
  <2>1. ASSUME mesh.at # "idle", mesh.cmd.kind = "detail" PROVE mesh.out \in Seq(Update)
    BY <2>1 DEF OrderInv, Typed, MeshShape
  <2>2. mesh.at # "idle" /\ mesh.cmd.kind = "detail" => Range(mesh.out) \subseteq Update
    BY <2>1, SeqRange
  <2> QED BY <2>2 DEF Sending
<1>6. \A m \in Range(toClient) : m.id \in Nat /\ (m.kind = "category" => m \in Update)
  BY <1>1, <1>3, <1>4
<1> QED BY <1>1, <1>4, <1>5, <1>6 DEF Flying, Passed

\* An update just made tells what its request came to.
Tells(m) ==
  /\ mesh'.at # "idle" /\ mesh'.cmd.kind = "detail" /\ mesh'.cmd.id \in 1..last'
  /\ m.id = mesh'.cmd.id /\ m.on = mesh'.cmd.on
  /\ result'[m.id][m.of] = (IF m.ok THEN "ok" ELSE "failed")
  /\ m.of = "telemetry" /\ m.ok => readings'[m.on] = m.id

LEMMA RefusalTells ==
  ASSUME PopupTyped, Refusal, NEW m \in Range(mesh'.out)
  PROVE  Tells(m)
<1>1. /\ mesh'.cmd \in Asked /\ mesh'.out = AllFail(mesh'.cmd) /\ mesh'.at # "idle"
      /\ mesh'.cmd.id \in 1..last' /\ mesh'.cmd.kind = "detail"
  BY RequestFacts DEF Refusal
<1>2. PICK i \in DOMAIN AllFail(mesh'.cmd) : m = AllFail(mesh'.cmd)[i]
  BY <1>1 DEF Range
<1>3. PICK c \in Category : m = Message(mesh'.cmd, c, FALSE)
  <2>1. /\ AllFail(mesh'.cmd) \in Seq(Update) /\ Len(AllFail(mesh'.cmd)) = 4
        /\ m = Message(mesh'.cmd, Categories[i], FALSE)
    BY <1>1, <1>2, AllFailFacts
  <2>2. i \in 1..4
    BY <1>2, <2>1, LenProperties
  <2> QED BY <2>1, <2>2, CategoryFacts
<1>4. m.id = mesh'.cmd.id /\ m.on = mesh'.cmd.on /\ m.of = c /\ m.ok = FALSE
  BY <1>1, <1>3, MessageFacts
<1>5. PICK id \in 1..last : id = mesh'.cmd.id
  BY DEF Refusal
<1>6. result' = [result EXCEPT ![id] = Blank("failed")] /\ id \in DOMAIN result
  BY <1>5, LenProperties DEF Refusal, NoteAll, PopupTyped
<1>7. result'[id][c] = "failed"
  BY <1>6 DEF Blank
<1> QED BY <1>1, <1>4, <1>5, <1>7 DEF Tells

LEMMA FetchTells ==
  ASSUME OrderInv, PopupTyped, Fetch, NEW m \in Range(mesh'.out)
  PROVE  Tells(m)
<1>0. Typed /\ mesh \in MeshState /\ last' = last
  BY DEF OrderInv, Typed, MeshShape, Fetch
<1>1. /\ mesh.at \in Category /\ mesh.at # "idle" /\ mesh.cmd \in Asked
      /\ mesh.cmd.kind = "detail" /\ mesh.cmd.on \in Repeaters
  BY <1>0, FetchSteps, CategoryFacts, RequestFacts DEF Asked
<1>2. PICK ok \in BOOLEAN :
        /\ mesh' = [mesh EXCEPT !.at = After[mesh.at], !.out = <<Message(mesh.cmd, mesh.at, ok)>>]
        /\ Note(mesh.cmd.id, mesh.at, ok)
        /\ IF ok /\ mesh.at = "telemetry" THEN Finalize(mesh.cmd.on, mesh.cmd.id)
           ELSE UNCHANGED readings
  BY <1>0, FetchSteps
<1>3. /\ mesh'.cmd = mesh.cmd /\ mesh'.at = After[mesh.at] /\ mesh'.at # "idle"
      /\ mesh'.out = <<Message(mesh.cmd, mesh.at, ok)>>
  BY <1>0, <1>1, <1>2, CategoryFacts DEF MeshState
<1>4. m = Message(mesh.cmd, mesh.at, ok)
  BY <1>3 DEF Range
<1>5. m.id = mesh.cmd.id /\ m.on = mesh.cmd.on /\ m.of = mesh.at /\ m.ok = ok
  BY <1>1, <1>4, MessageFacts
<1>6. mesh.cmd.id \in 1..last /\ mesh.cmd.id \in DOMAIN result /\ result[mesh.cmd.id] \in Tally
  BY <1>1, LenProperties DEF OrderInv, Numbered, PopupTyped
<1>7. result'[mesh.cmd.id][mesh.at] = IF ok THEN "ok" ELSE "failed"
  BY <1>1, <1>2, <1>6 DEF Note, Tally
<1>8. ok /\ mesh.at = "telemetry" => readings'[mesh.cmd.on] = mesh.cmd.id
  BY <1>1, <1>2 DEF Finalize, PopupTyped
<1> QED BY <1>0, <1>1, <1>3, <1>5, <1>6, <1>7, <1>8 DEF Tells

\* Updates only move on towards the popup; a new one is fresh.
LEMMA FlyingStep ==
  ASSUME OrderInv, PopupTyped, CliNext
  PROVE  /\ \A m \in Passed' : m \in Passed \cup Sending
         /\ \A m \in Sending' : m \in Sending \/ Tells(m)
<1>0. /\ Typed /\ Channels /\ MeshShape /\ mesh \in MeshState
      /\ toClient \in Seq(Update \cup Failure) /\ updates \in Seq(Update)
  BY DEF OrderInv, Typed, MeshShape, Channels
<1> DEFINE Here == /\ \A m \in Passed' : m \in Passed \cup Sending
                   /\ \A m \in Sending' : m \in Sending \/ Tells(m)
<1>1. ASSUME UNCHANGED <<toClient, updates, mesh>> PROVE Here
  BY <1>1 DEF Passed, Sending
<1>2. ASSUME \/ \E cmd \in Commands : CliConnect(cmd)
             \/ CliDecide \/ Answered \/ CliTimesOut \/ RunCommand
             \/ (\E r \in Repeaters : OtherChanges(r)) \/ CacheFollows
             \/ (\E r \in Repeaters : Open(r)) \/ Close \/ Dispatch \/ EndOfStream \/ StrayLost
      PROVE  Here
  <2>1. UNCHANGED <<toClient, updates, mesh>>
    BY <1>2 DEF CliConnect, CliDecide, Answered, CliTimesOut, RunCommand, OtherChanges,
                CacheFollows, Open, Close, Dispatch, EndOfStream, StrayLost, KeepDetail,
                detailVars, asking
  <2> QED BY <1>1, <2>1
<1>3. ASSUME Receive PROVE Here
  <2>1. toClient # <<>> /\ toClient' = Tail(toClient) /\ UNCHANGED <<updates, mesh>>
    BY <1>3 DEF Receive
  <2>2. Range(toClient') \subseteq Range(toClient)
    BY <1>0, <2>1, TailRange
  <2> QED BY <2>1, <2>2 DEF Passed, Sending
<1>4. ASSUME Forward PROVE Here
  <2>1. /\ updates # <<>> /\ toClient' = Append(toClient, Head(updates))
        /\ updates' = Tail(updates) /\ UNCHANGED mesh
    BY <1>4 DEF Forward
  <2>2. Head(updates) \in Update /\ Range(updates) = {Head(updates)} \cup Range(updates')
    BY <1>0, <2>1, TailRange
  <2>3. Range(toClient') = Range(toClient) \cup {Head(updates)}
    BY <1>0, <2>1, <2>2, AppendRange
  <2> QED BY <2>1, <2>2, <2>3 DEF Passed, Sending
<1>5. ASSUME DeadlinePasses PROVE Here
  <2> DEFINE e == [kind |-> "error", id |-> srv.id]
  <2>1. srv # None /\ toClient' = Append(toClient, e) /\ UNCHANGED <<updates, mesh>>
    BY <1>5 DEF DeadlinePasses
  <2>2. e \in Failure /\ e.kind # "category"
    BY <1>0, <2>1 DEF Failure, Channels, Asked
  <2> HIDE DEF e
  <2>3. Range(toClient') = Range(toClient) \cup {e}
    BY <1>0, <2>1, <2>2, AppendRange
  <2> QED BY <2>1, <2>2, <2>3 DEF Passed, Sending
<1>6. ASSUME Reconnect PROVE Here
  BY <1>6, NoRange DEF Reconnect, Passed, Sending
<1>7. ASSUME Refusal PROVE Here
  <2>1. Passed' = Passed
    BY <1>7 DEF Refusal, Passed
  <2>2. Sending' \subseteq Range(mesh'.out)
    BY DEF Sending
  <2> QED BY <1>7, <2>1, <2>2, RefusalTells
<1>8. ASSUME TakeCommand({"detail", "telemetry"}) \/ Login, mesh'.out = <<>> PROVE Here
  <2>1. UNCHANGED <<toClient, updates>>
    BY <1>8 DEF TakeCommand, Login, asking
  <2>2. Sending' = {}
    BY <1>8, NoRange DEF Sending
  <2> QED BY <2>1, <2>2 DEF Passed
<1>9. ASSUME TakeCommand({"detail", "telemetry"}) \/ Login PROVE Here
  BY <1>7, <1>8, <1>9, TakeOrRefuse, LoginOrRefuse
<1>10. ASSUME Fetch PROVE Here
  <2>1. UNCHANGED <<toClient, updates>>
    BY <1>10 DEF Fetch, asking
  <2>2. Sending' \subseteq Range(mesh'.out)
    BY DEF Sending
  <2> QED BY <1>10, <2>1, <2>2, FetchTells DEF Passed
<1>11. ASSUME FetchTelemetry PROVE Here
  <2>1. UNCHANGED <<toClient, updates>>
    BY <1>11 DEF FetchTelemetry, asking
  <2>2. mesh'.cmd.kind # "detail"
    BY <1>0, <1>11 DEF FetchTelemetry, MeshState
  <2> QED BY <2>1, <2>2 DEF Passed, Sending
<1>12. ASSUME SendUpdate PROVE Here
  <2>1. mesh.at # "idle" /\ mesh.cmd.kind = "detail" /\ mesh.out # <<>> /\ mesh.out \in Seq(Update)
    BY <1>0, <1>12 DEF SendUpdate, MeshShape, Idle
  <2>2. /\ mesh'.at = mesh.at /\ mesh'.cmd = mesh.cmd /\ mesh'.out = Tail(mesh.out)
        /\ UNCHANGED toClient
    BY <1>0, <1>12 DEF SendUpdate, MeshState
  <2>3. Head(mesh.out) \in Update /\ Range(mesh.out) = {Head(mesh.out)} \cup Range(mesh'.out)
    BY <2>1, <2>2, TailRange
  <2>4. updates' = updates \/ updates' = Append(updates, Head(mesh.out))
    BY <1>12 DEF SendUpdate
  <2>5. Range(updates') \subseteq Range(updates) \cup {Head(mesh.out)}
    <3>1. Range(Append(updates, Head(mesh.out))) = Range(updates) \cup {Head(mesh.out)}
      BY <1>0, <2>3, AppendRange
    <3> QED BY <2>4, <3>1
  <2> QED BY <2>1, <2>2, <2>3, <2>5 DEF Passed, Sending
<1>13. ASSUME Logout PROVE Here
  <2>1. /\ UNCHANGED <<toClient, updates>> /\ mesh.at = "logout" /\ mesh'.at = "done"
        /\ mesh'.cmd = mesh.cmd /\ mesh'.out = mesh.out
    BY <1>0, <1>13 DEF Logout, Go, MeshState, asking
  <2> QED BY <2>1 DEF Passed, Sending
<1>14. ASSUME Finish PROVE Here
  BY <1>14 DEF Finish, Idle, Passed, Sending, asking
<1> QED BY <1>2, <1>3, <1>4, <1>5, <1>6, <1>9, <1>10, <1>11, <1>12, <1>13, <1>14 DEF CliNext, DetailNext

\* Categories leave the list as their requests are made.
LEMMA AheadFacts ==
  /\ Ahead["login"] = Category /\ Ahead["status"] = Category
  /\ Ahead["logout"] = {} /\ Ahead["done"] = {}
  /\ \A c \in Category : Ahead[After[c]] = Ahead[c] \ {c}
<1>1. {"login", "status", "telemetry", "neighbours", "regions", "logout", "done"} \subseteq Place
  BY CategoryFacts DEF Place
<1>2. /\ Ahead["login"] = Category /\ Ahead["status"] = Category
      /\ Ahead["logout"] = {} /\ Ahead["done"] = {}
      /\ Ahead["telemetry"] = {"telemetry", "neighbours", "regions"}
      /\ Ahead["neighbours"] = {"neighbours", "regions"} /\ Ahead["regions"] = {"regions"}
  BY <1>1 DEF Ahead
<1> QED BY <1>2, CategoryFacts

\* The results say how far each request is.
LEMMA ResultsStep ==
  ASSUME OrderInv, PopupTyped, Results, CliNext PROVE Results'
<1>0. /\ OrderInv' /\ Typed /\ mesh \in MeshState /\ last \in Nat /\ last' \in {last, last + 1}
  BY OrderStep, Moves DEF OrderInv, Typed, MeshShape
<1>1. \A q \in Waiting' : result'[q.id] = Blank("none")
  <2> SUFFICES ASSUME NEW q \in Waiting' PROVE result'[q.id] = Blank("none")
    OBVIOUS
  <2>1. mesh'.at # "idle" => q.id # mesh'.cmd.id
    BY <1>0 DEF OrderInv, Ordered, Waiting, Range, Precede
  <2>2. CASE q \in Waiting
    <3>1. q.id \in 1..last /\ result[q.id] = Blank("none")
      BY <2>2, WaitingFacts DEF Results
    <3> QED BY <2>1, <3>1, ResultSteps
  <2>3. CASE q.id = last + 1 /\ last' = last + 1
    BY <2>3, ResultSteps
  <2> QED BY <2>2, <2>3, Moves
<1>2. \A m \in Flying' : m.id \in 1..last' /\ result'[m.id][m.of] = (IF m.ok THEN "ok" ELSE "failed")
  <2> SUFFICES ASSUME NEW m \in Flying'
               PROVE  m.id \in 1..last' /\ result'[m.id][m.of] = (IF m.ok THEN "ok" ELSE "failed")
    OBVIOUS
  <2>1. m \in Flying \/ Tells(m)
    BY FlyingStep DEF Flying
  <2>2. CASE m \in Flying
    <3>1. m.id \in 1..last /\ result[m.id][m.of] = (IF m.ok THEN "ok" ELSE "failed")
      BY <2>2 DEF Results, Truthful
    <3>2. m.of \in Category
      BY <2>2, FlyingFacts
    <3>3. result'[m.id][m.of] = result[m.id][m.of]
      BY <3>1, <3>2, ResultSteps
    <3> QED BY <1>0, <3>1, <3>3
  <2>3. CASE Tells(m)
    BY <2>3 DEF Tells
  <2> QED BY <2>1, <2>2, <2>3
<1>3. ASSUME mesh'.at # "idle", mesh'.cmd.kind = "detail", NEW c \in Category
      PROVE  result'[mesh'.cmd.id][c] = "none" <=> c \in Ahead[mesh'.at]
  <2> DEFINE q == mesh'.cmd
             Goal == result'[q.id][c] = "none" <=> c \in Ahead[mesh'.at]
  <2>1. CASE Refusal
    <3>1. PICK id \in 1..last : id = q.id
      BY <2>1 DEF Refusal
    <3>2. result' = [result EXCEPT ![id] = Blank("failed")] /\ id \in DOMAIN result
      BY <2>1, <3>1, LenProperties DEF Refusal, NoteAll, PopupTyped
    <3>3. result'[id][c] = "failed" /\ mesh'.at = "done"
      BY <2>1, <3>2 DEF Blank, Refusal
    <3> QED BY <3>1, <3>3, AheadFacts
  <2>2. ASSUME TakeCommand({"detail", "telemetry"}), ~Refusal PROVE Goal
    <3>1. mesh'.at = "login" /\ UNCHANGED <<result, last>> /\ mesh.at = "idle"
      BY <1>0, <1>3, <2>2, TakeOrRefuse, TakeSteps
    <3>2. q \in Waiting
      BY <3>1, Moves
    <3> QED BY <3>1, <3>2, AheadFacts DEF Results, Blank
  <2>3. ASSUME Login, ~Refusal PROVE Goal
    <3>1. /\ mesh'.at = "status" /\ UNCHANGED <<result, last>> /\ mesh.at = "login" /\ q = mesh.cmd
      BY <1>0, <1>3, <2>3, LoginOrRefuse, LoginSteps
    <3>2. result[mesh.cmd.id][c] = "none" <=> c \in Ahead["login"]
      BY <1>3, <3>1 DEF Results
    <3> QED BY <3>1, <3>2, AheadFacts
  <2>4. ASSUME Fetch PROVE Goal
    <3>1. /\ mesh.at \in Category /\ mesh.at # "idle" /\ mesh'.cmd = mesh.cmd
          /\ mesh'.at = After[mesh.at] /\ mesh.cmd \in Asked
      BY <1>0, <2>4, FetchSteps, CategoryFacts DEF MeshState
    <3>2. PICK ok \in BOOLEAN : Note(mesh.cmd.id, mesh.at, ok)
      BY <1>0, <2>4, FetchSteps
    <3>3. mesh.cmd.id \in 1..last /\ mesh.cmd.id \in DOMAIN result /\ result[mesh.cmd.id] \in Tally
      BY <3>1, LenProperties DEF OrderInv, Numbered, PopupTyped
    <3>4. result'[mesh.cmd.id][c] = IF c = mesh.at THEN (IF ok THEN "ok" ELSE "failed")
                                    ELSE result[mesh.cmd.id][c]
      BY <3>1, <3>2, <3>3 DEF Note, Tally
    <3>5. result[mesh.cmd.id][c] = "none" <=> c \in Ahead[mesh.at]
      BY <1>3, <3>1 DEF Results
    <3> QED BY <3>1, <3>4, <3>5, AheadFacts
  <2>5. ASSUME ~Fetch, ~Refusal, ~Login, ~TakeCommand({"detail", "telemetry"}) PROVE Goal
    <3>1. mesh.at # "idle" /\ mesh'.cmd = mesh.cmd /\ Ahead[mesh'.at] = Ahead[mesh.at]
      <4>1. CASE Logout
        BY <1>0, <4>1, AheadFacts DEF Logout, Go, MeshState
      <4>2. CASE FetchTelemetry
        BY <1>0, <1>3, <4>2 DEF FetchTelemetry, MeshState
      <4>3. CASE SendUpdate
        BY <1>0, <4>3 DEF SendUpdate, MeshState, OrderInv, Typed, MeshShape, Idle
      <4>4. CASE Finish
        BY <1>3, <4>4 DEF Finish, Idle
      <4>5. CASE UNCHANGED mesh
        BY <1>3, <4>5
      <4> QED
        BY <2>5, <4>1, <4>2, <4>3, <4>4, <4>5
           DEF CliNext, DetailNext, CliConnect, CliDecide, Answered, CliTimesOut, RunCommand,
               OtherChanges, CacheFollows, KeepDetail, detailVars, Open, Close, Receive, Dispatch,
               Forward, EndOfStream, DeadlinePasses, Reconnect, StrayLost
    <3>3. mesh.cmd.id \in 1..last
      BY <3>1 DEF OrderInv, Numbered
    <3>4. result'[mesh.cmd.id] = result[mesh.cmd.id]
      <4>1. CASE UNCHANGED <<result, last>>
        BY <4>1
      <4>2. CASE result' = Append(result, Blank("none"))
        <5>1. Blank("none") \in Tally
          BY DEF Blank, Tally
        <5> QED BY <3>3, <4>2, <5>1, AppendRange, LenProperties DEF PopupTyped
      <4> QED BY <2>5, <4>1, <4>2, ResultMoves
    <3>5. result[mesh.cmd.id][c] = "none" <=> c \in Ahead[mesh.at]
      BY <1>3, <3>1 DEF Results
    <3> QED BY <3>1, <3>4, <3>5
  <2> QED BY <2>1, <2>2, <2>3, <2>4, <2>5
<1>4. \A m \in Flying' : Truthful(m)'
  BY <1>2 DEF Truthful
<1> QED BY <1>1, <1>3, <1>4 DEF Results

\* The order of the next state, as WaitingFacts states it of this one.
LEMMA OrderNext ==
  ASSUME OrderInv'
  PROVE  /\ last' \in Nat
         /\ \A q \in Waiting' : q \in Request /\ q.id \in 1..last'
         /\ mesh'.at # "idle" =>
              /\ mesh'.cmd \in Request /\ mesh'.cmd.id \in 1..last'
              /\ \A q \in Waiting' : q.id # mesh'.cmd.id
              /\ mesh'.cmd.kind = "detail" => \A q \in Waiting' : mesh'.cmd.id < q.id
<1>1. queue' \in Seq(Request) /\ toServer' \in Seq(Asked) /\ last' \in Nat
  BY DEF OrderInv, Typed, Channels
<1>2. Range(toServer') \subseteq Asked /\ Range(queue') \subseteq Request
  BY <1>1, SeqRange
<1>3. \A q \in Waiting' : q \in Request /\ q.id \in 1..last'
  BY <1>2, RequestFacts DEF OrderInv, Numbered, Waiting, Range
<1>4. mesh'.at # "idle" => /\ mesh'.cmd \in Request /\ mesh'.cmd.id \in 1..last'
                           /\ \A q \in Waiting' : Precede(mesh'.cmd, q)
  BY DEF OrderInv, Typed, MeshShape, Numbered, Ordered, Waiting, Range, Precede
<1> QED BY <1>1, <1>3, <1>4 DEF Precede

\* What the client's connection carries in the next state.
LEMMA StreamMoves ==
  ASSUME OrderInv, Streams, CliNext
  PROVE  /\ \A m \in Range(toClient)' : m \in Range(toClient) \/ (srv # None /\ m.id = srv.id)
         /\ srv' \in {srv, None} \/ (srv = None /\ srv' \in Range(toServer))
         /\ \/ Range(toServer)' \subseteq Range(toServer)
            \/ \E r \in Repeaters : Open(r)
<1>0. /\ toClient \in Seq(Update \cup Failure) /\ updates \in Seq(Update)
      /\ toServer \in Seq(Asked) /\ srv \in Asked \cup {None}
  BY DEF OrderInv, Typed, Channels
<1> DEFINE Here ==
      /\ \A m \in Range(toClient)' : m \in Range(toClient) \/ (srv # None /\ m.id = srv.id)
      /\ srv' \in {srv, None} \/ (srv = None /\ srv' \in Range(toServer))
      /\ \/ Range(toServer)' \subseteq Range(toServer)
         \/ \E r \in Repeaters : Open(r)
<1>1. ASSUME UNCHANGED <<toClient, srv, toServer>> PROVE Here
  BY <1>1
<1>2. ASSUME \/ \E cmd \in Commands : CliConnect(cmd)
             \/ CliDecide \/ Answered \/ CliTimesOut \/ RunCommand
             \/ (\E r \in Repeaters : OtherChanges(r)) \/ CacheFollows
             \/ Close \/ StrayLost
             \/ TakeCommand({"detail", "telemetry"}) \/ Login \/ Fetch \/ FetchTelemetry
             \/ SendUpdate \/ Logout \/ Finish
      PROVE  Here
  <2>1. UNCHANGED <<toClient, srv, toServer>>
    BY <1>2 DEF CliConnect, CliDecide, Answered, CliTimesOut, RunCommand, OtherChanges,
                CacheFollows, Close, StrayLost, TakeCommand, Login, Fetch, FetchTelemetry,
                SendUpdate, Logout, Finish, KeepDetail, detailVars, asking
  <2> QED BY <1>1, <2>1
<1>3. ASSUME \E r \in Repeaters : Open(r) PROVE Here
  BY <1>3 DEF Open
<1>4. ASSUME Receive PROVE Here
  <2>1. toClient # <<>> /\ toClient' = Tail(toClient) /\ UNCHANGED <<srv, toServer>>
    BY <1>4 DEF Receive
  <2>2. Range(toClient') \subseteq Range(toClient)
    BY <1>0, <2>1, TailRange
  <2> QED BY <2>1, <2>2
<1>5. ASSUME Dispatch PROVE Here
  <2>1. /\ srv = None /\ toServer # <<>> /\ srv' = Head(toServer)
        /\ toServer' = Tail(toServer) /\ toClient' = toClient
    BY <1>5 DEF Dispatch
  <2>2. Range(toServer) = {Head(toServer)} \cup Range(toServer')
    BY <1>0, <2>1, TailRange
  <2> QED BY <2>1, <2>2
<1>6. ASSUME Forward PROVE Here
  <2>1. /\ updates # <<>> /\ toClient' = Append(toClient, Head(updates))
        /\ UNCHANGED <<srv, toServer>>
    BY <1>6 DEF Forward
  <2>2. Head(updates) \in Update /\ Head(updates) \in Range(updates)
    BY <1>0, <2>1, TailRange
  <2>3. Range(toClient') = Range(toClient) \cup {Head(updates)}
    BY <1>0, <2>1, <2>2, AppendRange
  <2> QED BY <2>1, <2>2, <2>3 DEF Streams
<1>7. ASSUME DeadlinePasses PROVE Here
  <2> DEFINE e == [kind |-> "error", id |-> srv.id]
  <2>1. /\ srv # None /\ toClient' = Append(toClient, e) /\ srv' = None
        /\ UNCHANGED toServer
    BY <1>7 DEF DeadlinePasses
  <2>2. e \in Failure /\ e.id = srv.id
    BY <1>0, <2>1 DEF Failure, Asked
  <2> HIDE DEF e
  <2>3. Range(toClient') = Range(toClient) \cup {e}
    BY <1>0, <2>1, <2>2, AppendRange
  <2> QED BY <2>1, <2>2, <2>3
<1>8. ASSUME EndOfStream \/ Reconnect PROVE Here
  BY <1>8, NoRange DEF EndOfStream, Reconnect
<1> QED BY <1>2, <1>3, <1>4, <1>5, <1>6, <1>7, <1>8 DEF CliNext, DetailNext

\* The ids on the socket towards the client rise.
LEMMA RisingAppend ==
  ASSUME OrderInv, Streams, NEW x \in Update \cup Failure, srv # None, x.id = srv.id,
         toClient' = Append(toClient, x)
  PROVE  \A i, j \in DOMAIN toClient' : i < j => toClient'[i].id <= toClient'[j].id
<1>0. toClient \in Seq(Update \cup Failure) /\ srv.id \in Nat
  BY WaitingFacts DEF OrderInv, Typed, Channels
<1>1. /\ DOMAIN toClient' = 1..(Len(toClient) + 1) /\ DOMAIN toClient = 1..Len(toClient)
      /\ Len(toClient) \in Nat
      /\ \A i \in DOMAIN toClient : toClient'[i] = toClient[i]
      /\ toClient'[Len(toClient) + 1] = x
  BY <1>0, AppendRange
<1>2. \A i \in DOMAIN toClient : toClient[i].id <= srv.id
  BY <1>0, SeqRange DEF Streams
<1> SUFFICES ASSUME NEW i \in DOMAIN toClient', NEW j \in DOMAIN toClient', i < j
             PROVE  toClient'[i].id <= toClient'[j].id
  OBVIOUS
<1>3. i \in DOMAIN toClient
  BY <1>1
<1>4. CASE j \in DOMAIN toClient
  BY <1>1, <1>3, <1>4 DEF Streams
<1>5. CASE j = Len(toClient) + 1
  BY <1>1, <1>2, <1>3, <1>5
<1> QED BY <1>1, <1>4, <1>5

LEMMA RisingStep ==
  ASSUME OrderInv, Streams, CliNext
  PROVE  \A i, j \in DOMAIN toClient' : i < j => toClient'[i].id <= toClient'[j].id
<1>0. /\ toClient \in Seq(Update \cup Failure) /\ updates \in Seq(Update)
      /\ srv \in Asked \cup {None}
  BY DEF OrderInv, Typed, Channels
<1>1. CASE UNCHANGED toClient
  BY <1>1 DEF Streams
<1>2. CASE Receive
  <2>1. toClient # <<>> /\ toClient' = Tail(toClient)
    BY <1>2 DEF Receive
  <2>2. \A i \in DOMAIN toClient' : /\ i + 1 \in DOMAIN toClient
                                    /\ toClient'[i] = toClient[i + 1] /\ i \in Nat \ {0}
    BY <1>0, <2>1, TailRange
  <2>3. \A i, j \in DOMAIN toClient' : i < j => i + 1 < j + 1
    BY <2>2
  <2> QED BY <2>2, <2>3 DEF Streams
<1>3. CASE Forward
  <2>1. updates # <<>> /\ toClient' = Append(toClient, Head(updates))
    BY <1>3 DEF Forward
  <2>2. Head(updates) \in Update /\ Head(updates) \in Range(updates)
    BY <1>0, <2>1, TailRange
  <2>3. srv # None /\ Head(updates).id = srv.id
    BY <2>2 DEF Streams
  <2> QED BY <2>1, <2>2, <2>3, RisingAppend
<1>4. CASE DeadlinePasses
  <2>1. [kind |-> "error", id |-> srv.id] \in Failure /\ srv # None
    BY <1>0, <1>4 DEF Failure, Asked, DeadlinePasses
  <2> QED BY <1>4, <2>1, RisingAppend DEF DeadlinePasses
<1>5. CASE Reconnect
  BY <1>5 DEF Reconnect
<1> QED BY <1>1, <1>2, <1>3, <1>4, <1>5
       DEF CliNext, DetailNext, CliConnect, CliDecide, Answered, CliTimesOut, RunCommand,
           OtherChanges, CacheFollows, Open, Close, StrayLost, TakeCommand, Login, Fetch,
           FetchTelemetry, SendUpdate, Logout, Finish, Dispatch, EndOfStream, KeepDetail,
           detailVars, asking

\* The updates of one request follow those of the one before.
LEMMA StreamsStep ==
  ASSUME OrderInv, PopupTyped, Streams, CliNext PROVE Streams'
<1>0. /\ OrderInv' /\ Typed /\ mesh \in MeshState /\ last \in Nat /\ last' \in {last, last + 1}
      /\ toServer \in Seq(Asked) /\ updates \in Seq(Update)
  BY OrderStep, Moves DEF OrderInv, Typed, MeshShape, Channels
<1>1. \A m \in Sending' : m.id = mesh'.cmd.id /\ m.on = mesh'.cmd.on
  <2> SUFFICES ASSUME NEW m \in Sending' PROVE m.id = mesh'.cmd.id /\ m.on = mesh'.cmd.on
    OBVIOUS
  <2>1. m \in Sending \/ Tells(m)
    BY FlyingStep
  <2>2. CASE m \in Sending
    <3>1. mesh.at # "idle" /\ mesh'.at # "idle"
      BY <2>2 DEF Sending
    <3> QED BY <2>2, <3>1, Moves DEF Streams
  <2>3. CASE Tells(m)
    BY <2>3 DEF Tells
  <2> QED BY <2>1, <2>2, <2>3
<1>2. Answering' => \A i \in DOMAIN mesh'.out : mesh'.out[i].id = mesh'.cmd.id
  <2>1. CASE UNCHANGED mesh
    BY <2>1 DEF Answering, Streams
  <2>2. CASE TakeCommand({"detail", "telemetry"}) \/ Login
    BY <2>2, TakeOrRefuse, LoginOrRefuse, RequestFacts DEF Answering, Refusal
  <2>3. CASE Fetch
    BY <1>0, <2>3, FetchSteps, RequestFacts DEF Answering, MeshState
  <2>4. CASE FetchTelemetry
    BY <1>0, <2>4 DEF FetchTelemetry, MeshState
  <2>5. CASE SendUpdate
    BY <1>0, <2>5 DEF SendUpdate, MeshState, Answering
  <2>6. CASE Logout
    BY <1>0, <2>6 DEF Logout, Go, MeshState, Answering, Streams
  <2>7. CASE Finish
    BY <2>7 DEF Finish, Idle, Answering
  <2> QED BY <2>1, <2>2, <2>3, <2>4, <2>5, <2>6, <2>7
         DEF CliNext, DetailNext, CliConnect, CliDecide, Answered, CliTimesOut, RunCommand,
             OtherChanges, CacheFollows, Open, Close, StrayLost, Receive, Forward, DeadlinePasses,
             Reconnect, Dispatch, EndOfStream, KeepDetail, detailVars
<1>3. \A m \in Range(updates') : srv' # None /\ m.id = srv'.id /\ m.on = srv'.on
  <2>1. CASE Range(updates') \subseteq Range(updates) /\ srv' = srv
    BY <2>1 DEF Streams
  <2>2. CASE updates' = <<>>
    BY <2>2, NoRange
  <2>3. CASE Dispatch
    <3>1. srv = None /\ updates' = updates
      BY <2>3 DEF Dispatch
    <3> QED BY <3>1 DEF Streams
  <2>4. CASE Forward
    <3>1. updates # <<>> /\ updates' = Tail(updates) /\ srv' = srv
      BY <2>4 DEF Forward
    <3> QED BY <1>0, <2>1, <3>1, TailRange
  <2>5. CASE SendUpdate
    <3>1. mesh.at # "idle" /\ mesh.cmd.kind = "detail" /\ mesh.out # <<>> /\ mesh.out \in Seq(Update)
      BY <1>0, <2>5 DEF SendUpdate, Typed, MeshShape, Idle
    <3>2. Head(mesh.out) \in Update /\ Head(mesh.out) \in Sending
      BY <3>1, TailRange DEF Sending
    <3>3. CASE updates' = Append(updates, Head(mesh.out)) /\ mesh.cmd = srv /\ srv' = srv
      <4>1. Range(updates') = Range(updates) \cup {Head(mesh.out)}
        BY <1>0, <3>2, <3>3, AppendRange
      <4>2. mesh.cmd # None
        BY <1>0, <3>1, RequestFacts DEF Typed, MeshShape
      <4> QED BY <3>2, <3>3, <4>1, <4>2 DEF Streams
    <3> QED BY <2>1, <2>5, <3>3 DEF SendUpdate
  <2>6. CASE UNCHANGED <<updates, srv>>
    BY <2>1, <2>6
  <2> QED BY <2>2, <2>3, <2>4, <2>5, <2>6
         DEF CliNext, DetailNext, CliConnect, CliDecide, Answered, CliTimesOut, RunCommand,
             OtherChanges, CacheFollows, Open, Close, StrayLost, Receive, DeadlinePasses, Reconnect,
             EndOfStream, TakeCommand, Login, Fetch, FetchTelemetry, Logout, Finish,
             KeepDetail, detailVars, asking
<1>4. ASSUME NEW m \in Range(toClient')
      PROVE  /\ m.id \in 1..last'
             /\ srv' # None => m.id <= srv'.id
             /\ \A q \in Range(toServer') : m.id < q.id
  <2>1. /\ m.id \in 1..last
        /\ srv # None => m.id <= srv.id
        /\ \A q \in Range(toServer) : m.id < q.id
    <3>1. CASE m \in Range(toClient)
      BY <3>1 DEF Streams
    <3>2. CASE srv # None /\ m.id = srv.id
      BY <3>2, WaitingFacts
    <3> QED BY <3>1, <3>2, StreamMoves
  <2>2. srv' # None => m.id <= srv'.id
    <3>1. \A q \in Range(toServer) : q.id \in Nat
      BY WaitingFacts DEF Asked
    <3> QED BY <2>1, <3>1, StreamMoves
  <2>3. \A q \in Range(toServer') : m.id < q.id
    <3>1. CASE Range(toServer)' \subseteq Range(toServer)
      BY <2>1, <3>1
    <3>2. CASE \E r \in Repeaters : Open(r)
      <4>1. \A q \in Range(toServer') : q \in Range(toServer) \/ q.id = last + 1
        <5>1. PICK r \in Repeaters : Open(r)
          BY <3>2
        <5> DEFINE n == [kind |-> "detail", id |-> last + 1, on |-> r]
        <5>2. toServer' = Append(toServer, n) /\ n \in Asked /\ n.id = last + 1
          BY <1>0, <5>1 DEF Open, Asked
        <5> HIDE DEF n
        <5>3. Range(toServer') = Range(toServer) \cup {n}
          BY <1>0, <5>2, AppendRange
        <5> QED BY <5>2, <5>3
      <4> QED BY <1>0, <2>1, <4>1
    <3> QED BY <3>1, <3>2, StreamMoves
  <2> QED BY <1>0, <2>1, <2>2, <2>3
<1> QED BY <1>1, <1>2, <1>3, <1>4, RisingStep DEF Streams, Answering

\* What happens to the popup: nothing, a new one, none any more, or an update.
LEMMA PopupMoves ==
  ASSUME CliNext
  PROVE  \/ popup' = popup
         \/ \E r \in Repeaters : Open(r)
         \/ popup' = None
         \/ Receive
BY DEF CliNext, DetailNext, CliConnect, CliDecide, Answered, CliTimesOut, RunCommand,
       OtherChanges, CacheFollows, Close, StrayLost, Forward, DeadlinePasses, Reconnect, Dispatch,
       EndOfStream, TakeCommand, Login, Fetch, FetchTelemetry, SendUpdate, Logout, Finish,
       KeepDetail, detailVars, screen

\* What an update does to the popup it is for.
LEMMA ApplyFacts ==
  ASSUME NEW p \in Popup, NEW m \in Update
  PROVE  LET q == ApplyCategory(p, m)
         IN /\ q \in Popup /\ q.on = p.on /\ q.id = p.id
            /\ \A c \in Category : /\ q.value[c] = IF m.ok /\ c = m.of THEN m.id ELSE p.value[c]
                                   /\ q.error[c] = IF ~m.ok /\ c = m.of /\ p.error[c] = 0
                                                   THEN m.id ELSE p.error[c]
<1>1. CASE m.ok
  BY <1>1 DEF ApplyCategory, Popup, Update
<1>2. CASE ~m.ok
  BY <1>2 DEF ApplyCategory, Popup, Update
<1> QED BY <1>1, <1>2

\* A new popup is empty.
LEMMA OpenFacts ==
  ASSUME OrderInv, NEW r \in Repeaters, Open(r)
  PROVE  LET q == [kind |-> "detail", id |-> last + 1, on |-> r]
         IN /\ popup' \in Popup /\ popup'.on = r /\ popup'.id = last + 1 /\ last' = last + 1
            /\ \A c \in Category : popup'.value[c] = 0 /\ popup'.error[c] = 0
            /\ q \in Asked /\ toServer' = Append(toServer, q)
            /\ Range(toServer') = Range(toServer) \cup {q}
            /\ result' = Append(result, Blank("none"))
            /\ UNCHANGED <<readings, mesh, queue, srv, toClient, updates, cut>>
<1> DEFINE q == [kind |-> "detail", id |-> last + 1, on |-> r]
<1>0. last \in Nat /\ toServer \in Seq(Asked)
  BY DEF OrderInv, Typed, Channels
<1>1. /\ popup' \in Popup /\ popup'.on = r /\ popup'.id = last + 1 /\ last' = last + 1
      /\ \A c \in Category : popup'.value[c] = 0 /\ popup'.error[c] = 0
  BY <1>0 DEF Open, Fresh, Blank, Popup
<1>2. q \in Asked /\ toServer' = Append(toServer, q)
  BY <1>0 DEF Open, Asked
<1>3. Range(toServer') = Range(toServer) \cup {q}
  <2> HIDE DEF q
  <2> QED BY <1>0, <1>2, AppendRange
<1>4. /\ result' = Append(result, Blank("none"))
      /\ UNCHANGED <<readings, mesh, queue, srv, toClient, updates, cut>>
  BY DEF Open
<1> QED BY <1>1, <1>2, <1>3, <1>4

\* An update received.
LEMMA ReceiveFacts ==
  ASSUME OrderInv, PopupTyped, Receive
  PROVE  \E m \in Range(toClient) :
           /\ m = toClient[1] /\ 1 \in DOMAIN toClient
           /\ Range(toClient) = {m} \cup Range(toClient')
           /\ UNCHANGED <<readings, mesh, queue, srv, toServer, updates, last, result, cut>>
           /\ \/ popup' = popup /\ (popup # None /\ m.kind = "category" => popup.on # m.on)
              \/ /\ m \in Update /\ m \in Passed /\ popup # None /\ popup \in Popup
                 /\ popup.on = m.on
                 /\ popup' = ApplyCategory(popup, m)
<1>0. toClient \in Seq(Update \cup Failure)
  BY DEF OrderInv, Typed, Channels
<1>1. /\ toClient # <<>> /\ toClient' = Tail(toClient)
      /\ UNCHANGED <<readings, mesh, queue, srv, toServer, updates, last, result, cut>>
  BY DEF Receive
<1>2. /\ Head(toClient) \in Range(toClient) /\ Head(toClient) = toClient[1] /\ 1 \in DOMAIN toClient
      /\ Range(toClient) = {Head(toClient)} \cup Range(toClient')
  BY <1>0, <1>1, TailRange
<1>3. PICK m \in Range(toClient) : m = Head(toClient)
  BY <1>2
<1>4. popup' = IF m.kind = "category" /\ popup # None /\ popup.on = m.on
               THEN ApplyCategory(popup, m) ELSE popup
  BY <1>3 DEF Receive
<1>5. m.kind = "category" => m \in Update /\ m \in Passed
  BY FlyingFacts DEF Passed
<1>6. popup # None => popup \in Popup
  BY DEF PopupTyped
<1> QED BY <1>1, <1>2, <1>3, <1>4, <1>5, <1>6

LEMMA PopupTypedStep ==
  ASSUME OrderInv, PopupTyped, Results, CliNext PROVE PopupTyped'
<1>0. /\ Typed /\ last \in Nat /\ last' \in {last, last + 1} /\ None \notin Asked
  BY Moves, RequestFacts DEF OrderInv
<1>1. result' \in Seq(Tally) /\ Len(result') = last'
  BY ResultSteps
<1>2. readings' \in [Repeaters -> Nat]
  <2>1. CASE Fetch
    BY <1>0, <2>1, FetchSteps DEF Finalize, PopupTyped, Asked
  <2>2. CASE Finish
    <3>1. CASE UNCHANGED readings
      BY <3>1 DEF PopupTyped
    <3>2. CASE /\ mesh.cmd.kind = "telemetry" /\ mesh.out # <<>>
               /\ Finalize(mesh.cmd.on, Head(mesh.out).id)
      <4>1. mesh.out \in Seq(Answer)
        BY <1>0, <2>2, <3>2 DEF Finish, Typed, MeshShape
      <4>2. Head(mesh.out) \in Answer
        BY <3>2, <4>1, TailRange
      <4>3. Head(mesh.out).id \in Nat
        BY <4>2 DEF Answer
      <4> QED BY <3>2, <4>3 DEF Finalize, PopupTyped
    <3> QED BY <2>2, <3>1, <3>2 DEF Finish
  <2>3. CASE UNCHANGED readings
    BY <2>3 DEF PopupTyped
  <2> QED BY <2>1, <2>2, <2>3
         DEF CliNext, DetailNext, CliConnect, CliDecide, Answered, CliTimesOut, RunCommand,
             OtherChanges, CacheFollows, Open, Close, StrayLost, Receive, Forward, DeadlinePasses,
             Reconnect, Dispatch, EndOfStream, TakeCommand, Login, FetchTelemetry, SendUpdate,
             Logout, KeepDetail, detailVars
<1>3. popup' \in Popup \cup {None} /\ (popup' # None => popup'.id \in 1..last')
  <2>1. CASE popup' = popup \/ popup' = None
    BY <1>0, <2>1 DEF PopupTyped
  <2>2. CASE \E r \in Repeaters : Open(r)
    <3>1. PICK r \in Repeaters : Open(r)
      BY <2>2
    <3>2. popup' \in Popup /\ popup'.id = last + 1 /\ last' = last + 1
      BY <3>1, OpenFacts
    <3> QED BY <1>0, <3>2
  <2>3. CASE Receive
    <3>1. PICK m : /\ last' = last
                   /\ \/ popup' = popup
                      \/ /\ m \in Update /\ popup # None /\ popup \in Popup
                         /\ popup' = ApplyCategory(popup, m)
      BY <2>3, ReceiveFacts
    <3>2. CASE /\ m \in Update /\ popup # None /\ popup \in Popup
               /\ popup' = ApplyCategory(popup, m)
      <4>1. popup' \in Popup /\ popup'.id = popup.id
        BY <3>2, ApplyFacts
      <4> QED BY <3>1, <3>2, <4>1 DEF PopupTyped
    <3> QED BY <2>1, <3>1, <3>2
  <2> QED BY <2>1, <2>2, <2>3, PopupMoves
<1> QED BY <1>1, <1>2, <1>3 DEF PopupTyped

\* Nothing on the client's connection is about a later request than the popup's.
LEMMA NewestStep ==
  ASSUME OrderInv, PopupTyped, Results, Streams, Newest, CliNext PROVE Newest'
<1>0. /\ last \in Nat /\ last' \in {last, last + 1} /\ PopupTyped' /\ None \notin Asked
      /\ \A q \in Range(toServer) : q.id \in 1..last /\ q.id \in Nat
      /\ srv # None => srv.id \in 1..last
  BY Moves, PopupTypedStep, WaitingFacts, RequestFacts DEF Waiting
<1>1. CASE \E r \in Repeaters : Open(r)
  <2>1. PICK r \in Repeaters : Open(r)
    BY <1>1
  <2> DEFINE n == [kind |-> "detail", id |-> last + 1, on |-> r]
  <2>2. /\ popup'.id = last + 1 /\ \A c \in Category : popup'.value[c] = 0
        /\ n.id = last + 1 /\ Range(toServer') = Range(toServer) \cup {n}
        /\ UNCHANGED <<srv, toClient>>
    BY <2>1, OpenFacts
  <2> HIDE DEF n
  <2>3. \A m \in Range(toClient) : m.id \in 1..last
    BY DEF Streams
  <2> QED BY <1>0, <2>2, <2>3 DEF Newest
<1>2. ASSUME popup' # None, popup # None, popup'.id = popup.id,
             ~(\E r \in Repeaters : Open(r)),
             \A c \in Category : /\ popup'.value[c] <= popup.id
                                 /\ popup'.value[c] = popup.id => result[popup.id][c] = "ok"
      PROVE  Newest'
  <2>1. PICK id \in 1..last : id = popup.id /\ id = popup'.id
    BY <1>2 DEF PopupTyped
  <2>2. \A c \in Category : result[id][c] = "ok" => result'[id][c] = "ok"
    BY ResultSteps
  <2>3. /\ \A q \in Range(toServer) : q.id <= id
        /\ srv # None => srv.id <= id
        /\ \A m \in Range(toClient) : m.id <= id
    BY <1>2, <2>1 DEF Newest
  <2>4. /\ \A q \in Range(toServer') : q.id <= id
        /\ srv' # None => srv'.id <= id
        /\ \A m \in Range(toClient') : m.id <= id
    BY <1>2, <2>3, StreamMoves
  <2> QED BY <1>2, <2>1, <2>2, <2>4 DEF Newest
<1>3. CASE popup' = popup /\ ~(\E r \in Repeaters : Open(r))
  BY <1>2, <1>3 DEF Newest
<1>4. CASE popup' = None
  BY <1>4 DEF Newest
<1>5. CASE Receive /\ ~(\E r \in Repeaters : Open(r)) /\ popup' # None
  <2>1. PICK m \in Range(toClient) :
          \/ popup' = popup
          \/ /\ m \in Update /\ m \in Passed /\ popup # None /\ popup \in Popup
             /\ popup' = ApplyCategory(popup, m)
    BY <1>5, ReceiveFacts
  <2>2. CASE /\ m \in Update /\ m \in Passed /\ popup # None /\ popup \in Popup
             /\ popup' = ApplyCategory(popup, m)
    <3>1. /\ popup'.id = popup.id
          /\ \A c \in Category : popup'.value[c] = IF m.ok /\ c = m.of THEN m.id ELSE popup.value[c]
      BY <2>2, ApplyFacts
    <3>2. m.id <= popup.id /\ (m.ok => result[m.id][m.of] = "ok")
      BY <2>2 DEF Newest, Results, Truthful, Flying
    <3>3. \A c \in Category : /\ popup'.value[c] <= popup.id
                              /\ popup'.value[c] = popup.id => result[popup.id][c] = "ok"
      BY <2>2, <3>1, <3>2 DEF Newest
    <3> QED BY <1>2, <1>5, <2>2, <3>1, <3>3
  <2> QED BY <1>3, <1>5, <2>1, <2>2
<1> QED BY <1>1, <1>3, <1>4, <1>5, PopupMoves

\* A number no request still to be made undercuts stays one.
LEMMA OldStays ==
  ASSUME OrderInv, CliNext, NEW v, Old(v) PROVE Old(v)'
<1>0. OrderInv' /\ last \in Nat /\ last' \in {last, last + 1}
  BY OrderStep, Moves
<1>1. v \in 0..last /\ (mesh.at # "idle" => v <= mesh.cmd.id) /\ \A q \in Waiting : v < q.id
  BY DEF Old
<1>2. \A q \in Waiting : q.id \in Nat
  BY <1>0, WaitingFacts
<1>3. mesh'.at # "idle" => v <= mesh'.cmd.id
  BY <1>1, <1>2, Moves
<1>4. \A q \in Waiting' : v < q.id
  BY <1>0, <1>1, Moves
<1> QED BY <1>0, <1>1, <1>3, <1>4 DEF Old

\* A reading is only replaced by one that is not older (mesh_task.rs
\* finalize_telemetry_success).
LEMMA ReadingsGrow ==
  ASSUME OrderInv, PopupTyped, Streams, CliNext, NEW r \in Repeaters, NEW v,
         Old(v), v <= readings[r]
  PROVE  v <= readings'[r]
<1>0. Typed /\ readings \in [Repeaters -> Nat]
  BY DEF OrderInv, PopupTyped
<1>1. mesh.at # "idle" => v <= mesh.cmd.id
  BY DEF Old
<1>2. CASE Fetch
  <2>1. mesh.at # "idle" /\ (UNCHANGED readings \/ Finalize(mesh.cmd.on, mesh.cmd.id))
    BY <1>0, <1>2, FetchSteps, CategoryFacts
  <2> QED BY <1>0, <1>1, <2>1 DEF Finalize
<1>3. CASE Finish
  <2>1. CASE UNCHANGED readings
    BY <2>1
  <2>2. CASE /\ mesh.cmd.kind = "telemetry" /\ mesh.out # <<>>
             /\ Finalize(mesh.cmd.on, Head(mesh.out).id)
    <3>1. mesh.at = "done" /\ mesh.out \in Seq(Answer)
      BY <1>0, <1>3, <2>2 DEF Finish, Typed, MeshShape
    <3>2. Head(mesh.out) = mesh.out[1] /\ 1 \in DOMAIN mesh.out
      BY <2>2, <3>1, TailRange
    <3>3. Head(mesh.out).id = mesh.cmd.id
      BY <2>2, <3>1, <3>2 DEF Streams, Answering
    <3> QED BY <1>0, <1>1, <2>2, <3>1, <3>3 DEF Finalize
  <2> QED BY <1>3, <2>1, <2>2 DEF Finish
<1>4. CASE UNCHANGED readings
  BY <1>4
<1> QED BY <1>2, <1>3, <1>4
       DEF CliNext, DetailNext, CliConnect, CliDecide, Answered, CliTimesOut, RunCommand,
           OtherChanges, CacheFollows, Open, Close, StrayLost, Receive, Forward, DeadlinePasses,
           Reconnect, Dispatch, EndOfStream, TakeCommand, Login, FetchTelemetry, SendUpdate,
           Logout, KeepDetail, detailVars

\* The telemetry on its way and in the popup is no newer than the snapshot's.
LEMMA ReadingsStep ==
  ASSUME OrderInv, PopupTyped, Results, Streams, Readings, CliNext PROVE Readings'
<1>0. /\ OrderInv' /\ PopupTyped' /\ last \in Nat /\ last' \in {last, last + 1}
      /\ "telemetry" \in Category
  BY OrderStep, Moves, PopupTypedStep, CategoryFacts
<1>1. ASSUME NEW m \in Flying'
      PROVE  Old(m.id)' /\ (m.of = "telemetry" /\ m.ok => m.id <= readings'[m.on])
  <2>1. m \in Flying \/ Tells(m)
    BY FlyingStep DEF Flying
  <2>2. CASE m \in Flying
    <3>1. Old(m.id) /\ m.on \in Repeaters /\ (m.of = "telemetry" /\ m.ok => m.id <= readings[m.on])
      BY <2>2, FlyingFacts DEF Readings, Read
    <3> QED BY <3>1, OldStays, ReadingsGrow
  <2>3. CASE Tells(m)
    <3>1. /\ mesh'.at # "idle" /\ mesh'.cmd.kind = "detail" /\ m.id \in 1..last'
          /\ m.id = mesh'.cmd.id
      BY <2>3 DEF Tells
    <3>2. \A q \in Waiting' : m.id < q.id
      BY <1>0, <3>1, OrderNext
    <3>3. Old(m.id)'
      BY <3>1, <3>2 DEF Old
    <3>4. m.of = "telemetry" /\ m.ok => m.id <= readings'[m.on]
      BY <2>3, <3>1 DEF Tells
    <3> QED BY <3>3, <3>4
  <2> QED BY <2>1, <2>2, <2>3
<1>2. ASSUME popup' # None
      PROVE  /\ Old(popup.value["telemetry"])'
             /\ popup'.value["telemetry"] <= readings'[popup'.on]
  <2> DEFINE Good(x, r) == Old(x) /\ x <= readings[r]
  <2>1. ASSUME NEW x, NEW r \in Repeaters, Good(x, r), popup'.value["telemetry"] = x, popup'.on = r
        PROVE  /\ Old(popup.value["telemetry"])'
               /\ popup'.value["telemetry"] <= readings'[popup'.on]
    <3>1. Old(x)' /\ x <= readings'[r]
      BY <2>1, OldStays, ReadingsGrow
    <3> QED BY <2>1, <3>1 DEF Old
  <2>2. CASE \E r \in Repeaters : Open(r)
    <3>1. PICK r \in Repeaters : Open(r)
      BY <2>2
    <3>2. popup'.on = r /\ popup'.value["telemetry"] = 0
      BY <1>0, <3>1, OpenFacts
    <3>3. Old(0)
      BY <1>0, WaitingFacts DEF Old
    <3>4. 0 <= readings[r]
      BY DEF PopupTyped
    <3> QED BY <2>1, <3>2, <3>3, <3>4
  <2>3. CASE popup' = popup
    <3>1. popup \in Popup /\ popup # None
      BY <1>2, <2>3 DEF PopupTyped
    <3>2. PICK r \in Repeaters : r = popup.on
      BY <3>1 DEF Popup
    <3>3. PICK x : x = popup.value["telemetry"]
      OBVIOUS
    <3>4. Good(x, r)
      BY <3>1, <3>2, <3>3 DEF Readings
    <3> QED BY <2>1, <2>3, <3>2, <3>3, <3>4
  <2>4. CASE Receive
    <3>1. PICK m \in Range(toClient) :
            \/ popup' = popup
            \/ /\ m \in Update /\ m \in Passed /\ popup # None /\ popup \in Popup
               /\ popup.on = m.on /\ popup' = ApplyCategory(popup, m)
      BY <2>4, ReceiveFacts
    <3>2. CASE /\ m \in Update /\ m \in Passed /\ popup # None /\ popup \in Popup
               /\ popup.on = m.on /\ popup' = ApplyCategory(popup, m)
      <4>1. /\ popup'.on = m.on /\ m.on \in Repeaters
            /\ popup'.value["telemetry"] = IF m.ok /\ m.of = "telemetry" THEN m.id
                                           ELSE popup.value["telemetry"]
        BY <1>0, <3>2, ApplyFacts, FlyingFacts
      <4>2. CASE m.ok /\ m.of = "telemetry"
        <5>1. Good(m.id, m.on)
          BY <3>2, <4>2 DEF Readings, Read, Flying
        <5> QED BY <2>1, <4>1, <4>2, <5>1
      <4>3. CASE ~(m.ok /\ m.of = "telemetry")
        <5>1. PICK x : x = popup.value["telemetry"]
          OBVIOUS
        <5>2. Good(x, m.on)
          BY <3>2, <5>1 DEF Readings
        <5> QED BY <2>1, <4>1, <4>3, <5>1, <5>2
      <4> QED BY <4>2, <4>3
    <3> QED BY <2>3, <3>1, <3>2
  <2> QED BY <1>2, <2>2, <2>3, <2>4, PopupMoves
<1>3. \A m \in Flying' : Read(m)'
  BY <1>1 DEF Read
<1> QED BY <1>2, <1>3 DEF Readings

\* A request is in hand until it is through.
LEMMA InHand ==
  ASSUME OrderInv, CliNext, mesh.at # "idle", ~Finish
  PROVE  mesh'.at # "idle" /\ mesh'.cmd = mesh.cmd
<1>0. Typed /\ mesh \in MeshState /\ mesh.cmd \in Request
  BY DEF OrderInv, Typed, MeshShape
<1>1. CASE Login
  BY <1>1, LoginOrRefuse DEF Refusal
<1>2. CASE Fetch
  BY <1>0, <1>2, FetchSteps, CategoryFacts, ZenonT(30) DEF MeshState
<1>3. CASE FetchTelemetry \/ SendUpdate \/ Logout
  BY <1>0, <1>3 DEF FetchTelemetry, SendUpdate, Logout, Go, MeshState
<1>4. CASE UNCHANGED mesh
  BY <1>4
<1> QED BY <1>1, <1>2, <1>3, <1>4
       DEF CliNext, DetailNext, CliConnect, CliDecide, Answered, CliTimesOut, RunCommand,
           OtherChanges, CacheFollows, Open, Close, StrayLost, Receive, Forward, DeadlinePasses,
           Reconnect, Dispatch, EndOfStream, TakeCommand, KeepDetail, detailVars

\* What the popup shows once an update of its own request has been applied.
LEMMA ApplySettles ==
  ASSUME OrderInv, PopupTyped, Results, Newest, popup # None, NEW m \in Passed, m \in Update,
         m.id = popup.id, popup' = ApplyCategory(popup, m), result' = result
  PROVE  Settled(m.of, result[popup.id][m.of])'
<1>1. popup \in Popup /\ popup.id \in 1..last /\ last \in Nat /\ m.of \in Category
  BY FlyingFacts DEF PopupTyped, OrderInv, Typed, Channels
<1>2. PICK c \in Category : c = m.of
  BY <1>1
<1>3. /\ popup'.id = popup.id
      /\ popup'.value[c] = IF m.ok THEN m.id ELSE popup.value[c]
      /\ popup'.error[c] = IF ~m.ok /\ popup.error[c] = 0 THEN m.id ELSE popup.error[c]
  BY <1>1, <1>2, ApplyFacts
<1>4. result'[popup'.id][c] = IF m.ok THEN "ok" ELSE "failed"
  BY <1>2, <1>3 DEF Results, Truthful, Flying
<1>5. /\ popup.value[c] \in Nat /\ popup.value[c] <= popup.id
      /\ popup.value[c] = popup.id => result[popup.id][c] = "ok"
  BY <1>1, <1>2 DEF Newest, Popup
<1>6. CASE m.ok
  <2>1. popup'.value[c] = popup'.id /\ popup'.value[c] # 0
    BY <1>1, <1>3, <1>6
  <2>2. Section(c)' = [shows |-> "value", of |-> popup'.id]
    BY <2>1 DEF Section, Pending
  <2> QED BY <1>2, <1>4, <1>6, <2>2 DEF Settled
<1>7. CASE ~m.ok
  <2>1. popup'.error[c] # 0 /\ popup'.value[c] = popup.value[c]
    BY <1>1, <1>3, <1>7
  <2>2. CASE popup.value[c] = 0
    <3>1. Section(c)'.shows = "error"
      BY <2>1, <2>2 DEF Section, Pending, ErrorLine
    <3> QED BY <1>2, <1>4, <1>7, <3>1 DEF Settled
  <2>3. CASE popup.value[c] # 0
    <3>1. Section(c)'.shows = "value" /\ Section(c)'.of = popup.value[c]
      BY <2>1, <2>3 DEF Section, Pending
    <3>2. popup.value[c] < popup'.id
      BY <1>1, <1>3, <1>4, <1>5, <1>7
    <3> QED BY <1>2, <1>4, <1>7, <3>1, <3>2 DEF Settled
  <2> QED BY <2>2, <2>3
<1> QED BY <1>6, <1>7

\* The popup's request as the channels carry it.
LEMMA PopupFacts ==
  ASSUME OrderInv, PopupTyped, popup # None
  PROVE  /\ PopupRequest \in Asked /\ popup.id \in 1..last /\ popup.on \in Repeaters
         /\ PopupRequest.id = popup.id /\ PopupRequest.on = popup.on /\ PopupRequest # None
<1>1. popup \in Popup /\ popup.id \in 1..last /\ last \in Nat
  BY DEF PopupTyped, OrderInv, Typed, Channels
<1>2. PopupRequest \in Asked
  BY <1>1 DEF Popup, PopupRequest, Asked
<1> QED BY <1>1, <1>2, RequestFacts DEF Popup, PopupRequest

\* A request that is coming stays so until the mesh task is through with it.
LEMMA ComingStays ==
  ASSUME OrderInv, PopupTyped, Results, Streams, CliNext, popup # None, Coming,
         popup.id \notin cut', NEW c \in Category, result[popup.id][c] = "none",
         \A r \in Repeaters : ~Open(r), ~Reconnect, NEW p, p = PopupRequest
  PROVE  \/ p \in Range(toServer')
         \/ srv' = p /\ (p \in Range(queue') \/ mesh'.cmd = p)
<1>0. /\ Typed /\ p \in Asked /\ p # None /\ p.id = popup.id /\ p.kind = "detail"
      /\ queue \in Seq(Request) /\ toServer \in Seq(Asked)
  BY PopupFacts, RequestFacts DEF OrderInv, Typed, Channels
<1> DEFINE Still == \/ p \in Range(toServer')
                    \/ srv' = p /\ (p \in Range(queue') \/ mesh'.cmd = p)
<1>1. CASE p \in Range(toServer)
  <2>1. CASE Dispatch
    <3>1. /\ toServer # <<>> /\ srv' = Head(toServer) /\ queue' = Append(queue, Head(toServer))
          /\ toServer' = Tail(toServer)
      BY <2>1 DEF Dispatch
    <3>2. /\ Head(toServer) \in Request
          /\ Range(toServer) = {Head(toServer)} \cup Range(toServer')
      BY <1>0, <3>1, TailRange, RequestFacts
    <3>3. Range(queue') = Range(queue) \cup {Head(toServer)}
      BY <1>0, <3>1, <3>2, AppendRange
    <3> QED BY <1>1, <3>1, <3>2, <3>3
  <2>2. CASE UNCHANGED toServer
    BY <1>1, <2>2
  <2> QED BY <2>1, <2>2
         DEF CliNext, DetailNext, CliConnect, CliDecide, Answered, CliTimesOut, RunCommand,
             OtherChanges, CacheFollows, Close, StrayLost, Receive, Forward, DeadlinePasses,
             EndOfStream, TakeCommand, Login, Fetch, FetchTelemetry, SendUpdate, Logout, Finish,
             KeepDetail, detailVars, asking
<1>2. ASSUME srv = p, p \in Range(queue) \/ mesh.cmd = p PROVE srv' = p
  <2>1. ~Dispatch
    BY <1>0, <1>2 DEF Dispatch
  <2>2. ~EndOfStream
    BY <1>0, <1>2 DEF EndOfStream, SenderGone, Range
  <2>3. ~DeadlinePasses
    BY <1>0, <1>2 DEF DeadlinePasses
  <2> QED BY <1>2, <2>1, <2>2, <2>3
         DEF CliNext, DetailNext, CliConnect, CliDecide, Answered, CliTimesOut, RunCommand,
             OtherChanges, CacheFollows, Open, Close, StrayLost, Receive, Forward,
             TakeCommand, Login, Fetch, FetchTelemetry, SendUpdate, Logout, Finish,
             KeepDetail, detailVars, asking
<1>3. CASE srv = p /\ mesh.cmd = p
  <2>1. mesh.at # "idle"
    BY <1>0, <1>3 DEF Typed, MeshShape, Idle
  <2>2. ~Finish
    <3>1. c \in Ahead[mesh.at]
      BY <1>0, <1>3, <2>1 DEF Results
    <3> QED BY <3>1, AheadFacts DEF Finish
  <2> QED BY <1>2, <1>3, <2>1, <2>2, InHand
<1>4. CASE srv = p /\ p \in Range(queue)
  <2>1. CASE RunCommand \/ TakeCommand({"detail", "telemetry"})
    <3>1. queue # <<>> /\ queue' = Tail(queue)
      BY <2>1 DEF RunCommand, TakeCommand
    <3>2. Range(queue) = {Head(queue)} \cup Range(queue')
      BY <1>0, <3>1, TailRange
    <3>3. Head(queue) = p => mesh'.cmd = p
      <4>1. Head(queue) = p => ~RunCommand
        BY <1>0 DEF RunCommand
      <4> QED BY <1>0, <2>1, <4>1, TakeSteps
    <3> QED BY <1>2, <1>4, <3>2, <3>3
  <2>2. CASE CliDecide
    <3>1. \/ queue' = queue
          \/ Forwarded(cli.cmd) \in Request /\ queue' = Append(queue, Forwarded(cli.cmd))
      BY <2>2, DecideSteps
    <3>2. Range(queue) \subseteq Range(queue')
      <4>1. CASE Forwarded(cli.cmd) \in Request /\ queue' = Append(queue, Forwarded(cli.cmd))
        <5> HIDE DEF Forwarded
        <5> QED BY <1>0, <4>1, AppendRange
      <4> QED BY <3>1, <4>1
    <3> QED BY <1>2, <1>4, <3>2
  <2>3. CASE UNCHANGED queue
    BY <1>2, <1>4, <2>3
  <2>4. ~Dispatch
    BY <1>0, <1>4 DEF Dispatch
  <2> QED BY <2>1, <2>2, <2>3, <2>4
         DEF CliNext, DetailNext, CliConnect, Answered, CliTimesOut,
             OtherChanges, CacheFollows, Open, Close, StrayLost, Receive, Forward, DeadlinePasses,
             EndOfStream, Login, Fetch, FetchTelemetry, SendUpdate, Logout, Finish,
             KeepDetail, detailVars, asking
<1> QED BY <1>1, <1>3, <1>4 DEF Coming

\* The outcome of a category that was still to come is on its way.
LEMMA ComingStep ==
  ASSUME OrderInv, PopupTyped, Results, Streams, CliNext, popup # None, Coming,
         popup' = popup, popup.id \notin cut', NEW c \in Category, result[popup.id][c] = "none",
         \A r \in Repeaters : ~Open(r), ~Reconnect
  PROVE  (result[popup.id][c] = "none" /\ Coming)' \/ OnTheWay(c)'
<1>0. Results' /\ Typed /\ mesh \in MeshState
  BY ResultsStep DEF OrderInv, Typed, MeshShape
<1>1. PICK p : p = PopupRequest
  OBVIOUS
<1>2. p \in Asked /\ p.id \in 1..last /\ p.id = popup.id /\ p.on = popup.on /\ p # None /\ p \in Request
  BY <1>1, PopupFacts, RequestFacts
<1>3. PopupRequest' = p
  BY <1>1 DEF PopupRequest
<1>4. \/ p \in Range(toServer')
      \/ srv' = p /\ (p \in Range(queue') \/ mesh'.cmd = p)
  BY <1>1, ComingStays
<1>5. Coming'
  BY <1>3, <1>4 DEF Coming
<1>6. CASE result'[p.id][c] = "none"
  BY <1>2, <1>5, <1>6
<1>7. CASE result'[p.id][c] # "none"
  <2>1. p \notin Waiting'
    BY <1>0, <1>7 DEF Results, Blank
  <2>2. srv' = p /\ mesh'.cmd = p
    BY <1>4, <2>1 DEF Waiting
  <2>3. ~UNCHANGED result
    BY <1>2, <1>7
  <2>4. result' # Append(result, Blank("none"))
    <3>1. Blank("none") \in Tally
      BY DEF Blank, Tally
    <3> QED BY <1>2, <1>7, <3>1, AppendRange, LenProperties DEF PopupTyped
  <2>5. CASE Refusal
    <3>1. mesh'.at = "done" /\ mesh'.out = AllFail(p)
      BY <2>2, <2>5 DEF Refusal
    <3>2. PICK i \in DOMAIN AllFail(p) : AllFail(p)[i] = Message(p, c, FALSE)
      BY <1>2, AllFailFacts
    <3>3. PICK m : m = Message(p, c, FALSE) /\ m \in Range(AllFail(p))
      BY <3>2 DEF Range
    <3>4. m.id = p.id /\ m.on = p.on /\ m.of = c
      BY <1>2, <3>3, MessageFacts
    <3>5. m \in Sending'
      BY <1>2, <2>2, <3>1, <3>3, RequestFacts DEF Sending
    <3> QED BY <1>2, <2>2, <3>4, <3>5 DEF OnTheWay, Bound
  <2>6. CASE Fetch
    <3>1. PICK ok \in BOOLEAN :
            /\ mesh' = [mesh EXCEPT !.at = After[mesh.at],
                                    !.out = <<Message(mesh.cmd, mesh.at, ok)>>]
            /\ Note(mesh.cmd.id, mesh.at, ok) /\ mesh.at \in Category
      BY <1>0, <2>6, FetchSteps
    <3>2. /\ mesh'.at # "idle" /\ mesh'.cmd = mesh.cmd /\ mesh.cmd = p
          /\ mesh'.out = <<Message(p, mesh.at, ok)>>
      BY <1>0, <2>2, <3>1, CategoryFacts DEF MeshState
    <3>3. result[p.id] \in Tally /\ p.id \in DOMAIN result
      BY <1>2, LenProperties DEF PopupTyped
    <3>4. c = mesh.at
      BY <1>2, <1>7, <3>1, <3>2, <3>3 DEF Note, Tally
    <3>5. PICK m : m = Message(p, c, ok)
      OBVIOUS
    <3>6. m.id = p.id /\ m.on = p.on /\ m.of = c
      BY <1>2, <3>5, MessageFacts
    <3>7. m \in Sending'
      <4>1. mesh'.out = <<m>>
        BY <3>2, <3>4, <3>5
      <4>2. m \in Range(mesh'.out)
        BY <4>1 DEF Range
      <4> QED BY <1>2, <2>2, <3>2, <4>2, RequestFacts DEF Sending
    <3> QED BY <1>2, <2>2, <3>6, <3>7 DEF OnTheWay, Bound
  <2> QED BY <2>3, <2>4, <2>5, <2>6, ResultMoves
<1> QED BY <1>6, <1>7

\* An outcome on its way stays on its way until it is received.
LEMMA OnTheWayStep ==
  ASSUME OrderInv, PopupTyped, Streams, CliNext, popup # None,
         popup' = popup, popup.id \notin cut', NEW c \in Category, OnTheWay(c),
         ~Receive, ~Reconnect
  PROVE  OnTheWay(c)'
<1>0. /\ Typed /\ mesh \in MeshState /\ toClient \in Seq(Update \cup Failure)
      /\ updates \in Seq(Update) /\ srv \in Asked \cup {None}
  BY DEF OrderInv, Typed, MeshShape, Channels
<1>1. PICK m \in Bound : m.id = popup.id /\ m.on = popup.on /\ m.of = c
  BY DEF OnTheWay
<1>2. m \in Passed \/ (mesh.cmd = srv /\ m \in Sending)
  BY <1>1 DEF Bound
<1>3. CASE m \in Passed
  <2>1. m \in Passed'
    <3>1. CASE Forward
      <4>1. /\ updates # <<>> /\ toClient' = Append(toClient, Head(updates))
            /\ updates' = Tail(updates)
        BY <3>1 DEF Forward
      <4>2. Head(updates) \in Update /\ Range(updates) = {Head(updates)} \cup Range(updates')
        BY <1>0, <4>1, TailRange
      <4>3. Head(updates) \in Update \cup Failure /\ Head(updates).kind = "category"
        BY <4>2, FlyingFacts
      <4>4. Range(toClient') = Range(toClient) \cup {Head(updates)}
        BY <1>0, <4>1, <4>3, AppendRange
      <4> QED BY <1>3, <4>2, <4>3, <4>4 DEF Passed
    <3>2. CASE DeadlinePasses
      <4>1. [kind |-> "error", id |-> srv.id] \in Failure /\ updates' = updates
        BY <1>0, <3>2 DEF Failure, Asked, DeadlinePasses
      <4>2. Range(toClient') = Range(toClient) \cup {[kind |-> "error", id |-> srv.id]}
        BY <1>0, <3>2, <4>1, AppendRange DEF DeadlinePasses
      <4> QED BY <1>3, <4>1, <4>2 DEF Passed
    <3>3. CASE SendUpdate
      <4>1. mesh.out # <<>> /\ mesh.out \in Seq(Update)
        BY <1>0, <3>3 DEF SendUpdate, Typed, MeshShape, Idle
      <4>2. Head(mesh.out) \in Update
        BY <4>1, TailRange
      <4>3. updates' = updates \/ updates' = Append(updates, Head(mesh.out))
        BY <3>3 DEF SendUpdate
      <4>4. Range(Append(updates, Head(mesh.out))) = Range(updates) \cup {Head(mesh.out)}
        BY <1>0, <4>2, AppendRange
      <4> QED BY <1>3, <3>3, <4>3, <4>4 DEF Passed, SendUpdate
    <3>4. CASE UNCHANGED <<updates, toClient>>
      BY <1>3, <3>4 DEF Passed
    <3> QED BY <3>1, <3>2, <3>3, <3>4
           DEF CliNext, DetailNext, CliConnect, CliDecide, Answered, CliTimesOut, RunCommand,
               OtherChanges, CacheFollows, Open, Close, StrayLost, Dispatch, EndOfStream,
               TakeCommand, Login, Fetch, FetchTelemetry, Logout, Finish,
               KeepDetail, detailVars, asking
  <2> QED BY <1>1, <2>1 DEF OnTheWay, Bound
<1>4. CASE mesh.cmd = srv /\ m \in Sending
  <2>1. /\ mesh.at # "idle" /\ mesh.cmd.kind = "detail" /\ m \in Range(mesh.out)
        /\ mesh.out \in Seq(Update) /\ mesh.out # <<>>
    BY <1>0, <1>4, NoRange DEF Sending, Typed, MeshShape
  <2>2. srv.id = popup.id /\ srv # None
    BY <1>0, <1>1, <1>4, <2>1, RequestFacts DEF Streams, Typed, MeshShape
  <2>3. CASE SendUpdate
    <3>1. /\ Head(mesh.out) \in Update /\ Range(mesh.out) = {Head(mesh.out)} \cup Range(Tail(mesh.out))
      BY <2>1, TailRange
    <3>2. /\ updates' = Append(updates, Head(mesh.out)) /\ UNCHANGED <<srv, toClient>>
          /\ mesh'.at = mesh.at /\ mesh'.cmd = mesh.cmd /\ mesh'.out = Tail(mesh.out)
      BY <1>0, <1>4, <2>3 DEF SendUpdate, MeshState
    <3>3. Range(updates') = Range(updates) \cup {Head(mesh.out)}
      BY <1>0, <3>1, <3>2, AppendRange
    <3>4. m \in Range(updates') \/ m \in Range(mesh'.out)
      BY <2>1, <3>1, <3>2, <3>3
    <3>5. m \in Bound'
      BY <1>4, <2>1, <3>2, <3>4 DEF Bound, Passed, Sending
    <3> QED BY <1>1, <3>5 DEF OnTheWay
  <2>4. CASE mesh'.at = mesh.at /\ mesh'.cmd = mesh.cmd /\ mesh'.out = mesh.out
    <3>1. srv' = srv
      <4>1. ~Dispatch /\ ~EndOfStream
        BY <1>4, <2>2 DEF Dispatch, EndOfStream, SenderGone
      <4>2. ~DeadlinePasses
        BY <2>2 DEF DeadlinePasses
      <4> QED BY <4>1, <4>2
         DEF CliNext, DetailNext, CliConnect, CliDecide, Answered, CliTimesOut, RunCommand,
             OtherChanges, CacheFollows, Open, Close, StrayLost, Forward,
             TakeCommand, Login, Fetch, FetchTelemetry, SendUpdate, Logout, Finish,
             KeepDetail, detailVars, asking
    <3>2. m \in Bound'
      BY <1>4, <2>1, <2>4, <3>1 DEF Bound, Sending
    <3> QED BY <1>1, <3>2 DEF OnTheWay
  <2>5. CASE UNCHANGED mesh
    BY <2>4, <2>5
  <2>6. /\ ~TakeCommand({"detail", "telemetry"}) /\ ~FetchTelemetry /\ ~Finish /\ ~Logout
        /\ ~Login /\ ~Fetch
    BY <1>0, <2>1, LoginSteps, FetchSteps
       DEF TakeCommand, FetchTelemetry, Finish, Logout, Typed, MeshShape
  <2> QED BY <2>3, <2>5, <2>6
         DEF CliNext, DetailNext, CliConnect, CliDecide, Answered, CliTimesOut, RunCommand,
             OtherChanges, CacheFollows, Open, Close, StrayLost, Forward, Dispatch, EndOfStream,
             DeadlinePasses, KeepDetail, detailVars
<1> QED BY <1>2, <1>3, <1>4

\* Once older requests are gone they do not come back.
LEMMA OlderGoneStep ==
  ASSUME OrderInv, PopupTyped, Streams, CliNext, popup # None, popup' # None,
         popup'.id = popup.id, OlderGone, \A r \in Repeaters : ~Open(r)
  PROVE  OlderGone'
<1>1. /\ \A q \in Range(toServer) : popup.id <= q.id
      /\ srv # None => popup.id <= srv.id
      /\ \A m \in Range(toClient) : popup.id <= m.id
  BY DEF OlderGone
<1> QED BY <1>1, StreamMoves DEF OlderGone

\* A section that shows its outcome goes on to.
LEMMA SettledStep ==
  ASSUME OrderInv, PopupTyped, Results, Streams, CliNext, popup # None, popup' = popup,
         NEW c \in Category, Settled(c, result[popup.id][c]), OlderGone,
         \A r \in Repeaters : ~Open(r)
  PROVE  (Settled(c, result[popup.id][c]) /\ OlderGone)'
<1>1. PICK id \in 1..last : id = popup.id
  BY PopupFacts
<1>2. result[id][c] # "none"
  BY <1>1 DEF Settled
<1>3. result'[id][c] = result[id][c]
  BY <1>1, <1>2, ResultSteps
<1>4. Settled(c, result[popup.id][c])'
  BY <1>1, <1>3 DEF Settled, Section, Pending, ErrorLine
<1> QED BY <1>4, OlderGoneStep

\* The popup takes an update.
LEMMA ReceiveStep ==
  ASSUME OrderInv, PopupTyped, Results, Streams, Newest, Settling, CliNext, Receive,
         popup # None, popup' # None, popup.id \notin cut, NEW c \in Category,
         \A r \in Repeaters : ~Open(r)
  PROVE  \/ (result[popup.id][c] = "none" /\ Coming)'
         \/ OnTheWay(c)'
         \/ (Settled(c, result[popup.id][c]) /\ OlderGone)'
<1>1. PICK m \in Range(toClient) :
        /\ m = toClient[1] /\ 1 \in DOMAIN toClient
        /\ Range(toClient) = {m} \cup Range(toClient')
        /\ UNCHANGED <<readings, mesh, queue, srv, toServer, updates, last, result, cut>>
        /\ \/ popup' = popup /\ (popup # None /\ m.kind = "category" => popup.on # m.on)
           \/ /\ m \in Update /\ m \in Passed /\ popup # None /\ popup \in Popup
              /\ popup.on = m.on /\ popup' = ApplyCategory(popup, m)
  BY ReceiveFacts
<1>2. popup'.id = popup.id /\ popup'.on = popup.on
  BY <1>1, ApplyFacts
<1>3. CASE result[popup.id][c] = "none" /\ Coming
  <2>1. Coming' /\ result'[popup'.id][c] = "none"
    BY <1>1, <1>2, <1>3 DEF Coming, PopupRequest
  <2> QED BY <2>1
<1>4. ASSUME popup' = ApplyCategory(popup, m), m \in Update, m \in Passed, m.id = popup.id, m.of = c
      PROVE  Settled(c, result[popup.id][c])'
  BY <1>1, <1>4, ApplySettles
<1>5. CASE OnTheWay(c)
  <2>1. PICK w \in Bound : w.id = popup.id /\ w.on = popup.on /\ w.of = c
    BY <1>5 DEF OnTheWay
  <2>2. CASE w \in Bound'
    BY <1>2, <2>1, <2>2 DEF OnTheWay
  <2>3. CASE w \notin Bound'
    <3>1. w = m /\ m.kind = "category"
      BY <1>1, <2>1, <2>3 DEF Bound, Passed, Sending
    <3>2. Settled(c, result[popup.id][c])'
      BY <1>1, <1>4, <2>1, <3>1
    <3>3. OlderGone'
      <4>1. \A i \in DOMAIN toClient : m.id <= toClient[i].id
        <5>1. toClient \in Seq(Update \cup Failure) /\ m.id \in Nat
          BY FlyingFacts DEF OrderInv, Typed, Channels
        <5>2. \A i \in DOMAIN toClient : i = 1 \/ 1 < i
          BY <5>1, LenProperties
        <5> QED BY <1>1, <5>1, <5>2 DEF Streams
      <4>2. \A x \in Range(toClient) : m.id <= x.id
        BY <4>1 DEF Range
      <4>3. /\ \A q \in Range(toServer) : m.id <= q.id
            /\ srv # None => m.id <= srv.id
        <5>1. \A q \in Range(toServer) : q.id \in Nat /\ m.id \in Nat
          BY WaitingFacts, FlyingFacts DEF Asked
        <5> QED BY <5>1 DEF Streams
      <4> QED BY <1>1, <1>2, <2>1, <3>1, <4>2, <4>3 DEF OlderGone
    <3> QED BY <3>2, <3>3
  <2> QED BY <2>2, <2>3
<1>6. CASE Settled(c, result[popup.id][c]) /\ OlderGone
  <2>1. OlderGone'
    BY <1>2, <1>6, OlderGoneStep
  <2>2. m.id = popup.id
    <3>1. m.id <= popup.id /\ popup.id <= m.id /\ popup.id \in Nat /\ m.id \in Nat
      BY <1>6, PopupFacts, FlyingFacts DEF Newest, OlderGone
    <3> QED BY <3>1
  <2>3. CASE popup' = popup
    <3>1. Settled(c, result[popup.id][c])'
      BY <1>1, <1>6, <2>3 DEF Settled, Section, Pending, ErrorLine
    <3> QED BY <2>1, <3>1
  <2>4. CASE /\ m \in Update /\ m \in Passed /\ popup \in Popup
             /\ popup' = ApplyCategory(popup, m)
    <3>1. CASE m.of = c
      BY <1>4, <2>1, <2>2, <2>4, <3>1
    <3>2. CASE m.of # c
      <4>1. popup'.value[c] = popup.value[c] /\ popup'.error[c] = popup.error[c]
        BY <2>4, <3>2, ApplyFacts
      <4>2. Settled(c, result[popup.id][c])'
        BY <1>1, <1>2, <1>6, <4>1 DEF Settled, Section, Pending, ErrorLine
      <4> QED BY <2>1, <4>2
    <3> QED BY <3>1, <3>2
  <2> QED BY <1>1, <2>3, <2>4
<1> QED BY <1>3, <1>5, <1>6 DEF Settling

\* The outcome of each section is still to come, on its way, or shown.
LEMMA SettlingStep ==
  ASSUME OrderInv, PopupTyped, Results, Streams, Newest, Settling, CliNext PROVE Settling'
<1> SUFFICES ASSUME popup' # None, popup'.id \notin cut', NEW c \in Category
             PROVE  \/ (result[popup.id][c] = "none" /\ Coming)'
                    \/ OnTheWay(c)'
                    \/ (Settled(c, result[popup.id][c]) /\ OlderGone)'
  BY DEF Settling
<1>1. CASE \E r \in Repeaters : Open(r)
  <2>1. PICK r \in Repeaters : Open(r)
    BY <1>1
  <2> DEFINE q == [kind |-> "detail", id |-> last + 1, on |-> r]
  <2>2. /\ popup'.on = r /\ popup'.id = last + 1 /\ last' = last + 1
        /\ Range(toServer') = Range(toServer) \cup {q}
    BY <2>1, OpenFacts
  <2>3. result'[popup'.id][c] = "none"
    BY <2>2, ResultSteps DEF Blank
  <2>4. Coming'
    BY <2>2 DEF Coming, PopupRequest
  <2> QED BY <2>3, <2>4
<1>2. CASE Reconnect
  <2>1. popup' = popup /\ cut' = 1..last
    BY <1>2 DEF Reconnect
  <2> QED BY <2>1, PopupFacts
<1>3. cut \subseteq cut' \/ Reconnect
  BY DEF CliNext, DetailNext, CliConnect, CliDecide, Answered, CliTimesOut, RunCommand,
         OtherChanges, CacheFollows, Open, Close, StrayLost, Receive, Forward, DeadlinePasses,
         Dispatch, EndOfStream, TakeCommand, Login, Fetch, FetchTelemetry, SendUpdate, Logout,
         Finish, KeepDetail, detailVars, screen
<1>4. CASE Receive /\ ~(\E r \in Repeaters : Open(r)) /\ ~Reconnect
  <2>1. popup # None /\ popup'.id = popup.id
    <3>1. PICK m : \/ popup' = popup
                   \/ /\ m \in Update /\ popup # None /\ popup \in Popup
                      /\ popup' = ApplyCategory(popup, m)
      BY <1>4, ReceiveFacts
    <3>2. CASE m \in Update /\ popup # None /\ popup \in Popup /\ popup' = ApplyCategory(popup, m)
      BY <3>2, ApplyFacts
    <3> QED BY <3>1, <3>2
  <2>2. popup.id \notin cut
    BY <1>3, <1>4, <2>1
  <2> QED BY <1>4, <2>1, <2>2, ReceiveStep
<1>5. CASE popup' = popup /\ ~Receive /\ ~(\E r \in Repeaters : Open(r)) /\ ~Reconnect
  <2>1. popup # None /\ popup.id \notin cut' /\ popup.id \notin cut
    BY <1>3, <1>5
  <2>2. CASE result[popup.id][c] = "none" /\ Coming
    BY <1>5, <2>1, <2>2, ComingStep
  <2>3. CASE OnTheWay(c)
    BY <1>5, <2>1, <2>3, OnTheWayStep
  <2>4. CASE Settled(c, result[popup.id][c]) /\ OlderGone
    BY <1>5, <2>1, <2>4, SettledStep
  <2> QED BY <2>1, <2>2, <2>3, <2>4 DEF Settling
<1> QED BY <1>1, <1>2, <1>4, <1>5, PopupMoves

LEMMA PopupInit == CliInit => PopupInv
<1> SUFFICES ASSUME CliInit PROVE PopupInv
  OBVIOUS
<1>1. /\ queue = <<>> /\ toServer = <<>> /\ toClient = <<>> /\ updates = <<>> /\ mesh = Idle
      /\ srv = None /\ popup = None /\ last = 0 /\ result = <<>>
      /\ readings = [r \in Repeaters |-> 0]
  BY DEF CliInit, Init
<1>2. Waiting = {} /\ Sending = {} /\ Passed = {} /\ Flying = {} /\ mesh.at = "idle"
  BY <1>1, NoRange DEF Waiting, Sending, Passed, Flying, Idle
<1>3. PopupTyped
  BY <1>1 DEF PopupTyped
<1>4. Results /\ Streams
  BY <1>1, <1>2, NoRange DEF Results, Streams, Answering
<1>5. Newest /\ Settling /\ Readings
  BY <1>1, <1>2 DEF Newest, Settling, Readings
<1> QED BY <1>3, <1>4, <1>5 DEF PopupInv

LEMMA PopupStep ==
  ASSUME OrderInv, PopupInv, CliNext PROVE PopupInv'
BY PopupTypedStep, ResultsStep, StreamsStep, NewestStep, SettlingStep, ReadingsStep DEF PopupInv

LEMMA PopupStutters ==
  ASSUME PopupInv, UNCHANGED vars PROVE PopupInv'
<1>1. UNCHANGED <<queue, toServer, toClient, updates, mesh, srv, popup, last, result, readings, cut>>
  BY DEF vars, detailVars, asking, screen
<1>2. UNCHANGED <<Waiting, Sending, Passed, Flying>>
  BY <1>1 DEF Waiting, Sending, Passed, Flying
<1>3. (PopupTyped /\ Streams /\ Newest)'
  BY <1>1, <1>2 DEF PopupInv, PopupTyped, Streams, Newest, Answering
<1>4. (Results /\ Readings)'
  BY <1>1, <1>2 DEF PopupInv, Results, Truthful, Readings, Read, Old
<1>5. Settling'
  BY <1>1, <1>2 DEF PopupInv, Settling, Coming, PopupRequest, OnTheWay, Bound, Settled, Section,
                    Pending, ErrorLine, OlderGone
<1> QED BY <1>3, <1>4, <1>5 DEF PopupInv

\* At rest neither the request nor an update is on its way, so each section shows
\* what its request came to.
LEMMA PopupAtRest ==
  ASSUME OrderInv, PopupInv PROVE PopupSettles
<1> SUFFICES ASSUME popup # None
             PROVE  /\ popup.value["telemetry"] <= readings[popup.on]
                    /\ AtRest /\ popup.id \notin cut =>
                         \A c \in Category : Settled(c, result[popup.id][c])
  BY DEF PopupSettles
<1>1. popup.value["telemetry"] <= readings[popup.on]
  BY DEF PopupInv, Readings
<1>2. ASSUME AtRest, popup.id \notin cut, NEW c \in Category
      PROVE  Settled(c, result[popup.id][c])
  <2>1. ~Coming
    BY <1>2, PopupFacts, NoRange DEF PopupInv, AtRest, Coming
  <2>2. Bound = {}
    <3>1. Passed = {}
      BY <1>2, NoRange DEF AtRest, Passed
    <3>2. mesh.cmd = srv => Sending = {}
      BY <1>2, RequestFacts DEF AtRest, Sending, OrderInv, Typed, MeshShape
    <3> QED BY <3>1, <3>2 DEF Bound
  <2> QED BY <1>2, <2>1, <2>2 DEF PopupInv, Settling, OnTheWay
<1> QED BY <1>1, <1>2

\* Once nothing is on its way every section of an open popup shows what its own
\* request came to, and its telemetry is never newer than the snapshot's (server.rs
\* dispatch_repeater_detail, mesh.rs apply_category, mesh_task.rs
\* finalize_telemetry_success).
THEOREM ThePopupSettles == Spec => []PopupSettles
<1>1. CliInit => OrderInv /\ PopupInv
  BY OrderInit, PopupInit
<1>2. OrderInv /\ PopupInv /\ [CliNext]_vars => OrderInv' /\ PopupInv'
  BY OrderStep, PopupStep, OrderStutters, PopupStutters
<1>3. OrderInv /\ PopupInv => PopupSettles
  BY PopupAtRest
<1> QED BY <1>1, <1>2, <1>3, PTL DEF Spec
=============================================================================
