--------------------------- MODULE RepeaterDetail ---------------------------
(***************************************************************************)
(* Asking a repeater over the mesh.  The mesh task logs in, makes the      *)
(* requests one after the other and logs out (mesh_task.rs                 *)
(* request_repeater_detail, request_telemetry); the categories of a detail *)
(* request stream through a channel of their own to the client's handler   *)
(* (server.rs dispatch_repeater_detail), over the socket and into the      *)
(* popup of the terminal UI, which may have been closed or reopened since. *)
(* One terminal UI; RepeaterCli adds the commands of the command line.     *)
(***************************************************************************)
EXTENDS Integers, Sequences, FiniteSets, SequencesExt

CONSTANTS Repeaters,
          Registered,  \* contacts of the node when the run begins
          Passwords,   \* repeaters whose entry has a password
          UpdateSlots, \* capacity of the channel of categories (4, one for each)
          SocketSlots, \* messages the socket holds, each way
          MaxRequests, \* bound: requests made
          None         \* an Option that is None

Categories == <<"status", "telemetry", "neighbours", "regions">>
Category == ToSet(Categories)

\* What the command channel carries.
Request == [kind : {"detail", "telemetry", "command"}, id : Nat, on : Repeaters]

ASSUME DetailAssumption ==
  /\ Registered \cup Passwords \subseteq Repeaters
  /\ UpdateSlots \in Nat /\ UpdateSlots >= 4
  /\ SocketSlots \in Nat \ {0} /\ MaxRequests \in Nat
  /\ None \notin Request

VARIABLES
  cached,    \* contacts the client library has cached
  sessions,  \* repeaters that hold a login of ours
  strays,    \* login answers still on their way when nobody waited any more
  readings,  \* AppState.telemetry, as the snapshot shows it: request of the newest
  queue,     \* the command channel
  mesh,      \* the mesh task: where it is, for which command, what it has to send
  updates,   \* the channel of categories of the request being streamed
  reply,     \* the oneshot of a command line's telemetry request
  srv,       \* the handler of the UI: the request it streams, or None
  toServer, toClient,  \* the UI's socket
  popup,     \* App.repeater_detail
  last,      \* requests made so far
  result,    \* history: what each category of a request came to
  cut,       \* history: requests whose stream ended early
  kept       \* history: repeaters that may keep a session

asking == <<queue, srv, toServer, toClient, updates>>
air    == <<cached, sessions, strays, kept>>
screen == <<popup, last, result, cut>>
detailVars == <<air, readings, mesh, reply, asking, screen>>

Idle == [at |-> "idle", cmd |-> None, loggedIn |-> FALSE, out |-> <<>>]
Blank(v) == [c \in Category |-> v]

Init ==
  /\ cached = Registered /\ sessions = {} /\ strays = {} /\ kept = {}
  /\ readings = [r \in Repeaters |-> 0]
  /\ queue = <<>> /\ mesh = Idle /\ updates = <<>> /\ reply = None
  /\ srv = None /\ toServer = <<>> /\ toClient = <<>>
  /\ popup = None /\ last = 0 /\ result = <<>> /\ cut = {}

-----------------------------------------------------------------------------
(* The popup.                                                              *)

\* RepeaterDetailDto: a value per category, and the first error of each, which
\* is the one shown.  Values and errors are named by their request.
Fresh(r) == [on |-> r, id |-> last + 1, value |-> Blank(0), error |-> Blank(0)]

\* error_line_for and category_pending
ErrorLine(c) == popup.error[c]
Pending(c) == popup.value[c] = 0 /\ ErrorLine(c) = 0

\* draw_repeater_detail_popup: the sections do not wait for each other.
Section(c) ==
  [shows |-> CASE popup.value[c] # 0 -> "value"
               [] Pending(c) -> "fetching"
               [] popup.value[c] = 0 /\ ~Pending(c) -> "error",
   of |-> IF popup.value[c] # 0 THEN popup.value[c] ELSE ErrorLine(c)]

\* open_repeater_detail_pending, and the request it sends.
Open(r) ==
  /\ last < MaxRequests /\ Len(toServer) < SocketSlots
  /\ popup' = Fresh(r)
  /\ last' = last + 1
  /\ result' = Append(result, Blank("none"))
  /\ toServer' = Append(toServer, [kind |-> "detail", id |-> last + 1, on |-> r])
  /\ UNCHANGED <<air, readings, mesh, reply, queue, srv, toClient, updates, cut>>

Close ==
  /\ popup # None
  /\ popup' = None
  /\ UNCHANGED <<air, readings, mesh, reply, asking, last, result, cut>>

\* A later value does not replace the one that is there.
FoldKeepingFirst(p, m) ==
  IF m.ok THEN IF p.value[m.of] = 0 THEN [p EXCEPT !.value[m.of] = m.id] ELSE p
  ELSE IF p.error[m.of] = 0 THEN [p EXCEPT !.error[m.of] = m.id] ELSE p

\* apply_category
ApplyCategory(p, m) ==
  IF m.ok THEN [p EXCEPT !.value[m.of] = m.id]
  ELSE IF p.error[m.of] = 0 THEN [p EXCEPT !.error[m.of] = m.id] ELSE p

\* The popup takes what is for its repeater, whichever request it answers.  An
\* error of the handler only goes to the status line.
Receive ==
  /\ toClient # <<>>
  /\ LET m == Head(toClient)
     IN popup' = IF m.kind = "category" /\ popup # None /\ popup.on = m.on
                 THEN ApplyCategory(popup, m) ELSE popup
  /\ toClient' = Tail(toClient)
  /\ UNCHANGED <<air, readings, mesh, reply, queue, srv, toServer, updates, last, result, cut>>

-----------------------------------------------------------------------------
(* The handler.                                                            *)

Dispatch ==
  /\ srv = None /\ toServer # <<>>
  /\ srv' = Head(toServer) /\ queue' = Append(queue, Head(toServer))
  /\ toServer' = Tail(toServer)
  /\ UNCHANGED <<air, readings, mesh, reply, toClient, updates, screen>>

Forward ==
  /\ updates # <<>> /\ Len(toClient) < SocketSlots
  /\ toClient' = Append(toClient, Head(updates))
  /\ updates' = Tail(updates)
  /\ UNCHANGED <<air, readings, mesh, reply, queue, srv, toServer, screen>>

\* The sender is dropped when the mesh task is through with the request.
SenderGone == mesh.cmd # srv /\ \A i \in DOMAIN queue : queue[i] # srv

EndOfStream ==
  /\ srv # None /\ updates = <<>> /\ SenderGone
  /\ srv' = None
  /\ UNCHANGED <<air, readings, mesh, reply, queue, toServer, toClient, updates, screen>>

\* REPEATER_DETAIL_COMMAND_TIMEOUT: with nothing to forward, the handler gives up.
DeadlinePasses ==
  /\ srv # None /\ updates = <<>> /\ ~SenderGone /\ Len(toClient) < SocketSlots
  /\ toClient' = Append(toClient, [kind |-> "error", id |-> srv.id])
  /\ cut' = cut \cup {srv.id}
  /\ srv' = None
  /\ UNCHANGED <<air, readings, mesh, reply, queue, toServer, updates, popup, last, result>>

\* The connection is lost and made again; the popup stays.
Reconnect ==
  /\ toServer' = <<>> /\ toClient' = <<>> /\ updates' = <<>> /\ srv' = None
  /\ cut' = 1..last
  /\ UNCHANGED <<air, readings, mesh, reply, queue, popup, last, result>>

-----------------------------------------------------------------------------
(* The mesh task.                                                          *)

Message(cmd, c, ok) ==
  [kind |-> "category", id |-> cmd.id, on |-> cmd.on, of |-> c, ok |-> ok]

\* The same outcome for every category.
AllFail(cmd) == [i \in 1..4 |-> Message(cmd, Categories[i], FALSE)]

\* is_registered_contact, resolve_contact: both look in the library's cache.
Resolves(r) == r \in cached

\* request_telemetry, request_status, request_neighbours: an answer in time, or an
\* error.
Answers(r) == IF Resolves(r) THEN {TRUE, FALSE} ELSE {FALSE}

\* request_region_hierarchy: any text of the repeater passes for the reply.
RegionAnswers(r) == IF Resolves(r) THEN {TRUE, FALSE} ELSE {FALSE}

\* finalize_telemetry_success
Finalize(r, id) == readings' = [readings EXCEPT ![r] = id]

Go(place) == mesh' = [mesh EXCEPT !.at = place]
Refuse == mesh' = [mesh EXCEPT !.at = "done", !.out = AllFail(mesh.cmd)]

Note(id, c, ok) == result' = [result EXCEPT ![id][c] = IF ok THEN "ok" ELSE "failed"]
NoteAll(id) == result' = [result EXCEPT ![id] = Blank("failed")]

\* handle_command.  A node that is no contact cannot be asked; only the
\* telemetry command finds that out from its first call.
TakeCommand(kinds) ==
  /\ mesh.at = "idle" /\ queue # <<>> /\ Head(queue).kind \in kinds
  /\ LET cmd == Head(queue)
     IN IF cmd.kind = "detail" /\ ~Resolves(cmd.on)
        THEN /\ mesh' = [Idle EXCEPT !.at = "done", !.cmd = cmd, !.out = AllFail(cmd)]
             /\ NoteAll(cmd.id)
        ELSE /\ mesh' = [Idle EXCEPT !.at = IF cmd.kind = "telemetry" /\ cmd.on \notin Passwords
                                            THEN "telemetry" ELSE "login", !.cmd = cmd]
             /\ UNCHANGED result
  /\ queue' = Tail(queue)
  /\ UNCHANGED <<air, readings, reply, srv, toServer, toClient, updates, popup, last, cut>>

LoggedIn == mesh' = [mesh EXCEPT !.loggedIn = TRUE,
                                 !.at = IF mesh.cmd.kind = "detail" THEN "status" ELSE "telemetry"]
            /\ UNCHANGED <<result, reply>>

\* With a password a failure ends the command; the guest login is best effort.
LoginFailed ==
  IF mesh.cmd.on \notin Passwords
  THEN Go("status") /\ UNCHANGED <<result, reply>>
  ELSE IF mesh.cmd.kind = "detail"
  THEN Refuse /\ NoteAll(mesh.cmd.id) /\ UNCHANGED reply
  ELSE Go("done") /\ reply' = [id |-> mesh.cmd.id, ok |-> FALSE] /\ UNCHANGED result

\* MeshClient::login: the repeater may let us in, refuse, or not hear us; its
\* answer may come while we wait, or after we gave up.  The wait is for any
\* repeater's answer, so one that comes late passes for the next one's.
Login ==
  /\ mesh.at = "login"
  /\ LET r == mesh.cmd.on
     IN \/ /\ Resolves(r) /\ sessions' = sessions \cup {r}
           /\ LoggedIn /\ UNCHANGED <<strays, kept>>
        \/ /\ Resolves(r) /\ sessions' = sessions \cup {r} /\ strays' = strays \cup {r}
           /\ kept' = kept \cup {r}
           /\ LoginFailed
        \/ LoginFailed /\ UNCHANGED <<sessions, strays, kept>>
        \/ \E other \in strays :
             /\ Resolves(r) /\ LoggedIn /\ UNCHANGED kept
             /\ \/ strays' = strays \ {other} /\ UNCHANGED sessions
                \/ strays' = (strays \ {other}) \cup {r} /\ sessions' = sessions \cup {r}
  /\ UNCHANGED <<cached, readings, asking, popup, last, cut>>

After == [status |-> "telemetry", telemetry |-> "neighbours",
          neighbours |-> "regions", regions |-> "logout"]

\* Each request is announced before its outcome.
FetchAnnounced ==
  /\ mesh.at \in Category /\ mesh.cmd.kind = "detail" /\ mesh.out = <<>>
  /\ \E ok \in IF mesh.at = "regions" THEN RegionAnswers(mesh.cmd.on) ELSE Answers(mesh.cmd.on) :
       /\ mesh' = [mesh EXCEPT !.at = After[@],
                          !.out = <<Message(mesh.cmd, mesh.at, ok), Message(mesh.cmd, mesh.at, ok)>>]
       /\ Note(mesh.cmd.id, mesh.at, ok)
       /\ IF ok /\ mesh.at = "telemetry" THEN Finalize(mesh.cmd.on, mesh.cmd.id)
          ELSE UNCHANGED readings
  /\ UNCHANGED <<air, reply, asking, popup, last, cut>>

\* One request of the four: its answer, or the error of a timeout.
Fetch ==
  /\ mesh.at \in Category /\ mesh.cmd.kind = "detail" /\ mesh.out = <<>>
  /\ \E ok \in IF mesh.at = "regions" THEN RegionAnswers(mesh.cmd.on) ELSE Answers(mesh.cmd.on) :
       /\ mesh' = [mesh EXCEPT !.at = After[@], !.out = <<Message(mesh.cmd, mesh.at, ok)>>]
       /\ Note(mesh.cmd.id, mesh.at, ok)
       /\ IF ok /\ mesh.at = "telemetry" THEN Finalize(mesh.cmd.on, mesh.cmd.id)
          ELSE UNCHANGED readings
  /\ UNCHANGED <<air, reply, asking, popup, last, cut>>

\* request_telemetry: the session ends before the result is used.
FetchTelemetry ==
  /\ mesh.at = "telemetry" /\ mesh.cmd.kind = "telemetry"
  /\ \E ok \in Answers(mesh.cmd.on) :
          mesh' = [mesh EXCEPT !.at = "logout",
                   !.out = <<[id |-> mesh.cmd.id, ok |-> ok]>>]
  /\ UNCHANGED <<air, readings, reply, asking, screen>>

\* An update goes into the channel, or nowhere when its receiver is gone.
SendUpdate ==
  /\ mesh.out # <<>> /\ mesh.cmd.kind = "detail"
  /\ IF mesh.cmd = srv
     THEN Len(updates) < UpdateSlots /\ updates' = Append(updates, Head(mesh.out))
     ELSE UNCHANGED updates
  /\ mesh' = [mesh EXCEPT !.out = Tail(@)]
  /\ UNCHANGED <<air, readings, reply, queue, srv, toServer, toClient, screen>>

\* A request made as a guest is not followed by a logout.
NoLogoutForGuests == IF mesh.loggedIn /\ mesh.cmd.on \in Passwords THEN "do" ELSE "skip"

\* logout is for those whose login succeeded.
Leaving == IF mesh.loggedIn THEN "do" ELSE "skip"

\* Best effort: a logout may not arrive.
Logout ==
  /\ mesh.at = "logout"
  /\ mesh.cmd.kind = "detail" => mesh.out = <<>>
  /\ Go("done")
  /\ \/ /\ Leaving = "do"
        /\ sessions' = sessions \ {mesh.cmd.on} /\ kept' = kept \ {mesh.cmd.on}
     \/ Leaving = "do" /\ kept' = kept \cup {mesh.cmd.on} /\ UNCHANGED sessions
     \/ Leaving = "skip" /\ UNCHANGED <<sessions, kept>>
  /\ UNCHANGED <<cached, strays, readings, reply, asking, screen>>

\* The command is over: its sender is dropped, or its reply sent.
Finish ==
  /\ mesh.at = "done"
  /\ mesh.cmd.kind = "detail" => mesh.out = <<>>
  /\ mesh' = Idle
  /\ IF mesh.cmd.kind = "telemetry" /\ mesh.out # <<>>
     THEN LET m == Head(mesh.out)
          IN /\ reply' = m
             /\ IF m.ok THEN Finalize(mesh.cmd.on, m.id) ELSE UNCHANGED readings
     ELSE UNCHANGED <<reply, readings>>
  /\ UNCHANGED <<air, asking, screen>>

\* An answer that nobody waits for any more is dropped by the library, unless
\* the next login gets it.
StrayLost ==
  /\ strays # {} /\ strays' = {}
  /\ UNCHANGED <<cached, sessions, kept, readings, mesh, reply, asking, screen>>

DetailNext ==
  \/ \E r \in Repeaters : Open(r)
  \/ Close \/ Receive
  \/ Dispatch \/ Forward \/ EndOfStream \/ DeadlinePasses \/ Reconnect
  \/ TakeCommand({"detail", "telemetry"}) \/ Login \/ Fetch \/ FetchTelemetry
  \/ SendUpdate \/ Logout \/ Finish \/ StrayLost
=============================================================================
