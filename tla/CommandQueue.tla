--------------------------- MODULE CommandQueue ---------------------------
(***************************************************************************)
(* The command channel of the daemon: tasks that do not hold the MeshCore  *)
(* connection (IPC client handlers, MQTT broker tasks, the reload watcher) *)
(* send a DaemonCommand over a bounded mpsc channel to the mesh task, the  *)
(* only one that does, and wait for a oneshot reply.  The mesh task polls  *)
(* the channel only while the node is connected.                           *)
(*                                                                         *)
(* What a command does to the node is left to other modules; here it takes *)
(* effect with an outcome.  effect and told are history variables.         *)
(***************************************************************************)
EXTENDS Naturals, Sequences, FiniteSets

CONSTANTS Clients,      \* IPC client handlers: server.rs, handle_client
          Brokers,      \* MQTT broker tasks: mqtt.rs, run_broker
          Reloader,     \* the SIGHUP watcher: reload.rs, watch
          Capacity,     \* slots of the channel (8 in main.rs)
          MaxRequests,  \* bound: requests each task makes
          NoCommand     \* the mesh task executes nothing

Requesters == Clients \cup Brokers \cup {Reloader}

\* The DaemonCommand variants, by how their sender waits: "ipc" stands for the
\* four commands of dispatch_command.
Kind == {"ipc", "stats", "sign", "resync"}

Command == [from : Requesters, seq : 1..MaxRequests, kind : Kind]

ASSUME QueueAssumption ==
  /\ Capacity \in Nat \ {0}
  /\ MaxRequests \in Nat
  /\ Clients \cap Brokers = {}
  /\ Reloader \notin Clients \cup Brokers
  /\ NoCommand \notin [from : Requesters, seq : 1..MaxRequests, kind : Kind]

VARIABLES queue,        \* the channel
          mesh,         \* "serving": inside the event loop; "away": connecting or sleeping
          running,      \* the command the mesh task is executing
          phase,        \* phase[r]: "idle", "sending" (blocked on send), "waiting" (for the reply)
          asking,       \* asking[r]: kind of the last request of r
          reply,        \* reply[r]: content of the oneshot r waits on
          issued, effect, told

taskVars    == <<phase, asking, reply>>
history     == <<issued, effect, told>>
vars        == <<queue, mesh, running, phase, asking, reply, issued, effect, told>>

KindsOf(r) ==
  IF r \in Clients THEN {"ipc"}
  ELSE IF r \in Brokers THEN {"stats", "sign"}
  ELSE {"resync"}

\* RefreshNodeStats and ResyncObserverConfig report no failure.
Results(kind) == IF kind \in {"ipc", "sign"} THEN {"ok", "err"} ELSE {"ok"}

Current(r) == [from |-> r, seq |-> issued[r], kind |-> asking[r]]

Init ==
  /\ queue = <<>>
  /\ mesh = "away"
  /\ running = NoCommand
  /\ phase  = [r \in Requesters |-> "idle"]
  /\ asking = [r \in Requesters |-> CHOOSE k \in KindsOf(r) : TRUE]
  /\ reply  = [r \in Requesters |-> "none"]
  /\ issued = [r \in Requesters |-> 0]
  /\ effect = [r \in Requesters |-> [n \in 1..MaxRequests |-> "none"]]
  /\ told   = [r \in Requesters |-> [n \in 1..MaxRequests |-> "none"]]

-----------------------------------------------------------------------------
(* Faulty variants, one for each way the properties below could be lost.   *)

\* send() on an unbounded channel.
EnqueueUnbounded(r) ==
  /\ phase[r] = "sending"
  /\ queue' = Append(queue, Current(r))
  /\ phase' = [phase EXCEPT ![r] = IF asking[r] = "resync" THEN "idle" ELSE "waiting"]
  /\ told'  = IF asking[r] = "resync"
              THEN [told EXCEPT ![r][issued[r]] = "sent"] ELSE told
  /\ UNCHANGED <<mesh, running, asking, reply, issued, effect>>

\* A command is only picked up when another one follows it.
TakeLate ==
  /\ mesh = "serving" /\ running = NoCommand
  /\ Len(queue) > 1
  /\ running' = Head(queue)
  /\ queue' = Tail(queue)
  /\ UNCHANGED <<mesh, phase, asking, reply, issued, effect, told>>

\* The reply goes to whatever request the task is waiting on by then.
FinishUncorrelated ==
  /\ running # NoCommand
  /\ \E res \in Results(running.kind) :
       /\ effect' = [effect EXCEPT ![running.from][running.seq] = res]
       /\ reply' = IF phase[running.from] = "waiting"
                   THEN [reply EXCEPT ![running.from] = res] ELSE reply
  /\ running' = NoCommand
  /\ UNCHANGED <<queue, mesh, phase, asking, issued, told>>

\* The channel is emptied when the node goes away.
LoseLinkDrain ==
  /\ mesh = "serving" /\ running = NoCommand
  /\ mesh' = "away"
  /\ queue' = <<>>
  /\ UNCHANGED <<running, phase, asking, reply, issued, effect, told>>

-----------------------------------------------------------------------------
(* The tasks.                                                              *)

\* A task builds a command and calls command_tx.send.
Submit(r) ==
  /\ phase[r] = "idle"
  /\ issued[r] < MaxRequests
  /\ \E k \in KindsOf(r) : asking' = [asking EXCEPT ![r] = k]
  /\ issued' = [issued EXCEPT ![r] = @ + 1]
  /\ phase' = [phase EXCEPT ![r] = "sending"]
  /\ UNCHANGED <<queue, mesh, running, reply, effect, told>>

\* The send completes once a slot is free: no timer covers it.  The reload
\* watcher wants no reply and goes on at once.
Enqueue(r) ==
  /\ phase[r] = "sending"
  /\ Len(queue) < Capacity
  /\ queue' = Append(queue, Current(r))
  /\ phase' = [phase EXCEPT ![r] = IF asking[r] = "resync" THEN "idle" ELSE "waiting"]
  /\ told'  = IF asking[r] = "resync"
              THEN [told EXCEPT ![r][issued[r]] = "sent"] ELSE told
  /\ UNCHANGED <<mesh, running, asking, reply, issued, effect>>

\* tokio::time::timeout polls the reply before its timer, so a reply that has
\* arrived wins.
Deliver(r) ==
  /\ phase[r] = "waiting" /\ reply[r] # "none"
  /\ told' = [told EXCEPT ![r][issued[r]] = reply[r]]
  /\ reply' = [reply EXCEPT ![r] = "none"]
  /\ phase' = [phase EXCEPT ![r] = "idle"]
  /\ UNCHANGED <<queue, mesh, running, asking, issued, effect>>

TimeOut(r) ==
  /\ phase[r] = "waiting" /\ reply[r] = "none"
  /\ told' = [told EXCEPT ![r][issued[r]] = "timeout"]
  /\ phase' = [phase EXCEPT ![r] = "idle"]
  /\ UNCHANGED <<queue, mesh, running, asking, reply, issued, effect>>

-----------------------------------------------------------------------------
(* The mesh task.                                                          *)

\* MeshClient::connect succeeds and the event loop starts.
Connect ==
  /\ mesh = "away"
  /\ mesh' = "serving"
  /\ UNCHANGED <<queue, running, phase, asking, reply, issued, effect, told>>

\* Disconnected, or the end of the event stream, is noticed between commands.
\* What is queued stays queued for the next connection.
LoseLink ==
  /\ mesh = "serving" /\ running = NoCommand
  /\ mesh' = "away"
  /\ UNCHANGED <<queue, running, phase, asking, reply, issued, effect, told>>

TakeCommand ==
  /\ mesh = "serving" /\ running = NoCommand
  /\ queue # <<>>
  /\ running' = Head(queue)
  /\ queue' = Tail(queue)
  /\ UNCHANGED <<mesh, phase, asking, reply, issued, effect, told>>

\* handle_command returns.  The oneshot of a task that gave up is closed: its
\* reply is dropped, the effect is not.
FinishCommand ==
  /\ running # NoCommand
  /\ LET r == running.from
         awaited == phase[r] = "waiting" /\ running.seq = issued[r]
     IN \E res \in Results(running.kind) :
          /\ effect' = [effect EXCEPT ![r][running.seq] = res]
          /\ reply' = IF awaited THEN [reply EXCEPT ![r] = res] ELSE reply
  /\ running' = NoCommand
  /\ UNCHANGED <<queue, mesh, phase, asking, issued, told>>

TaskStep(r) == Submit(r) \/ Enqueue(r) \/ Deliver(r) \/ TimeOut(r)

MeshStep == Connect \/ LoseLink \/ TakeCommand \/ FinishCommand

Next == MeshStep \/ \E r \in Requesters : TaskStep(r)

Spec == Init /\ [][Next]_vars

\* Timers expire, scheduled tasks run, and a command ends because every call
\* it makes to the node has a timeout of its own.  Channel permits are handed
\* out first come first served, and select! picks a ready branch at random,
\* hence strong fairness of Enqueue and TakeCommand.  Nothing makes clients
\* ask, the link break, or the node come back.
Fairness ==
  /\ SF_vars(TakeCommand)
  /\ WF_vars(FinishCommand)
  /\ \A r \in Requesters : SF_vars(Enqueue(r)) /\ WF_vars(Deliver(r)) /\ WF_vars(TimeOut(r))

FairSpec == Spec /\ Fairness

-----------------------------------------------------------------------------
(* Properties.                                                             *)

Elements(s) == {s[i] : i \in 1..Len(s)}

\* Commands accepted by the channel that have not taken effect.
Pending == Elements(queue) \cup ({running} \ {NoCommand})

\* Every variable has its type and the channel never exceeds its capacity.
TypeOK ==
  /\ queue \in Seq(Command) /\ Len(queue) <= Capacity
  /\ mesh \in {"away", "serving"}
  /\ running \in Command \cup {NoCommand}
  /\ phase \in [Requesters -> {"idle", "sending", "waiting"}]
  /\ asking \in [Requesters -> Kind]
  /\ reply \in [Requesters -> {"none", "ok", "err"}]
  /\ issued \in [Requesters -> 0..MaxRequests]
  /\ effect \in [Requesters -> [1..MaxRequests -> {"none", "ok", "err"}]]
  /\ told \in [Requesters -> [1..MaxRequests -> {"none", "ok", "err", "timeout", "sent"}]]

\* A command the channel accepted is never lost: until it takes effect it is
\* queued or being executed, whatever disconnections happen meanwhile and
\* whether or not its sender still waits.
NothingLost ==
  \A r \in Requesters : \A n \in 1..issued[r] :
    effect[r][n] = "none" =>
      \/ n = issued[r] /\ phase[r] = "sending"
      \/ \E c \in Pending : c.from = r /\ c.seq = n

\* The commands of one task take effect in the order it sent them, the ones
\* it was told had timed out included: a retry never overtakes the original.
InOrder ==
  \A r \in Requesters : \A n \in 1..MaxRequests :
    effect[r][n] # "none" => \A m \in 1..(n - 1) : effect[r][m] # "none"

\* What a task is told is what happened to that very request, not to an
\* earlier one that it gave up on and whose reply came late.
Truthful ==
  \A r \in Requesters : \A n \in 1..MaxRequests :
    told[r][n] \in {"ok", "err"} => told[r][n] = effect[r][n]

\* The channel keeps the promise of CommandService: at most one effect and at
\* most one answer per request, the answer of the request itself.
Service == INSTANCE CommandService WITH Requesters <- Requesters, MaxRequests <- MaxRequests
ServiceSpec == Service!Spec

\* If the node keeps coming back, every task that wants to send gets through
\* and every command it sends takes effect.
ServedWhenNodeReturns ==
  []<>(mesh = "serving") =>
    \A r \in Requesters :
      /\ (phase[r] = "sending") ~> (phase[r] = "idle")
      /\ \A n \in 1..MaxRequests : (issued[r] >= n) ~> (effect[r][n] # "none")

\* server.rs on COMMAND_TIMEOUT: a client waits that long "before giving up
\* (e.g. the mesh connection task is stuck reconnecting)".
ClientGivesUp ==
  \A r \in Clients : (phase[r] = "sending") ~> (phase[r] = "idle")
=============================================================================
