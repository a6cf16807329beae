--------------------------- MODULE BrokerReload ---------------------------
(***************************************************************************)
(* Which MQTT broker tasks run.  main starts one for each configured       *)
(* broker; on SIGHUP the reload watcher (reload.rs) reads the file again   *)
(* and stops, starts or restarts what changed, aborting tasks through the  *)
(* handles it keeps by broker name.  An aborted task ends at its next      *)
(* await, so it may still write the status it was about to write.          *)
(*                                                                         *)
(* A configuration is its broker list, as a function from names: what a    *)
(* name given twice would do is not modelled.                              *)
(***************************************************************************)
EXTENDS Naturals, FiniteSets

CONSTANTS Names, Settings,   \* of brokers
          Absent,            \* the name is not configured
          Malformed,         \* a file that does not parse
          MaxTasks,          \* bound: tasks ever spawned
          MaxWrites          \* bound: times the file is written

Config == [Names -> Settings \cup {Absent}]

ASSUME ReloadAssumption ==
  /\ Absent \notin Names \cup Settings
  /\ Malformed \notin Config
  /\ MaxTasks \in Nat /\ MaxWrites \in Nat

Task == 1..MaxTasks
NoTask == 0
Unspawned == <<Absent, Absent>>

VARIABLES
  file,      \* config.toml
  config,    \* state.config
  signal,    \* SIGHUPs not yet received: they coalesce
  reload,    \* the watcher: "idle", "read", "apply", "summary"
  loaded,    \* the new configuration it holds
  removed, restarted,   \* what is left of its ConfigDiff
  spawned,   \* number of tasks spawned so far
  phase,     \* of a task: "none", "running", "returned", "aborted", "dropped"
  broker,    \* the name and the settings it was given
  tasks,     \* state.mqtt_broker_tasks
  status,    \* state.mqtt_broker_status: the task that wrote the entry
  writes,
  since,     \* history: what the file has held since the last SIGHUP
  late       \* history: a task wrote its status after it was aborted

watcher == <<reload, loaded, removed, restarted>>
running == <<spawned, phase, broker, tasks, status, late>>
disk    == <<file, signal, writes, since>>
vars    == <<watcher, config, running, disk>>

Configured(c) == {n \in Names : c[n] # Absent}

-----------------------------------------------------------------------------
(* Faulty variants.                                                        *)

\* Only the presence of a broker is compared.
ChangedIgnored(old, new) == {}

\* A SIGHUP during a reload is swallowed.
SummaryDrains ==
  /\ reload = "summary"
  /\ reload' = "idle" /\ signal' = FALSE
  /\ UNCHANGED <<loaded, removed, restarted, config, running, file, writes, since>>

\* The status of a removed broker stays in the map.
RemoveKeepingStatus ==
  /\ reload = "apply"
  /\ \E n \in removed :
       /\ removed' = removed \ {n}
       /\ phase' = [t \in Task |-> IF t = tasks[n] /\ phase[t] = "running"
                                   THEN "aborted" ELSE phase[t]]
       /\ tasks' = [tasks EXCEPT ![n] = NoTask]
  /\ UNCHANGED <<reload, loaded, restarted, config, spawned, broker, status, late, disk>>

\* The handle of the new task is not stored when there was one already.
StoreFirst(n) == [tasks EXCEPT ![n] = IF @ = NoTask THEN spawned + 1 ELSE @]

-----------------------------------------------------------------------------
(* diff_config.                                                            *)

Added(old, new)   == Configured(new) \ Configured(old)
Removed(old, new) == Configured(old) \ Configured(new)
Changed(old, new) == {n \in Configured(old) \cap Configured(new) : old[n] # new[n]}

-----------------------------------------------------------------------------

\* main has started a task for each configured broker: tasks 1..k, in some order.
Init ==
  /\ file \in Config /\ config = file
  /\ signal = FALSE /\ writes = 0 /\ since = {file}
  /\ reload = "idle" /\ loaded = file /\ removed = {} /\ restarted = {}
  /\ spawned \in 0..MaxTasks /\ spawned = Cardinality(Configured(file))
  /\ tasks \in [Names -> {NoTask} \cup 1..spawned]
  /\ \A n \in Names : tasks[n] = NoTask <=> n \notin Configured(file)
  /\ \A t \in 1..spawned : \E n \in Configured(file) : tasks[n] = t
  /\ phase = [t \in Task |-> IF t <= spawned THEN "running" ELSE "none"]
  /\ broker \in [Task -> (Names \X Settings) \cup {Unspawned}]
  /\ \A n \in Configured(file) : broker[tasks[n]] = <<n, file[n]>>
  /\ \A t \in Task : t > spawned => broker[t] = Unspawned
  /\ status = [n \in Names |-> NoTask]
  /\ late = FALSE

\* The user writes the file, well or badly, or the mesh task saves the
\* configuration it has in memory.
WriteFile(c) ==
  /\ writes < MaxWrites /\ writes' = writes + 1
  /\ file' = c
  /\ since' = since \cup {c}
  /\ UNCHANGED <<watcher, config, running, signal>>

Edit == \E c \in Config \cup {Malformed} : c # file /\ WriteFile(c)
Save == config # file /\ WriteFile(config)

Hangup ==
  /\ signal' = TRUE
  /\ since' = {file}
  /\ UNCHANGED <<watcher, config, running, file, writes>>

\* hangup.recv, then Config::load_from.  A file that does not load ends the reload.
Receive ==
  /\ reload = "idle" /\ signal
  /\ signal' = FALSE
  /\ IF file = Malformed
     THEN UNCHANGED <<reload, loaded>>
     ELSE reload' = "read" /\ loaded' = file
  /\ UNCHANGED <<removed, restarted, config, running, file, writes, since>>

\* The difference with what is in memory by now, and the swap.
Apply ==
  /\ reload = "read"
  /\ reload' = "apply"
  /\ removed' = Removed(config, loaded)
  /\ restarted' = Changed(config, loaded) \cup Added(config, loaded)
  /\ config' = loaded
  /\ UNCHANGED <<loaded, running, disk>>

\* A removed broker: its task is aborted, its status forgotten.
Remove ==
  /\ reload = "apply"
  /\ \E n \in removed :
       /\ removed' = removed \ {n}
       /\ phase' = [t \in Task |-> IF t = tasks[n] /\ phase[t] = "running"
                                   THEN "aborted" ELSE phase[t]]
       /\ tasks' = [tasks EXCEPT ![n] = NoTask]
       /\ status' = [status EXCEPT ![n] = NoTask]
  /\ UNCHANGED <<reload, loaded, restarted, config, spawned, broker, late, disk>>

Store(n) == [tasks EXCEPT ![n] = spawned + 1]

\* A changed or added broker: the old task, if any, is aborted, a new one spawned.
Restart ==
  /\ reload = "apply" /\ removed = {}
  /\ spawned < MaxTasks
  /\ \E n \in restarted :
       /\ restarted' = restarted \ {n}
       /\ phase' = [t \in Task |-> IF t = spawned + 1 THEN "running"
                                   ELSE IF t = tasks[n] /\ phase[t] = "running"
                                   THEN "aborted" ELSE phase[t]]
       /\ spawned' = spawned + 1
       /\ broker' = [broker EXCEPT ![spawned + 1] = <<n, loaded[n]>>]
       /\ tasks' = Store(n)
  /\ UNCHANGED <<reload, loaded, removed, config, status, late, disk>>

\* ResyncObserverConfig is sent (CommandQueue) ...
Applied ==
  /\ reload = "apply" /\ removed = {} /\ restarted = {}
  /\ reload' = "summary"
  /\ UNCHANGED <<loaded, removed, restarted, config, running, disk>>

\* ... and ConfigReloaded broadcast.
Summary ==
  /\ reload = "summary"
  /\ reload' = "idle"
  /\ UNCHANGED <<loaded, removed, restarted, config, running, disk>>

\* set_mqtt_broker_status.
WriteStatus(t) ==
  /\ phase[t] \in {"running", "aborted"}
  /\ status' = [status EXCEPT ![broker[t][1]] = t]
  /\ late' = (late \/ phase[t] = "aborted")
  /\ UNCHANGED <<watcher, config, spawned, phase, broker, tasks, disk>>

\* run_broker returns: it could not get credentials or set up TLS, and said so.
Return(t) ==
  /\ phase[t] = "running"
  /\ phase' = [phase EXCEPT ![t] = "returned"]
  /\ status' = [status EXCEPT ![broker[t][1]] = t]
  /\ UNCHANGED <<watcher, config, spawned, broker, tasks, late, disk>>

\* The abort takes effect.
Drop(t) ==
  /\ phase[t] = "aborted"
  /\ phase' = [phase EXCEPT ![t] = "dropped"]
  /\ UNCHANGED <<watcher, config, spawned, broker, tasks, status, late, disk>>

ReloadStep == Receive \/ Apply \/ Remove \/ Restart \/ Applied \/ Summary
TaskStep(t) == WriteStatus(t) \/ Return(t) \/ Drop(t)

Next == ReloadStep \/ Edit \/ Save \/ Hangup \/ \E t \in Task : TaskStep(t)

Spec == Init /\ [][Next]_vars

-----------------------------------------------------------------------------
(* Properties.                                                             *)

\* The type invariant.
TypeOK ==
  /\ file \in Config \cup {Malformed} /\ config \in Config
  /\ signal \in BOOLEAN
  /\ reload \in {"idle", "read", "apply", "summary"}
  /\ loaded \in Config
  /\ removed \subseteq Names /\ restarted \subseteq Names
  /\ spawned \in 0..MaxTasks
  /\ phase \in [Task -> {"none", "running", "returned", "aborted", "dropped"}]
  /\ broker \in [Task -> (Names \X Settings) \cup {Unspawned}]
  /\ tasks \in [Names -> {NoTask} \cup Task]
  /\ status \in [Names -> {NoTask} \cup Task]
  /\ since \subseteq Config \cup {Malformed}
  /\ late \in BOOLEAN /\ writes \in 0..MaxWrites

\* Between reloads each configured broker has its task, with that broker's
\* settings, and no other task is left running: whatever the sequence of edits,
\* saves, reloads and failed tasks (reload_once).
OneTaskEach ==
  reload \in {"idle", "read"} =>
    /\ \A n \in Configured(config) :
         \E t \in Task : /\ phase[t] \in {"running", "returned"}
                         /\ broker[t] = <<n, config[n]>>
    /\ \A t \in Task : phase[t] = "running" =>
         broker[t] \in {<<n, config[n]>> : n \in Configured(config)}

\* Even in the middle of a reload, two tasks of one broker, which would share a
\* client identifier, are never both left running (mqtt.rs, run_broker).
NoTwins ==
  \A t, u \in Task :
    phase[t] = "running" /\ phase[u] = "running" /\ broker[t][1] = broker[u][1] => t = u

\* Once the last SIGHUP is dealt with, the configuration in memory is one the
\* file has held since it was sent, unless the file did not parse: signals that
\* arrive during a reload are neither lost nor answered with older content.
FollowsFile ==
  reload = "idle" /\ ~signal => config \in since \/ Malformed \in since

\* A broker that is removed leaves no status behind, so that one added later
\* under its name starts as "connecting" (current_snapshot): but for a task that
\* wrote while it was being aborted.
Forgotten ==
  reload \in {"idle", "read"} /\ ~late =>
    \A n \in Names : status[n] # NoTask => n \in Configured(config)
=============================================================================
