------------------------ MODULE BrokerReloadProofs ------------------------
(***************************************************************************)
(* Proofs about the broker tasks across reloads, for any sets of names and *)
(* settings, any number of tasks and of writes of the file.  The invariant *)
(* ties the handle map to the tasks: what runs is exactly what a handle    *)
(* names, and, but for what a reload has left to do, the handles are those *)
(* of the configured brokers.                                              *)
(***************************************************************************)
EXTENDS BrokerReload, TLAPS

\* Types in two parts.
Control ==
  /\ file \in Config \cup {Malformed} /\ config \in Config
  /\ signal \in BOOLEAN
  /\ reload \in {"idle", "read", "apply", "summary"}
  /\ loaded \in Config
  /\ removed \subseteq Names /\ restarted \subseteq Names
  /\ since \subseteq Config \cup {Malformed}
  /\ writes \in 0..MaxWrites
TaskTypes ==
  /\ spawned \in 0..MaxTasks
  /\ phase \in [Task -> {"none", "running", "returned", "aborted", "dropped"}]
  /\ broker \in [Task -> (Names \X Settings) \cup {Unspawned}]
  /\ tasks \in [Names -> {NoTask} \cup Task]
  /\ status \in [Names -> {NoTask} \cup Task]
  /\ late \in BOOLEAN

\* The tasks spawned so far are 1..spawned, each with a broker of its own.
Spawned ==
  \A t \in Task : /\ phase[t] # "none" <=> t <= spawned
                  /\ t <= spawned => broker[t] \in Names \X Settings

\* A handle is that of a task of its name which nobody has aborted.
Handles ==
  \A n \in Names : tasks[n] # NoTask =>
    /\ tasks[n] <= spawned /\ broker[tasks[n]][1] = n
    /\ phase[tasks[n]] \in {"running", "returned"}

\* Every running task can be stopped through the handle under its name.
Stoppable == \A t \in Task : phase[t] = "running" => tasks[broker[t][1]] = t

\* What the reload has not left to do is done.
Progress ==
  /\ reload # "apply" => removed = {} /\ restarted = {}
  /\ reload = "apply" => /\ loaded = config
                         /\ restarted \subseteq Configured(config)
                         /\ removed \cap Configured(config) = {}
  /\ \A n \in Names \ (removed \cup restarted) :
       /\ config[n] # Absent => tasks[n] # NoTask /\ broker[tasks[n]] = <<n, config[n]>>
       /\ config[n] = Absent => tasks[n] = NoTask

\* What the reload reads, then puts in memory, is what the file has held.
Followed ==
  /\ file \in since
  /\ ~signal => IF reload = "read" THEN loaded \in since
                ELSE config \in since \/ Malformed \in since

\* A status is that of a broker in memory, or of one about to be removed.
Statuses ==
  ~late => \A n \in Names : status[n] # NoTask => config[n] # Absent \/ n \in removed

IInv == Control /\ TaskTypes /\ Spawned /\ Handles /\ Stoppable /\ Progress /\ Followed /\ Statuses

LEMMA TypeParts == TypeOK <=> Control /\ TaskTypes
  BY DEF TypeOK, Control, TaskTypes

-----------------------------------------------------------------------------
(* The initial states, and the types along a step.                         *)

LEMMA InitIInv == Init => IInv
<1> SUFFICES ASSUME Init PROVE IInv
  OBVIOUS
<1> USE ReloadAssumption
<1>1. Control
  <2>1. writes \in 0..MaxWrites
    BY DEF Init
  <2>2. since \subseteq Config \cup {Malformed} /\ removed \subseteq Names /\ restarted \subseteq Names
    BY DEF Init
  <2> QED BY <2>1, <2>2 DEF Init, Control
<1>p. Progress
  BY DEF Init, Progress, Configured
<1>s. Followed /\ Statuses
  BY DEF Init, Followed, Statuses
<1>2. spawned \in 0..MaxTasks /\ 1..spawned \subseteq Task
  BY DEF Init, Task
<1>3. tasks \in [Names -> {NoTask} \cup Task]
  BY <1>2 DEF Init
<1>4. TaskTypes
  BY <1>2, <1>3 DEF Init, TaskTypes, NoTask
<1>5. \A t \in 1..spawned : \E n \in Names : tasks[n] = t /\ broker[t] = <<n, file[n]>> /\ file[n] \in Settings
  BY DEF Init, Configured, Config
<1>6. Spawned
  <2> SUFFICES ASSUME NEW t \in Task
               PROVE  /\ phase[t] # "none" <=> t <= spawned
                      /\ t <= spawned => broker[t] \in Names \X Settings
    BY DEF Spawned
  <2>1. t <= spawned => t \in 1..spawned
    BY <1>2 DEF Task
  <2>2. phase[t] = IF t <= spawned THEN "running" ELSE "none"
    BY DEF Init
  <2> QED BY <1>5, <2>1, <2>2
<1>7. Handles
  <2> SUFFICES ASSUME NEW n \in Names, tasks[n] # NoTask
               PROVE  /\ tasks[n] <= spawned /\ broker[tasks[n]][1] = n
                      /\ phase[tasks[n]] \in {"running", "returned"}
    BY DEF Handles
  <2>1. n \in Configured(file) /\ tasks[n] \in 1..spawned
    BY DEF Init
  <2> QED BY <1>2, <2>1 DEF Init
<1>8. Stoppable
  <2> SUFFICES ASSUME NEW t \in Task, phase[t] = "running"
               PROVE  tasks[broker[t][1]] = t
    BY DEF Stoppable
  <2>1. t \in 1..spawned
    BY DEF Init, Task
  <2> QED BY <1>5, <2>1
<1> QED BY <1>1, <1>p, <1>s, <1>4, <1>6, <1>7, <1>8 DEF IInv

LEMMA ControlStep == Control /\ TaskTypes /\ [Next]_vars => Control'
<1> SUFFICES ASSUME Control, TaskTypes, [Next]_vars PROVE Control'
  OBVIOUS
<1> USE ReloadAssumption DEF Control
<1>1. ASSUME NEW c \in Config \cup {Malformed}, WriteFile(c) PROVE Control'
  BY <1>1 DEF WriteFile, watcher
<1>2. CASE Edit
  BY <1>1, <1>2 DEF Edit
<1>3. CASE Save
  BY <1>1, <1>3 DEF Save
<1>4. CASE Hangup
  BY <1>4 DEF Hangup, watcher
<1>5. CASE Receive
  BY <1>5 DEF Receive
<1>6. CASE Apply
  BY <1>6 DEF Apply, Removed, Changed, Added, Configured, disk
<1>7. CASE Remove
  BY <1>7 DEF Remove, disk
<1>8. CASE Restart
  BY <1>8 DEF Restart, disk
<1>9. CASE Applied \/ Summary
  BY <1>9 DEF Applied, Summary, disk
<1>10. CASE \E t \in Task : TaskStep(t)
  BY <1>10 DEF TaskStep, WriteStatus, Return, Drop, watcher, disk
<1>11. CASE UNCHANGED vars
  BY <1>11 DEF vars, watcher, disk
<1> QED BY <1>2, <1>3, <1>4, <1>5, <1>6, <1>7, <1>8, <1>9, <1>10, <1>11 DEF Next, ReloadStep

\* Restart fills the place after the last task.
LEMMA NextTask ==
  ASSUME TaskTypes, spawned < MaxTasks
  PROVE  spawned + 1 \in Task /\ spawned + 1 \in 0..MaxTasks /\ spawned + 1 # NoTask
  BY ReloadAssumption DEF TaskTypes, Task, NoTask

LEMMA TaskTypesStep == Control /\ TaskTypes /\ Progress /\ [Next]_vars => TaskTypes'
<1> SUFFICES ASSUME Control, TaskTypes, Progress, [Next]_vars PROVE TaskTypes'
  OBVIOUS
<1>f. ASSUME UNCHANGED running PROVE TaskTypes'
  BY <1>f DEF TaskTypes, running
<1>1. CASE Edit \/ Save \/ Hangup \/ Receive \/ Apply \/ Applied \/ Summary \/ UNCHANGED vars
  BY <1>1, <1>f DEF Edit, Save, WriteFile, Hangup, Receive, Apply, Applied, Summary, vars
<1>2. CASE Remove
  BY <1>2 DEF Remove, TaskTypes
<1>3. CASE Restart
  <2>1. spawned < MaxTasks
    BY <1>3 DEF Restart
  <2>2. PICK n \in restarted :
          /\ phase' = [t \in Task |-> IF t = spawned + 1 THEN "running"
                                      ELSE IF t = tasks[n] /\ phase[t] = "running"
                                      THEN "aborted" ELSE phase[t]]
          /\ spawned' = spawned + 1
          /\ broker' = [broker EXCEPT ![spawned + 1] = <<n, loaded[n]>>]
          /\ tasks' = Store(n)
          /\ reload = "apply" /\ UNCHANGED <<status, late>>
    BY <1>3 DEF Restart
  <2>3. n \in Names
    BY DEF Control
  <2>4. <<n, loaded[n]>> \in Names \X Settings
    BY <2>2, <2>3 DEF Control, Config, Progress, Configured
  <2> QED
    BY <2>2, <2>3, <2>4, <2>1, NextTask DEF TaskTypes, Store
<1>4. ASSUME NEW t \in Task, TaskStep(t) PROVE TaskTypes'
  <2>1. CASE WriteStatus(t)
    BY <2>1 DEF WriteStatus, TaskTypes
  <2>2. CASE Return(t)
    BY <2>2 DEF Return, TaskTypes
  <2>3. CASE Drop(t)
    BY <2>3 DEF Drop, TaskTypes
  <2> QED BY <1>4, <2>1, <2>2, <2>3 DEF TaskStep
<1> QED BY <1>1, <1>2, <1>3, <1>4 DEF Next, ReloadStep

-----------------------------------------------------------------------------
(* Steps.                                                                  *)

\* What a step of the watcher that touches tasks does, with its name chosen.
RemoveOne(n) ==
  /\ reload = "apply" /\ n \in removed
  /\ removed' = removed \ {n}
  /\ phase' = [t \in Task |-> IF t = tasks[n] /\ phase[t] = "running"
                              THEN "aborted" ELSE phase[t]]
  /\ tasks' = [tasks EXCEPT ![n] = NoTask]
  /\ status' = [status EXCEPT ![n] = NoTask]
  /\ UNCHANGED <<reload, loaded, restarted, config, spawned, broker, late>>
RestartOne(n) ==
  /\ reload = "apply" /\ removed = {} /\ spawned < MaxTasks /\ n \in restarted
  /\ restarted' = restarted \ {n}
  /\ phase' = [t \in Task |-> IF t = spawned + 1 THEN "running"
                              ELSE IF t = tasks[n] /\ phase[t] = "running"
                              THEN "aborted" ELSE phase[t]]
  /\ spawned' = spawned + 1
  /\ broker' = [broker EXCEPT ![spawned + 1] = <<n, loaded[n]>>]
  /\ tasks' = [tasks EXCEPT ![n] = spawned + 1]
  /\ UNCHANGED <<reload, loaded, removed, config, status, late>>

LEMMA OneName ==
  /\ Remove => \E n \in removed : RemoveOne(n)
  /\ Restart => \E n \in restarted : RestartOne(n)
  BY DEF Remove, Restart, RemoveOne, RestartOne, Store

\* The steps that leave every task alone.
Aside == Edit \/ Save \/ Hangup \/ Receive \/ Apply \/ Applied \/ Summary \/ UNCHANGED vars

LEMMA AsideRunning == Aside => UNCHANGED running
  BY DEF Aside, Edit, Save, WriteFile, Hangup, Receive, Apply, Applied, Summary, vars

LEMMA StepCases ==
  [Next]_vars => Aside \/ Remove \/ Restart \/ \E t \in Task : TaskStep(t)
  BY DEF Next, ReloadStep, Aside

LEMMA SpawnedStep == IInv /\ [Next]_vars => Spawned'
<1> SUFFICES ASSUME IInv, [Next]_vars PROVE Spawned'
  OBVIOUS
<1> USE DEF IInv
<1>1. CASE Aside
  BY <1>1, AsideRunning DEF running, Spawned
<1>2. CASE Remove
  <2>1. PICK n \in removed : RemoveOne(n)
    BY <1>2, OneName
  <2> QED BY <2>1 DEF RemoveOne, Spawned, TaskTypes
<1>3. CASE Restart
  <2>1. PICK n \in restarted : RestartOne(n)
    BY <1>3, OneName
  <2>2. n \in Names /\ <<n, loaded[n]>> \in Names \X Settings
    BY <2>1 DEF RestartOne, Control, Config, Progress, Configured
  <2>3. \A t \in Task : t <= spawned + 1 <=> t <= spawned \/ t = spawned + 1
    BY DEF TaskTypes, Task
  <2>4. spawned + 1 \in Task
    BY <2>1, NextTask DEF RestartOne
  <2>5. \A t \in Task : t # spawned + 1 => broker'[t] = broker[t]
    BY <2>1, <2>4 DEF RestartOne, TaskTypes
  <2>6. broker'[spawned + 1] = <<n, loaded[n]>> /\ phase'[spawned + 1] = "running"
    BY <2>1, <2>4 DEF RestartOne, TaskTypes
  <2>7. \A t \in Task : t # spawned + 1 => (phase'[t] # "none" <=> phase[t] # "none")
    BY <2>1 DEF RestartOne, TaskTypes
  <2>8. spawned' = spawned + 1
    BY <2>1 DEF RestartOne
  <2> QED BY <2>2, <2>3, <2>5, <2>6, <2>7, <2>8 DEF Spawned
<1>4. ASSUME NEW t \in Task, TaskStep(t) PROVE Spawned'
  BY <1>4 DEF TaskStep, WriteStatus, Return, Drop, Spawned, TaskTypes
<1> QED BY <1>1, <1>2, <1>3, <1>4, StepCases

LEMMA HandlesStep == IInv /\ [Next]_vars => Handles'
<1> SUFFICES ASSUME IInv, [Next]_vars PROVE Handles'
  OBVIOUS
<1> USE DEF IInv
<1>1. CASE Aside
  BY <1>1, AsideRunning DEF running, Handles
<1>2. CASE Remove
  <2>1. PICK n \in removed : RemoveOne(n)
    BY <1>2, OneName
  <2>2. n \in Names /\ tasks'[n] = NoTask
    BY <2>1 DEF Control, RemoveOne, TaskTypes
  <2>3. ASSUME NEW m \in Names, m # n, tasks[m] # NoTask
        PROVE  tasks[m] \in Task /\ tasks[m] # tasks[n]
    BY <2>2, <2>3 DEF Handles, TaskTypes
  <2>4. \A m \in Names : m # n => tasks'[m] = tasks[m]
    BY <2>1 DEF RemoveOne, TaskTypes
  <2> QED BY <2>1, <2>2, <2>3, <2>4 DEF RemoveOne, Handles
<1>3. CASE Restart
  <2>1. PICK n \in restarted : RestartOne(n)
    BY <1>3, OneName
  <2>2. n \in Names /\ spawned + 1 \in Task /\ spawned \in Nat
    BY <2>1, NextTask DEF RestartOne, Control, TaskTypes
  <2>3. /\ tasks'[n] = spawned + 1 /\ broker'[spawned + 1] = <<n, loaded[n]>>
        /\ phase'[spawned + 1] = "running" /\ spawned' = spawned + 1
    BY <2>1, <2>2 DEF RestartOne, TaskTypes
  <2>4. ASSUME NEW m \in Names, m # n, tasks[m] # NoTask
        PROVE  /\ tasks[m] \in Task /\ tasks[m] # tasks[n] /\ tasks[m] <= spawned
               /\ tasks[m] # spawned + 1
    BY <2>2, <2>4 DEF Handles, TaskTypes, Task
  <2>5. \A m \in Names : m # n => tasks'[m] = tasks[m]
    BY <2>1 DEF RestartOne, TaskTypes
  <2>6. ASSUME NEW m \in Names, m # n, tasks[m] # NoTask
        PROVE  /\ tasks'[m] <= spawned' /\ broker'[tasks'[m]][1] = m
               /\ phase'[tasks'[m]] \in {"running", "returned"}
    <3>1. broker'[tasks[m]] = broker[tasks[m]] /\ phase'[tasks[m]] = phase[tasks[m]]
      BY <2>1, <2>2, <2>4, <2>6 DEF RestartOne, TaskTypes
    <3>2. tasks[m] <= spawned + 1
      BY <2>2, <2>4, <2>6 DEF Task
    <3> QED BY <2>3, <2>5, <2>6, <3>1, <3>2 DEF Handles
  <2>7. spawned + 1 <= spawned'
    BY <2>2, <2>3
  <2> QED BY <2>3, <2>5, <2>6, <2>7 DEF Handles
<1>4. ASSUME NEW t \in Task, TaskStep(t) PROVE Handles'
  <2>1. UNCHANGED <<tasks, spawned, broker>>
    BY <1>4 DEF TaskStep, WriteStatus, Return, Drop
  <2>2. \A u \in Task : phase[u] \in {"running", "returned"} => phase'[u] \in {"running", "returned"}
    BY <1>4 DEF TaskStep, WriteStatus, Return, Drop, TaskTypes
  <2>3. \A n \in Names : tasks[n] # NoTask => tasks[n] \in Task
    BY DEF TaskTypes
  <2> QED BY <2>1, <2>2, <2>3 DEF Handles
<1> QED BY <1>1, <1>2, <1>3, <1>4, StepCases

LEMMA StoppableStep == IInv /\ [Next]_vars => Stoppable'
<1> SUFFICES ASSUME IInv, [Next]_vars PROVE Stoppable'
  OBVIOUS
<1> USE DEF IInv
\* A running task is one of those spawned, so its name is a name.
<1>n. \A t \in Task : phase[t] = "running" => broker[t][1] \in Names
  BY DEF Spawned
<1>1. CASE Aside
  BY <1>1, AsideRunning DEF running, Stoppable
<1>2. CASE Remove
  <2>1. PICK n \in removed : RemoveOne(n)
    BY <1>2, OneName
  <2>2. \A t \in Task : phase'[t] = "running" => phase[t] = "running" /\ t # tasks[n]
    BY <2>1 DEF RemoveOne
  <2>3. \A m \in Names : m # n => tasks'[m] = tasks[m]
    BY <2>1 DEF RemoveOne, TaskTypes
  <2>4. broker' = broker
    BY <2>1 DEF RemoveOne
  <2> QED BY <1>n, <2>2, <2>3, <2>4 DEF Stoppable
<1>3. CASE Restart
  <2>1. PICK n \in restarted : RestartOne(n)
    BY <1>3, OneName
  <2>2. n \in Names /\ spawned + 1 \in Task
    BY <2>1, NextTask DEF RestartOne, Control
  <2>3. tasks'[n] = spawned + 1 /\ broker'[spawned + 1] = <<n, loaded[n]>>
    BY <2>1, <2>2 DEF RestartOne, TaskTypes
  <2>4. ASSUME NEW t \in Task, t # spawned + 1, phase'[t] = "running"
        PROVE  tasks'[broker'[t][1]] = t
    <3>1. phase[t] = "running" /\ t # tasks[n] /\ broker'[t] = broker[t]
      BY <2>1, <2>2, <2>4 DEF RestartOne, TaskTypes
    <3>2. broker[t][1] \in Names /\ broker[t][1] # n
      BY <1>n, <3>1 DEF Stoppable
    <3>3. tasks'[broker[t][1]] = tasks[broker[t][1]]
      BY <2>1, <3>2 DEF RestartOne, TaskTypes
    <3> QED BY <3>1, <3>3 DEF Stoppable
  <2> QED BY <2>3, <2>4 DEF Stoppable
<1>4. ASSUME NEW t \in Task, TaskStep(t) PROVE Stoppable'
  <2>1. \A u \in Task : phase'[u] = "running" => phase[u] = "running"
    BY <1>4 DEF TaskStep, WriteStatus, Return, Drop, TaskTypes
  <2>2. UNCHANGED <<tasks, broker>>
    BY <1>4 DEF TaskStep, WriteStatus, Return, Drop
  <2> QED BY <2>1, <2>2 DEF Stoppable
<1> QED BY <1>1, <1>2, <1>3, <1>4, StepCases

LEMMA ProgressStep == IInv /\ [Next]_vars => Progress'
<1> SUFFICES ASSUME IInv, [Next]_vars PROVE Progress'
  OBVIOUS
<1> USE DEF IInv
<1>f. ASSUME UNCHANGED <<reload, loaded, removed, restarted, config, tasks, broker>>
      PROVE  Progress'
  BY <1>f DEF Progress, Configured
<1>1. CASE Edit \/ Save \/ Hangup \/ UNCHANGED vars
  BY <1>1, <1>f DEF Edit, Save, WriteFile, Hangup, vars, watcher, running
<1>2. CASE Receive \/ Applied \/ Summary
  <2>1. UNCHANGED <<config, removed, restarted, tasks, broker>>
    BY <1>2 DEF Receive, Applied, Summary, running
  <2>2. removed = {} /\ restarted = {} /\ reload' # "apply"
    BY <1>2 DEF Receive, Applied, Summary, Progress
  <2> QED BY <2>1, <2>2 DEF Progress
<1>3. CASE Apply
  <2>1. removed = {} /\ restarted = {} /\ UNCHANGED <<tasks, broker>>
    BY <1>3 DEF Apply, Progress, running
  <2>2. /\ reload' = "apply" /\ loaded' = loaded /\ config' = loaded
        /\ restarted' \subseteq Configured(loaded)
        /\ removed' \cap Configured(loaded) = {}
    BY <1>3 DEF Apply, Changed, Added, Removed
  <2>3. ASSUME NEW n \in Names, n \notin removed', n \notin restarted'
        PROVE  loaded[n] = config[n]
    BY <1>3, <2>3 DEF Apply, Changed, Added, Removed, Configured
  <2> QED BY <2>1, <2>2, <2>3 DEF Progress, Configured
<1>4. CASE Remove
  <2>1. PICK n \in removed : RemoveOne(n)
    BY <1>4, OneName
  <2>2. n \in Names /\ config[n] = Absent
    BY <2>1 DEF RemoveOne, Progress, Configured, Control
  <2>3. tasks'[n] = NoTask /\ \A m \in Names : m # n => tasks'[m] = tasks[m]
    BY <2>1, <2>2 DEF RemoveOne, TaskTypes
  <2> QED BY <2>1, <2>2, <2>3, ZenonT(30) DEF RemoveOne, Progress, Configured
<1>5. CASE Restart
  <2>1. PICK n \in restarted : RestartOne(n)
    BY <1>5, OneName
  <2>2. /\ n \in Names /\ config[n] # Absent /\ loaded = config
        /\ spawned + 1 \in Task /\ spawned + 1 # NoTask /\ spawned \in Nat
    BY <2>1, NextTask DEF RestartOne, Progress, Configured, Control, TaskTypes
  <2>3. tasks'[n] = spawned + 1 /\ broker'[spawned + 1] = <<n, config[n]>>
    BY <2>1, <2>2 DEF RestartOne, TaskTypes
  <2>4. ASSUME NEW m \in Names, m # n
        PROVE  /\ tasks'[m] = tasks[m]
               /\ tasks[m] # NoTask => broker'[tasks[m]] = broker[tasks[m]]
    <3>1. tasks[m] # NoTask => tasks[m] # spawned + 1 /\ tasks[m] \in Task
      BY <2>2 DEF Handles, TaskTypes, Task
    <3> QED BY <2>1, <2>4, <3>1 DEF RestartOne, TaskTypes
  <2>5. ASSUME NEW m \in Names \ (removed' \cup restarted')
        PROVE  /\ config[m] # Absent => tasks'[m] # NoTask /\ broker'[tasks'[m]] = <<m, config[m]>>
               /\ config[m] = Absent => tasks'[m] = NoTask
    <3>1. CASE m = n
      BY <3>1, <2>2, <2>3
    <3>2. CASE m # n
      BY <3>2, <2>1, <2>4, <2>5 DEF RestartOne, Progress
    <3> QED BY <3>1, <3>2
  <2> QED BY <2>1, <2>5 DEF RestartOne, Progress, Configured
<1>6. ASSUME NEW t \in Task, TaskStep(t) PROVE Progress'
  BY <1>6, <1>f DEF TaskStep, WriteStatus, Return, Drop, watcher
<1> QED BY <1>1, <1>2, <1>3, <1>4, <1>5, <1>6 DEF Next, ReloadStep

LEMMA FollowedStep == IInv /\ [Next]_vars => Followed'
<1> SUFFICES ASSUME IInv, [Next]_vars PROVE Followed'
  OBVIOUS
<1> USE DEF IInv, Followed
<1>f. ASSUME UNCHANGED <<reload, loaded, config, disk>> PROVE Followed'
  BY <1>f DEF disk
<1>w. ASSUME NEW c, WriteFile(c) PROVE Followed'
  BY <1>w DEF WriteFile, watcher
<1>1. CASE Edit \/ Save
  BY <1>1, <1>w DEF Edit, Save
<1>2. CASE Hangup
  BY <1>2 DEF Hangup
<1>3. CASE Receive
  <2>1. CASE file = Malformed
    BY <1>3, <2>1 DEF Receive
  <2>2. CASE file # Malformed
    BY <1>3, <2>2 DEF Receive
  <2> QED BY <2>1, <2>2
<1>4. CASE Apply
  BY <1>4 DEF Apply, disk
<1>5. CASE Applied \/ Summary
  BY <1>5 DEF Applied, Summary, disk
<1>6. CASE Remove \/ Restart \/ UNCHANGED vars
  BY <1>6, <1>f DEF Remove, Restart, vars, watcher
<1>7. ASSUME NEW t \in Task, TaskStep(t) PROVE Followed'
  BY <1>7, <1>f DEF TaskStep, WriteStatus, Return, Drop, watcher
<1> QED BY <1>1, <1>2, <1>3, <1>4, <1>5, <1>6, <1>7 DEF Next, ReloadStep

LEMMA StatusesStep == IInv /\ [Next]_vars => Statuses'
<1> SUFFICES ASSUME IInv, [Next]_vars PROVE Statuses'
  OBVIOUS
<1> USE DEF IInv
<1>f. ASSUME UNCHANGED <<config, removed, status, late>> PROVE Statuses'
  BY <1>f DEF Statuses
<1>1. CASE Edit \/ Save \/ Hangup \/ Receive \/ Applied \/ Summary \/ Restart \/ UNCHANGED vars
  BY <1>1, <1>f DEF Edit, Save, WriteFile, Hangup, Receive, Applied, Summary, Restart,
                    vars, watcher, running
<1>2. CASE Apply
  <2>1. removed = {} /\ config' = loaded /\ UNCHANGED <<status, late>>
    BY <1>2 DEF Apply, Progress, running
  <2>2. \A n \in Names : config[n] # Absent => loaded[n] # Absent \/ n \in removed'
    BY <1>2 DEF Apply, Removed, Configured
  <2> QED BY <2>1, <2>2 DEF Statuses
<1>3. CASE Remove
  <2>1. PICK n \in removed : RemoveOne(n)
    BY <1>3, OneName
  <2>2. status'[n] = NoTask /\ \A m \in Names : m # n => status'[m] = status[m]
    BY <2>1 DEF RemoveOne, TaskTypes, Control
  <2> QED BY <2>1, <2>2 DEF RemoveOne, Statuses
\* The name of a running task has a handle, hence is configured or being removed.
<1>4. ASSUME NEW t \in Task, phase[t] = "running"
      PROVE  LET n == broker[t][1] IN n \in Names /\ (config[n] # Absent \/ n \in removed)
  <2>1. broker[t][1] \in Names /\ tasks[broker[t][1]] = t /\ t # NoTask
    BY <1>4 DEF Spawned, Stoppable, Task, NoTask
  <2>2. \A m \in restarted : config[m] # Absent
    BY DEF Progress, Configured
  <2> QED BY <2>1, <2>2 DEF Progress
<1>5. ASSUME NEW t \in Task, TaskStep(t) PROVE Statuses'
  <2>1. UNCHANGED <<config, removed>>
    BY <1>5 DEF TaskStep, WriteStatus, Return, Drop, watcher
  <2>2. CASE ~late' /\ ~Drop(t)
    <3>1. phase[t] = "running" /\ ~late
      BY <1>5, <2>2 DEF TaskStep, WriteStatus, Return, TaskTypes
    <3>2. status' = [status EXCEPT ![broker[t][1]] = t]
      BY <1>5, <2>2 DEF TaskStep, WriteStatus, Return
    <3>3. \A m \in Names : m # broker[t][1] => status'[m] = status[m]
      BY <3>2 DEF TaskTypes
    <3> QED BY <1>4, <2>1, <3>1, <3>3 DEF Statuses
  <2>3. CASE late'
    BY <2>3 DEF Statuses
  <2>4. CASE Drop(t)
    BY <2>1, <2>4, <1>f DEF Drop
  <2> QED BY <2>2, <2>3, <2>4
<1> QED BY <1>1, <1>2, <1>3, <1>5 DEF Next, ReloadStep

-----------------------------------------------------------------------------
(* Theorems.                                                               *)

\* The invariant holds in every reachable state.
THEOREM Invariance == Spec => []IInv
<1>1. IInv /\ [Next]_vars => IInv'
  <2> SUFFICES ASSUME IInv, [Next]_vars PROVE IInv'
    OBVIOUS
  <2>1. Control' /\ TaskTypes'
    BY ControlStep, TaskTypesStep DEF IInv
  <2> QED BY <2>1, SpawnedStep, HandlesStep, StoppableStep, ProgressStep,
             FollowedStep, StatusesStep DEF IInv
<1> QED BY InitIInv, <1>1, PTL DEF Spec

\* Every variable keeps its type: in particular the watcher never holds a file
\* that did not parse (reload.rs, reload_once).
THEOREM TypeCorrect == Spec => []TypeOK
<1>1. IInv => TypeOK
  BY TypeParts DEF IInv
<1> QED BY Invariance, <1>1, PTL

\* Between reloads, the running tasks are those of the configured brokers, with
\* their settings (reload.rs, reload_once).
THEOREM TasksMatchConfig == Spec => []OneTaskEach
<1>1. IInv => OneTaskEach
  <2> SUFFICES ASSUME IInv, reload \in {"idle", "read"} PROVE
        /\ \A n \in Configured(config) :
             \E t \in Task : /\ phase[t] \in {"running", "returned"}
                             /\ broker[t] = <<n, config[n]>>
        /\ \A t \in Task : phase[t] = "running" =>
             broker[t] \in {<<n, config[n]>> : n \in Configured(config)}
    BY DEF OneTaskEach
  <2> USE DEF IInv
  <2>1. removed = {} /\ restarted = {}
    BY DEF Progress
  <2>2. ASSUME NEW n \in Configured(config)
        PROVE  \E t \in Task : /\ phase[t] \in {"running", "returned"}
                               /\ broker[t] = <<n, config[n]>>
    <3>1. n \in Names /\ tasks[n] # NoTask /\ broker[tasks[n]] = <<n, config[n]>>
      BY <2>1, <2>2 DEF Progress, Configured
    <3>2. tasks[n] \in Task /\ phase[tasks[n]] \in {"running", "returned"}
      BY <3>1 DEF TaskTypes, Handles
    <3> QED BY <3>1, <3>2
  <2>3. ASSUME NEW t \in Task, phase[t] = "running"
        PROVE  broker[t] \in {<<n, config[n]>> : n \in Configured(config)}
    <3>1. broker[t][1] \in Names /\ tasks[broker[t][1]] = t /\ t # NoTask
      BY <2>3 DEF Spawned, Stoppable, Task, NoTask
    <3>2. broker[t][1] \in Configured(config) /\ broker[t] = <<broker[t][1], config[broker[t][1]]>>
      BY <2>1, <3>1 DEF Progress, Configured
    <3> QED BY <3>2
  <2> QED BY <2>2, <2>3
<1> QED BY Invariance, <1>1, PTL

\* Two tasks of one broker are never both left running, even during a reload
\* (mqtt.rs, run_broker: they would share a client identifier).
THEOREM NeverTwins == Spec => []NoTwins
<1>1. IInv => NoTwins
  BY DEF IInv, Stoppable, NoTwins
<1> QED BY Invariance, <1>1, PTL

\* When every SIGHUP has been dealt with, what is in memory is what the file has
\* held since the last one (reload.rs, watch).
THEOREM SignalsAnswered == Spec => []FollowsFile
<1>1. IInv => FollowsFile
  BY DEF IInv, Followed, FollowsFile
<1> QED BY Invariance, <1>1, PTL

\* A removed broker leaves no status behind (state.rs, mqtt_broker_status).
THEOREM RemovedForgotten == Spec => []Forgotten
<1>1. IInv => Forgotten
  <2> SUFFICES ASSUME IInv, reload \in {"idle", "read"}, ~late,
                      NEW n \in Names, status[n] # NoTask
               PROVE  n \in Configured(config)
    BY DEF Forgotten
  <2> QED BY DEF IInv, Statuses, Progress, Configured
<1> QED BY Invariance, <1>1, PTL
=============================================================================
