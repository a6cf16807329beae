--------------------------- MODULE DaemonLifecycle ---------------------------
(***************************************************************************)
(* Processes of the daemon started against one configuration: the lock that *)
(* lets one of them live (daemon/src/lock.rs), the fork of --daemon, the    *)
(* socket file, the repeaters table opened by the one that lives, and the   *)
(* sightings it records until it is stopped or dies.                        *)
(*                                                                         *)
(* A process is known by its process ID, which the system may give again    *)
(* once it is gone.  What a crash leaves is what is on disk: the contents   *)
(* of the lock file, the socket file and the table.                         *)
(***************************************************************************)
EXTENDS DiscoveredStore

CONSTANTS Pids,          \* process IDs the system gives
          NoPid,
          Contacts,      \* keys that are contacts of the companion
          Sightings,     \* what may be overheard
          MaxStarts,     \* bound: processes started
          MaxSightings   \* bound: sightings recorded

ASSUME NoPidAssumption == NoPid \notin Pids

VARIABLES
    phase,      \* how far each process has come
    background, \* the processes started with --daemon
    lockFile,   \* the process ID in the lock file
    holders,    \* the processes that hold the locked file open
    socket,     \* the process that bound the socket file, NoPid if there is none
    table,      \* the rows of the repeaters table
    mirror,     \* AppState.discovered_repeaters of each process
    pending,    \* the sighting a process has written and not yet mirrored
    announced,  \* RepeaterHeard events broadcast so far, by key
    log,        \* history: every sighting, and whether its row was written
    opened,     \* history: the length of log when the process read the table
    starts

files == <<lockFile, socket, table>>
processes == <<phase, background, holders, mirror, pending, opened>>
vars == <<files, processes, announced, log, starts>>

Heard == <<table, mirror, pending, announced, log, opened>>

Keys == {s.key : s \in Sightings}
NoSighting == <<>>

ASSUME SightingsAssumption == NoSighting \notin Sightings

\* AppState::new has returned and the tasks are spawned.  They go on until the
\* process is gone: run() ending ("closing" before the socket is bound,
\* "stopping" after) and removing the socket file ("closed", "stopped") does
\* not wait for them.
Working == {"open", "serving", "closing", "stopping", "closed", "stopped"}
Running == {p \in Pids : phase[p] \in Working}

Init ==
    /\ phase = [p \in Pids |-> "none"]
    /\ background = {}
    /\ lockFile = NoPid
    /\ holders = {}
    /\ socket = NoPid
    /\ table = <<>>
    /\ mirror = [p \in Pids |-> <<>>]
    /\ pending = [p \in Pids |-> NoSighting]
    /\ announced = [k \in Keys |-> 0]
    /\ log = <<>>
    /\ opened = [p \in Pids |-> 0]
    /\ starts = 0

-----------------------------------------------------------------------------
(* The lock.  Opening the file leaves its contents; flock answers at once.  *)

\* (Faulty variant: a lock nobody is refused.)
LocksAnyway(p) == holders \subseteq Pids
Locks(p) == holders = {}

\* SingleInstanceLock::acquire up to flock.
Start(p, detached) ==
    /\ phase[p] = "none"
    /\ starts < MaxStarts
    /\ Locks(p)
    /\ phase' = [phase EXCEPT ![p] = "locked"]
    /\ holders' = holders \cup {p}
    /\ background' = IF detached THEN background \cup {p} ELSE background
    /\ starts' = starts + 1
    /\ UNCHANGED <<files, mirror, pending, announced, log, opened>>

\* Refused: the process ends, the process ID in the file stays the holder's.
Refused(p) ==
    /\ phase[p] = "none"
    /\ starts < MaxStarts
    /\ ~ Locks(p)
    /\ starts' = starts + 1
    /\ UNCHANGED <<processes, files, announced, log>>

\* write_current_pid, after acquire and again in the child of the fork: the
\* file is emptied, then written.
EmptyLockFile(p) ==
    /\ phase[p] \in {"locked", "forked"}
    /\ phase' = [phase EXCEPT ![p] = IF @ = "locked" THEN "emptied" ELSE "cleared"]
    /\ lockFile' = NoPid
    /\ UNCHANGED <<background, holders, socket, Heard, starts>>

RecordPid(p) ==
    /\ phase[p] \in {"emptied", "cleared"}
    /\ phase' = [phase EXCEPT ![p] =
                    IF @ = "emptied" /\ p \in background THEN "detaching" ELSE "ready"]
    /\ lockFile' = p
    /\ UNCHANGED <<background, holders, socket, Heard, starts>>

\* run_in_background: the child q has the parent's open file, hence its lock.
Fork(p, q) ==
    /\ phase[p] = "detaching"
    /\ phase[q] = "none"
    /\ phase' = [phase EXCEPT ![p] = "parent", ![q] = "forked"]
    /\ holders' = holders \cup {q}
    /\ UNCHANGED <<background, files, mirror, pending, announced, log, opened, starts>>

-----------------------------------------------------------------------------
(* From the open table to the end of the process.                          *)

\* AppState::new: every row is known before the mesh is connected.
OpenStore(p) ==
    /\ phase[p] = "ready"
    /\ phase' = [phase EXCEPT ![p] = "open"]
    /\ \E m \in Loads(table) : mirror' = [mirror EXCEPT ![p] = m]
    /\ opened' = [opened EXCEPT ![p] = Len(log)]
    /\ UNCHANGED <<background, holders, files, pending, announced, log, starts>>

\* server::run: a socket file left by a process that died is removed first.
\* Nothing keeps the task from binding once run() is over.
Bind(p) ==
    /\ phase[p] \in {"open", "closing", "closed"}
    /\ phase' = [phase EXCEPT ![p] = CASE @ = "open" -> "serving"
                                        [] @ = "closing" -> "stopping"
                                        [] @ = "closed" -> "stopped"]
    /\ socket' = p
    /\ UNCHANGED <<background, holders, lockFile, Heard, starts>>

\* The select! of run() is over: an interrupt, the end of the server or of the
\* mesh task.  The socket file goes next, the lock only with the process.
Stop(p) ==
    /\ phase[p] \in {"open", "serving"}
    /\ phase' = [phase EXCEPT ![p] = IF @ = "open" THEN "closing" ELSE "stopping"]
    /\ UNCHANGED <<background, holders, files, mirror, pending, announced, log,
                   opened, starts>>

RemoveSocket(p) ==
    /\ phase[p] \in {"closing", "stopping"}
    /\ phase' = [phase EXCEPT ![p] = IF @ = "closing" THEN "closed" ELSE "stopped"]
    /\ socket' = NoPid
    /\ UNCHANGED <<background, holders, lockFile, Heard, starts>>

\* The process is gone, by returning from main, by an error or by a crash at
\* any point: the system closes its files, nothing else is undone.
Exit(p) ==
    /\ phase[p] # "none"
    /\ phase' = [phase EXCEPT ![p] = "none"]
    /\ background' = background \ {p}
    /\ holders' = holders \ {p}
    /\ mirror' = [mirror EXCEPT ![p] = <<>>]
    /\ pending' = [pending EXCEPT ![p] = NoSighting]
    /\ opened' = [opened EXCEPT ![p] = 0]
    /\ UNCHANGED <<files, announced, log, starts>>

-----------------------------------------------------------------------------
(* A sighting: the row first, the mirror next, then the event.             *)

\* The first half of upsert_discovered_node.  A write that fails is logged.
WriteSighting(p, s) ==
    /\ phase[p] \in Working
    /\ pending[p] = NoSighting
    /\ Kept(s.type)
    /\ Len(log) < MaxSightings
    /\ \E written \in BOOLEAN :
          /\ log' = Append(log, [key |-> s.key, name |-> s.name, type |-> s.type,
                                 pos |-> s.pos, signal |-> s.signal,
                                 written |-> written])
          /\ table' = IF written THEN Upsert(table, s, Len(log) + 1) ELSE table
    /\ pending' = [pending EXCEPT ![p] = s]
    /\ UNCHANGED <<phase, background, holders, lockFile, socket, mirror,
                   announced, opened, starts>>

\* The second half, and the rest of handle_discovered_node.
MirrorSighting(p) ==
    /\ phase[p] \in Working
    /\ pending[p] # NoSighting
    /\ LET s == pending[p]
           is_new == PrefixOf(s.key) \notin DOMAIN mirror[p]
           already_registered == \E c \in Contacts : PrefixOf(c) = PrefixOf(s.key)
       IN  /\ mirror' = [mirror EXCEPT ![p] = Merged(@, s, Len(log))]
           /\ announced' = IF is_new /\ ~ already_registered
                           THEN [announced EXCEPT ![s.key] = @ + 1] ELSE announced
    /\ pending' = [pending EXCEPT ![p] = NoSighting]
    /\ UNCHANGED <<phase, background, holders, files, log, opened, starts>>

Hear(p) == (\E s \in Sightings : WriteSighting(p, s)) \/ MirrorSighting(p)

Live(p) ==
    \/ \E detached \in BOOLEAN : Start(p, detached)
    \/ Refused(p)
    \/ EmptyLockFile(p)
    \/ RecordPid(p)
    \/ \E q \in Pids : Fork(p, q)
    \/ OpenStore(p)
    \/ Bind(p)
    \/ Stop(p)
    \/ RemoveSocket(p)
    \/ Exit(p)

Next == \E p \in Pids : Live(p) \/ Hear(p)

Spec == Init /\ [][Next]_vars

-----------------------------------------------------------------------------
(* Of the processes that have read the table at most one is alive, the      *)
(* process ID in the lock file is its own, and while it serves the socket   *)
(* file is the one it bound: a second instance, refused or stopping, takes  *)
(* neither away (lock.rs: acquire, write_current_pid; main.rs: run).        *)
OneDaemon ==
    \A p \in Running :
        /\ lockFile = p
        /\ \A q \in Running : p = q
        /\ phase[p] = "serving" => socket = p

\* The sightings that count for the table, and for the mirror of p: those
\* written, and those p has heard itself, whether or not their write failed.
Written == {i \in DOMAIN log : log[i].written}
SeenBy(p) == {i \in DOMAIN log : log[i].written \/ i > opened[p]}
Alone(key) == \A s \in Sightings : PrefixOf(s.key) = PrefixOf(key) => s.key = key

(* Across restarts, crashes and failed writes, the table holds for every    *)
(* key exactly what its written sightings say (newest name, last known      *)
(* position, first and last time, their number), and the mirror of a        *)
(* running daemon what they and its own unwritten ones say; a node is       *)
(* announced once, plus once for each write of it that failed               *)
(* (RepeaterDb::upsert, load_all, AppState::upsert_discovered_node).        *)
RestartShowsTheSame ==
    /\ DOMAIN table = {log[i].key : i \in Written}
    /\ \A k \in DOMAIN table : table[k] = Says(log, k, Written)
    /\ \A p \in Running : pending[p] = NoSighting =>
          /\ DOMAIN mirror[p] = {PrefixOf(log[i].key) : i \in SeenBy(p)}
          /\ \A k \in Keys :
                Alone(k) /\ PrefixOf(k) \in DOMAIN mirror[p] =>
                    mirror[p][PrefixOf(k)] = Shown(k, Says(log, k, SeenBy(p)))
    /\ \A k \in Keys :
          announced[k] <= 1 + Cardinality({i \in DOMAIN log :
                                   log[i].key = k /\ ~ log[i].written})
=============================================================================
