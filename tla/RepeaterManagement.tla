------------------------- MODULE RepeaterManagement -------------------------
(***************************************************************************)
(* Which repeaters the companion node knows as contacts, which ones the    *)
(* configuration manages, and what clients are shown.  The mesh task runs  *)
(* the (re)connect passes and the commands that change them, one at a time *)
(* but with awaits in between; the reload watcher swaps the configuration  *)
(* under it, the user edits the file, the node adds contacts by itself,    *)
(* calls to the node fail and the daemon is restarted.                     *)
(*                                                                         *)
(* A node stands for its public key; keys have distinct 12-digit prefixes  *)
(* here.  clean, stalePlan, dirty, missed, behind and acked are history    *)
(* variables.                                                              *)
(***************************************************************************)
EXTENDS Naturals, FiniteSets

CONSTANTS Nodes,        \* repeaters and other contacts
          KeyForms,     \* keys a user writes: TRUE complete, FALSE a prefix
          MaxConnects,  \* bounds: successful connections,
          MaxCommands,  \*   commands of IPC clients,
          MaxReloads,   \*   SIGHUPs,
          MaxEdits,     \*   edits of config.toml,
          MaxRestarts   \*   restarts of the daemon


\* Supervised is treated like Known in every path modelled here.
Tier  == {"managed", "known"}
\* A managed_repeaters entry; full: its key is complete, not just the prefix.
Entry  == [tier : Tier \cup {"none"}, full : BOOLEAN]
Config == [entry : [Nodes -> Entry], observer : BOOLEAN]

NoEntry == [tier |-> "none", full |-> FALSE]
NoConfig == [entry |-> [n \in Nodes |-> NoEntry], observer |-> FALSE]
UserEntry == {NoEntry} \cup [tier : Tier, full : KeyForms]

\* The command being executed, with the tier and the key it asks to persist.
Op == [name : {"none", "status", "add", "remove"}, node : Nodes \cup {"none"},
       tier : Tier \cup {"none"}, full : BOOLEAN]
NoOp == [name |-> "none", node |-> "none", tier |-> "none", full |-> FALSE]

ASSUME ManagementAssumption ==
  /\ "none" \notin Nodes
  /\ KeyForms \subseteq BOOLEAN
  /\ {MaxConnects, MaxCommands, MaxReloads, MaxEdits, MaxRestarts} \subseteq Nat

VARIABLES
  nodeContacts, autoadd, channels,      \* the companion node
  cache,                                \* MeshClient's cached contact list
  discovered,                           \* AppState.discovered_repeaters
  config,                               \* AppState.config
  disk, extent,                         \* config.toml: what it says, what is left of it
  shown,                                \* Snapshot.contacts
  pc, setup, op,                        \* the mesh task
  toPrune, pruned,                      \*   enforce_observer_node_config's locals
  reload, loaded, resyncs,              \* the reload watcher, Resync commands sent
  clean, stalePlan, dirty,              \* history
  missed, behind, acked,
  budget                                \* what is left of the bounds

deviceVars == <<nodeContacts, autoadd, channels>>
fileVars   == <<config, disk, extent>>
taskVars   == <<pc, setup, op, toPrune, pruned>>
reloadVars == <<reload, loaded, resyncs>>
ghosts     == <<clean, stalePlan, dirty, missed, behind, acked>>
vars == <<deviceVars, cache, discovered, fileVars, shown, taskVars, reloadVars, ghosts, budget>>

-----------------------------------------------------------------------------
(* Reading the configuration.                                              *)

IsManaged(cfg, n) == cfg.entry[n].tier # "none"

ManagedSet(cfg) == {n \in Nodes : IsManaged(cfg, n)}

\* Entries declare_contact accepts.
Declarable(cfg) == {n \in ManagedSet(cfg) : cfg.entry[n].full}

\* What a file whose end is missing may say if it still parses.  The entries come
\* last and one after the other, each with its tier at its end; a tier that is not
\* read is "managed", an observer flag that is not read is on.  Any of the entries
\* may be the last ones here: their order in the file is left out.
CutShort(cfg) ==
  LET kept(S) == [n \in Nodes |-> IF n \in S THEN cfg.entry[n] ELSE NoEntry]
  IN {[entry |-> kept({}), observer |-> TRUE]} \cup
     UNION {LET part == [entry |-> kept(S), observer |-> cfg.observer]
            IN {part} \cup {[part EXCEPT !.entry[n].tier = "managed"] : n \in S}
            : S \in SUBSET ManagedSet(cfg)}

\* build_snapshot_contacts over a contact list.
View(contacts, heard, cfg) ==
  [n \in Nodes |->
     IF n \in contacts THEN [where |-> "contact", tier |-> cfg.entry[n].tier]
     ELSE IF n \in heard THEN [where |-> "heard", tier |-> cfg.entry[n].tier]
     ELSE [where |-> "absent", tier |-> "none"]]

\* refresh_snapshot_contacts: a list fetched from the node, or the cached one
\* when the fetch fails.
Refresh ==
  /\ \E contacts \in {nodeContacts', cache'} : shown' = View(contacts, discovered', config')
  /\ dirty' = FALSE

Spend(what) ==
  /\ budget[what] > 0
  /\ budget' = [budget EXCEPT ![what] = @ - 1]

Init ==
  /\ nodeContacts \in SUBSET Nodes /\ autoadd = TRUE /\ channels = TRUE
  /\ cache = {} /\ discovered = {}
  /\ config \in [entry : [Nodes -> UserEntry], observer : BOOLEAN]
  /\ disk = config /\ extent = "whole"
  /\ shown = [n \in Nodes |-> [where |-> "absent", tier |-> "none"]]
  /\ pc = "offline" /\ setup = "none" /\ op = NoOp
  /\ toPrune = {} /\ pruned = FALSE
  /\ reload = "idle" /\ loaded = NoConfig /\ resyncs = 0
  /\ clean = FALSE /\ stalePlan = FALSE /\ dirty = FALSE
  /\ missed = {} /\ behind = {} /\ acked = [n \in Nodes |-> "free"]
  /\ budget = [connect |-> MaxConnects, command |-> MaxCommands, reload |-> MaxReloads,
               edit |-> MaxEdits, restart |-> MaxRestarts]

-----------------------------------------------------------------------------
(* Faulty variants of actions below: bugs the properties tell apart.       *)

\* Only entries of the tier "managed" are declared.
ReconcileManagedOnly ==
  /\ pc = "reconcile"
  /\ LET missing == {n \in Declarable(config) \ cache : config.entry[n].tier = "managed"}
     IN \E done \in SUBSET missing :
          /\ nodeContacts' = nodeContacts \cup done
          /\ clean' = (clean /\ done = missing)
          /\ pc' = IF done = {} THEN "enforce" ELSE "reconciled"
  /\ UNCHANGED <<autoadd, channels, cache, discovered, fileVars, shown, setup, op,
                 toPrune, pruned, reloadVars, stalePlan, dirty, missed, behind, acked, budget>>

\* Only entries of the tier "managed" are protected.
EnforcePlanManagedOnly ==
  /\ pc = "plan"
  /\ toPrune' = cache \ {n \in Nodes : config.entry[n].tier = "managed"}
  /\ pruned' = FALSE /\ stalePlan' = FALSE
  /\ pc' = "prune"
  /\ UNCHANGED <<deviceVars, cache, discovered, fileVars, shown, setup, op,
                 reloadVars, clean, dirty, missed, behind, acked, budget>>

\* Contacts heard on the mesh are spared.
EnforcePlanUnheard ==
  /\ pc = "plan"
  /\ toPrune' = cache \ (ManagedSet(config) \cup discovered)
  /\ pruned' = FALSE /\ stalePlan' = FALSE
  /\ pc' = "prune"
  /\ UNCHANGED <<deviceVars, cache, discovered, fileVars, shown, setup, op,
                 reloadVars, clean, dirty, missed, behind, acked, budget>>

\* The command succeeds without the rebuild.
AnswerUnrefreshed ==
  /\ pc = "refresh"
  /\ pc' = "idle" /\ op' = NoOp
  /\ UNCHANGED <<deviceVars, cache, discovered, fileVars, shown, setup, toPrune, pruned,
                 reloadVars, ghosts, budget>>

\* The enforcement runs without having been asked for.
ResyncUnasked ==
  /\ pc = "idle"
  /\ resyncs' = resyncs - 1
  /\ pc' = "enforce" /\ setup' = "resync" /\ clean' = TRUE
  /\ UNCHANGED <<deviceVars, cache, discovered, fileVars, shown, op, toPrune, pruned,
                 reload, loaded, stalePlan, dirty, missed, behind, acked, budget>>

\* The swap does not wait for the lock, which a save holds.
ReloadApplyUnlocked ==
  /\ reload = "loaded"
  /\ config' = loaded
  /\ reload' = "applied"
  /\ behind' = missed /\ missed' = {}
  /\ clean' = FALSE /\ stalePlan' = (pc = "prune") /\ dirty' = TRUE
  /\ UNCHANGED <<deviceVars, cache, discovered, disk, extent, shown, taskVars, loaded, resyncs,
                 acked, budget>>

-----------------------------------------------------------------------------
(* The mesh task: connection passes.                                       *)

\* MeshClient::connect loads the cache; the snapshot is rebuilt at once.
Connect ==
  /\ pc = "offline" /\ Spend("connect")
  /\ cache' = nodeContacts
  /\ pc' = "reconcile" /\ setup' = "connect" /\ clean' = TRUE
  /\ UNCHANGED <<deviceVars, discovered, fileVars, op, toPrune, pruned,
                 reloadVars, stalePlan, missed, behind, acked>>
  /\ Refresh

\* reconcile_managed_repeaters declares what the cached list lacks.  Entries
\* reduced to a prefix cannot be declared; any other call may fail.
Reconcile ==
  /\ pc = "reconcile"
  /\ LET missing == Declarable(config) \ cache
     IN \E done \in SUBSET missing :
          /\ nodeContacts' = nodeContacts \cup done
          /\ clean' = (clean /\ done = missing)
          /\ pc' = IF done = {} THEN "enforce" ELSE "reconciled"
  /\ UNCHANGED <<autoadd, channels, cache, discovered, fileVars, shown, setup, op,
                 toPrune, pruned, reloadVars, stalePlan, dirty, missed, behind, acked, budget>>

ReconcileRefresh ==
  /\ pc = "reconciled"
  /\ pc' = "enforce"
  /\ UNCHANGED <<deviceVars, cache, discovered, fileVars, setup, op, toPrune, pruned,
                 reloadVars, clean, stalePlan, missed, behind, acked, budget>>
  /\ Refresh

\* The end of a pass: its locals are dropped.
PassOver ==
  /\ pc' = "idle" /\ setup' = "none"
  /\ toPrune' = {} /\ pruned' = FALSE /\ clean' = FALSE /\ stalePlan' = FALSE

\* enforce_observer_node_config: nothing to do, or contact auto-add is turned
\* off and the channels are wiped, each call on its own.
EnforceSkip ==
  /\ pc = "enforce" /\ ~config.observer
  /\ PassOver
  /\ UNCHANGED <<deviceVars, cache, discovered, fileVars, shown, op, reloadVars,
                 dirty, missed, behind, acked, budget>>

EnforceSettings ==
  /\ pc = "enforce" /\ config.observer
  /\ \E failed \in SUBSET {"autoadd", "channels"} :
       /\ autoadd' = (autoadd /\ "autoadd" \in failed)
       /\ channels' = (channels /\ "channels" \in failed)
       /\ clean' = (clean /\ failed = {})
  /\ pc' = "plan"
  /\ UNCHANGED <<nodeContacts, cache, discovered, fileVars, shown, setup, op, toPrune,
                 pruned, reloadVars, stalePlan, dirty, missed, behind, acked, budget>>

\* The managed list is cloned and the cached contacts outside it collected.
EnforcePlan ==
  /\ pc = "plan"
  /\ toPrune' = cache \ ManagedSet(config)
  /\ pruned' = FALSE /\ stalePlan' = FALSE
  /\ pc' = "prune"
  /\ UNCHANGED <<deviceVars, cache, discovered, fileVars, shown, setup, op,
                 reloadVars, clean, dirty, missed, behind, acked, budget>>

\* One remove_contact call of the loop; the node refuses a contact it lacks.
EnforcePrune(n) ==
  /\ pc = "prune" /\ n \in toPrune
  /\ toPrune' = toPrune \ {n}
  /\ \/ /\ n \in nodeContacts
        /\ nodeContacts' = nodeContacts \ {n}
        /\ pruned' = TRUE
        /\ UNCHANGED clean
     \/ /\ clean' = FALSE
        /\ UNCHANGED <<nodeContacts, pruned>>
  /\ UNCHANGED <<autoadd, channels, cache, discovered, fileVars, shown, pc, setup, op,
                 reloadVars, stalePlan, dirty, missed, behind, acked, budget>>

EnforceEnd ==
  /\ pc = "prune" /\ toPrune = {}
  /\ PassOver
  /\ UNCHANGED <<deviceVars, cache, discovered, fileVars, op, reloadVars, missed, behind, acked,
                 budget>>
  /\ IF pruned THEN Refresh ELSE UNCHANGED <<shown, dirty>>

\* Events and commands are only handled between each other, in the select! loop.
Disconnect ==
  /\ pc = "idle"
  /\ pc' = "offline" /\ cache' = {}
  /\ UNCHANGED <<deviceVars, discovered, fileVars, shown, setup, op, toPrune, pruned,
                 reloadVars, ghosts, budget>>

-----------------------------------------------------------------------------
(* The mesh task: events of the node.                                      *)

\* handle_discovered_node: an advertisement overheard with its full key.
Hear(n) ==
  /\ pc = "idle" /\ n \notin discovered
  /\ discovered' = discovered \cup {n}
  /\ UNCHANGED <<deviceVars, cache, fileVars, taskVars, reloadVars,
                 clean, stalePlan, missed, behind, acked, budget>>
  /\ IF n \in cache THEN UNCHANGED <<shown, dirty>> ELSE Refresh

\* NewContact or Advertisement pushed by the node: the snapshot is rebuilt.
\* The push may also make the client library reload its cache.
Push ==
  /\ pc = "idle"
  /\ cache' \in {cache, nodeContacts}
  /\ UNCHANGED <<deviceVars, discovered, fileVars, taskVars, reloadVars,
                 clean, stalePlan, missed, behind, acked, budget>>
  /\ Refresh

-----------------------------------------------------------------------------
(* The mesh task: commands.                                                *)

StartCommand(o, stage) ==
  /\ pc = "idle" /\ Spend("command")
  /\ pc' = stage
  /\ op' = o

\* Answered with an error before anything changed.
Refused == StartCommand(NoOp, "idle") /\ UNCHANGED nodeContacts

\* set_repeater_status up to the registration: a repeater the cache lacks is
\* declared, which takes the full key heard on the mesh.
SetRepeaterStatus(n, tier) ==
  /\ LET o == [name |-> "status", node |-> n, tier |-> tier,
               full |-> tier # "none" /\ n \notin cache]
     IN \/ /\ ~o.full
           /\ StartCommand(o, "persist")
           /\ UNCHANGED nodeContacts
        \/ /\ o.full /\ n \in discovered
           /\ StartCommand(o, "persist")
           /\ nodeContacts' = nodeContacts \cup {n}
        \/ o.full /\ Refused
  /\ UNCHANGED <<autoadd, channels, cache, discovered, fileVars, shown, setup, toPrune, pruned,
                 reloadVars, ghosts>>

\* add_repeater: the full key comes with the command.
AddRepeater(n, managed) ==
  /\ \/ /\ StartCommand([name |-> "add", node |-> n, full |-> TRUE,
                          tier |-> IF managed THEN "managed" ELSE "none"],
                         IF managed THEN "persist" ELSE "refresh")
        /\ nodeContacts' = IF n \in cache THEN nodeContacts ELSE nodeContacts \cup {n}
     \/ n \notin cache /\ Refused
  /\ UNCHANGED <<autoadd, channels, cache, discovered, fileVars, shown, setup, toPrune, pruned,
                 reloadVars, ghosts>>

\* RemoveContact: the prefix is resolved against the cached list.  The
\* configuration is left alone.
RemoveContact(n) ==
  /\ \/ /\ n \in cache \cap nodeContacts
        /\ StartCommand([name |-> "remove", node |-> n, tier |-> "none", full |-> FALSE], "refresh")
        /\ nodeContacts' = nodeContacts \ {n}
     \/ Refused
  /\ UNCHANGED <<autoadd, channels, cache, discovered, fileVars, shown, setup, toPrune, pruned,
                 reloadVars, ghosts>>

\* The handler is done.
Answer == pc' = "idle" /\ op' = NoOp

\* upsert_managed_repeater_config: the entry a command leaves behind.
Upserted(cfg, o) ==
  [cfg EXCEPT !.entry[o.node] =
     IF o.tier = "none" THEN NoEntry
     ELSE [tier |-> o.tier, full |-> o.full \/ cfg.entry[o.node].full]]

\* The entry is changed in memory, then save_to truncates the file and writes
\* it.  The lock on the configuration is held until the save is over.
SaveBegins ==
  /\ pc = "persist"
  /\ config' = Upserted(config, op)
  /\ extent' = "torn"
  /\ pc' = "saving"
  /\ UNCHANGED <<deviceVars, cache, discovered, disk, shown, setup, op, toPrune, pruned,
                 reloadVars, ghosts, budget>>

\* The file cannot be opened: an error, but the memory keeps the change.
SaveRefused ==
  /\ pc = "persist"
  /\ config' = Upserted(config, op)
  /\ acked' = [acked EXCEPT ![op.node] = "free"]
  /\ dirty' = TRUE
  /\ Answer
  /\ UNCHANGED <<deviceVars, cache, discovered, disk, extent, shown, setup, toPrune, pruned,
                 reloadVars, clean, stalePlan, missed, behind, budget>>

\* The file now says what the memory does: a tier the memory has lost is lost in
\* both.  A reload that has read the file before will not know of this one.
SaveSucceeds ==
  /\ pc = "saving"
  /\ disk' = config /\ extent' = "whole"
  /\ acked' = [n \in Nodes |-> IF n = op.node THEN op.tier
                              ELSE IF n \in behind THEN "free" ELSE acked[n]]
  /\ behind' = {}
  /\ missed' = IF reload = "loaded" THEN missed \cup {op.node} ELSE missed
  /\ pc' = "refresh"
  /\ UNCHANGED <<deviceVars, cache, discovered, config, shown, setup, op, toPrune, pruned,
                 reloadVars, clean, stalePlan, dirty, budget>>

\* A write that does not come to its end leaves the beginning of the file, which
\* may parse or not.
LeaveUnfinished ==
  \/ extent' = "torn" /\ UNCHANGED disk
  \/ extent' = "part" /\ disk' \in CutShort(config)

\* The file cannot be written.
SaveFails ==
  /\ pc = "saving"
  /\ LeaveUnfinished
  /\ acked' = [acked EXCEPT ![op.node] = "free"]
  /\ dirty' = TRUE
  /\ Answer
  /\ UNCHANGED <<deviceVars, cache, discovered, config, shown, setup, toPrune, pruned,
                 reloadVars, clean, stalePlan, missed, behind, budget>>

\* The snapshot is rebuilt and the command succeeds.
RefreshAnswer ==
  /\ pc = "refresh"
  /\ Answer
  /\ UNCHANGED <<deviceVars, cache, discovered, fileVars, setup, toPrune, pruned,
                 reloadVars, clean, stalePlan, missed, behind, acked, budget>>
  /\ Refresh

ResyncObserverConfig ==
  /\ pc = "idle" /\ resyncs > 0
  /\ resyncs' = resyncs - 1
  /\ pc' = "enforce" /\ setup' = "resync" /\ clean' = TRUE
  /\ UNCHANGED <<deviceVars, cache, discovered, fileVars, shown, op, toPrune, pruned,
                 reload, loaded, stalePlan, dirty, missed, behind, acked, budget>>

-----------------------------------------------------------------------------
(* The reload watcher.                                                     *)

\* reload_once reads the file, and gives up if it does not parse.  It holds no
\* lock: it may find a save half done.
ReloadLoad ==
  /\ reload = "idle" /\ pc # "down" /\ Spend("reload")
  /\ \/ /\ extent # "torn"
        /\ loaded' = disk /\ missed' = IF extent = "part" THEN Nodes ELSE {}
        /\ reload' = "loaded"
     \/ /\ pc = "saving"
        /\ loaded' \in CutShort(config) /\ missed' = Nodes
        /\ reload' = "loaded"
     \/ /\ extent = "torn"
        /\ UNCHANGED <<loaded, reload, missed>>
  /\ UNCHANGED <<deviceVars, cache, discovered, fileVars, shown, taskVars, resyncs,
                 clean, stalePlan, dirty, behind, acked>>

\* ... and, when the lock is free, swaps it in.
ReloadApply ==
  /\ reload = "loaded" /\ pc # "saving"
  /\ config' = loaded
  /\ reload' = "applied"
  /\ behind' = missed /\ missed' = {}
  /\ clean' = FALSE /\ stalePlan' = (pc = "prune") /\ dirty' = TRUE
  /\ UNCHANGED <<deviceVars, cache, discovered, disk, extent, shown, taskVars, loaded, resyncs,
                 acked, budget>>

\* ResyncObserverConfig is sent if the flag is on, then ConfigReloaded broadcast.
ReloadDone ==
  /\ reload = "applied"
  /\ reload' = "idle"
  /\ resyncs' = IF loaded.observer THEN resyncs + 1 ELSE resyncs
  /\ loaded' = NoConfig
  /\ UNCHANGED <<deviceVars, cache, discovered, fileVars, shown, taskVars, ghosts, budget>>

-----------------------------------------------------------------------------
(* The environment: the node, the user, restarts.                          *)

\* The node adds a contact it overheard; the push is handled by Push.
AutoAdd(n) ==
  /\ autoadd /\ n \notin nodeContacts
  /\ nodeContacts' = nodeContacts \cup {n}
  /\ UNCHANGED <<autoadd, channels, cache, discovered, fileVars, shown, taskVars, reloadVars,
                 ghosts, budget>>

\* While disconnected the node may be reset or set up by another application.
NodeChanges ==
  /\ pc \in {"offline", "down"}
  /\ nodeContacts' \in SUBSET Nodes
  /\ autoadd' \in {autoadd, TRUE} /\ channels' \in {channels, TRUE}
  /\ UNCHANGED <<cache, discovered, fileVars, shown, taskVars, reloadVars, ghosts, budget>>

\* The user rewrites an entry or the observer flag, or the whole of a torn file.
UserEdit(n) ==
  /\ pc # "saving" /\ Spend("edit")
  /\ \/ \E e \in UserEntry : disk' = [disk EXCEPT !.entry[n] = e]
     \/ disk' = [disk EXCEPT !.observer = ~@]
  /\ extent' = IF extent = "torn" THEN "whole" ELSE extent
  /\ acked' = IF extent = "torn" THEN [m \in Nodes |-> "free"] ELSE [acked EXCEPT ![n] = "free"]
  /\ UNCHANGED <<deviceVars, cache, discovered, config, shown, taskVars, reloadVars,
                 clean, stalePlan, dirty, missed, behind>>

\* The daemon stops anywhere.
Stop ==
  /\ pc # "down" /\ Spend("restart")
  /\ IF pc = "saving" THEN LeaveUnfinished ELSE UNCHANGED <<disk, extent>>
  /\ pc' = "down" /\ setup' = "none" /\ op' = NoOp
  /\ toPrune' = {} /\ pruned' = FALSE /\ clean' = FALSE /\ stalePlan' = FALSE
  /\ reload' = "idle" /\ loaded' = NoConfig /\ missed' = {} /\ resyncs' = 0
  /\ cache' = {}
  /\ UNCHANGED <<deviceVars, discovered, config, shown, dirty, behind, acked>>

\* It starts from the file, if it parses, and from the database of nodes heard.
Start ==
  /\ pc = "down" /\ extent # "torn"
  /\ pc' = "offline"
  /\ config' = disk
  /\ behind' = IF extent = "part" THEN Nodes ELSE {}
  /\ shown' = View({}, {}, disk)
  /\ dirty' = FALSE
  /\ UNCHANGED <<deviceVars, cache, discovered, disk, extent, setup, op, toPrune, pruned,
                 reloadVars, clean, stalePlan, missed, acked, budget>>

-----------------------------------------------------------------------------
Setup ==
  \/ Connect \/ Reconcile \/ ReconcileRefresh
  \/ EnforceSkip \/ EnforceSettings \/ EnforcePlan \/ EnforceEnd
  \/ \E n \in Nodes : EnforcePrune(n)
  \/ Disconnect

Commands ==
  \/ \E n \in Nodes, tier \in Tier \cup {"none"} : SetRepeaterStatus(n, tier)
  \/ \E n \in Nodes, managed \in BOOLEAN : AddRepeater(n, managed)
  \/ \E n \in Nodes : RemoveContact(n)
  \/ SaveBegins \/ SaveRefused \/ SaveSucceeds \/ SaveFails \/ RefreshAnswer
  \/ ResyncObserverConfig

Reloads == ReloadLoad \/ ReloadApply \/ ReloadDone

Environment ==
  \/ \E n \in Nodes : Hear(n) \/ AutoAdd(n) \/ UserEdit(n)
  \/ Push \/ NodeChanges \/ Stop \/ Start

Next == Setup \/ Commands \/ Reloads \/ Environment

Spec == Init /\ [][Next]_vars

-----------------------------------------------------------------------------
(* Properties.                                                             *)

\* Every variable has the type the code gives it.
TypeOK ==
  /\ nodeContacts \subseteq Nodes /\ cache \subseteq Nodes /\ discovered \subseteq Nodes
  /\ {autoadd, channels, pruned, clean, stalePlan, dirty} \subseteq BOOLEAN
  /\ extent \in {"whole", "part", "torn"}
  /\ missed \subseteq Nodes /\ behind \subseteq Nodes
  /\ {config, disk, loaded} \subseteq Config
  /\ shown \in [Nodes -> [where : {"absent", "contact", "heard"}, tier : Tier \cup {"none"}]]
  /\ pc \in {"down", "offline", "reconcile", "reconciled", "enforce", "plan", "prune",
             "idle", "persist", "saving", "refresh"}
  /\ setup \in {"none", "connect", "resync"}
  /\ op \in Op
  /\ toPrune \subseteq Nodes
  /\ reload \in {"idle", "loaded", "applied"} /\ resyncs \in Nat
  /\ acked \in [Nodes -> Tier \cup {"none", "free"}]
  /\ budget \in [{"connect", "command", "reload", "edit", "restart"} -> Nat]

\* A tier a client was told is set is the one in memory and in the file, whatever
\* fails, restarts or is reloaded since (upsert_managed_repeater_config,
\* reload_once), unless the user rewrote the entry.  The file loses it only while
\* it is torn or cut short by a write that did not come to its end.  The memory
\* loses it only to such a file, or to a reload that had read the file before the
\* tier was saved and was swapped in after (behind): until the next reload, and
\* for good when the next save writes that memory.
AckedKept ==
  \A n \in Nodes : acked[n] # "free" =>
    /\ pc = "down" \/ (pc = "saving" /\ op.node = n) \/ n \in behind
       \/ config.entry[n].tier = acked[n]
    /\ extent # "whole" \/ disk.entry[n].tier = acked[n]

\* The tier clients see is the configured one, except while a command is on its
\* way to the rebuild, or since a reload or a failed save: none of those two
\* rebuilds the snapshot (refresh_snapshot_contacts).
ShownTiers ==
  dirty \/ pc \in {"down", "saving", "refresh"} \/
    \A n \in Nodes : shown[n].where # "absent" => shown[n].tier = config.entry[n].tier

\* A connection pass in which no call failed and no reload intervened leaves
\* every entry with a complete key known to the node
\* (reconcile_managed_repeaters, enforce_observer_node_config).
HealedAfterConnect ==
  [][setup = "connect" /\ clean /\ pc' = "idle" => Declarable(config') \subseteq nodeContacts']_vars

\* An enforcement pass in which nothing failed ends with contact auto-add off,
\* no channel, and no unmanaged contact left of the cached list.
LockedDown ==
  [][pc = "prune" /\ pc' = "idle" /\ clean =>
       ~autoadd' /\ ~channels' /\ nodeContacts' \cap cache \subseteq ManagedSet(config')]_vars

\* Pruning removes a contact the configuration manages only if a reload made it
\* managed after the list was cloned (contacts_to_prune).
ManagedSurvives ==
  [][pc = "prune" /\ ~stalePlan => ManagedSet(config) \cap nodeContacts \subseteq nodeContacts']_vars

=============================================================================
