------------------------ MODULE ConfigurationProofs ------------------------
(***************************************************************************)
(* What holds of the two programs that write config.toml, for any nodes,   *)
(* names, files and bounds.                                                *)
(*                                                                         *)
(* The daemon (RepeaterManagement): every variable keeps its type, an      *)
(* acknowledged tier is kept in memory and in the file, clients see the    *)
(* configured tiers, and the passes of a connection heal the node, lock it *)
(* down and spare what is managed. The first invariant adds what a save in *)
(* progress and a file just read say of the acknowledged tiers; the second *)
(* follows a pass from the cloned list to its end.                         *)
(*                                                                         *)
(* The wizard (Wizard): the editor's cursor stays on its outline, what     *)
(* Enter saves is the tree on the screen, a deleted region gives its       *)
(* children to its parent, and a save keeps what was not asked. The tree   *)
(* read back is followed call by call: the regions whose calls are to come *)
(* are apart from those placed, and of a well nested outline they are the  *)
(* rows at the edge of what is placed, in their order.                     *)
(***************************************************************************)
EXTENDS RepeaterManagement, Wizard, TLAPS, SequenceTheorems, FiniteSetTheorems,
        WellFoundedInduction

Stages == {"down", "offline", "reconcile", "reconciled", "enforce", "plan", "prune",
           "idle", "persist", "saving", "refresh"}
Seen   == [where : {"absent", "contact", "heard"}, tier : Tier \cup {"none"}]
Bounds == {"connect", "command", "reload", "edit", "restart"}

(* TypeOK, by the action groups that disturb the variables.                *)
FlagsOK  == /\ autoadd \in BOOLEAN /\ channels \in BOOLEAN /\ extent \in {"whole", "part", "torn"}
            /\ pruned \in BOOLEAN /\ clean \in BOOLEAN /\ stalePlan \in BOOLEAN
            /\ dirty \in BOOLEAN
SetsOK   == /\ nodeContacts \subseteq Nodes /\ cache \subseteq Nodes
            /\ discovered \subseteq Nodes /\ toPrune \subseteq Nodes
            /\ missed \subseteq Nodes /\ behind \subseteq Nodes
ConfigOK == config \in Config /\ disk \in Config /\ loaded \in Config
ShownOK  == shown \in [Nodes -> Seen]
TaskOK   == /\ pc \in Stages /\ setup \in {"none", "connect", "resync"} /\ op \in Op
            /\ reload \in {"idle", "loaded", "applied"} /\ resyncs \in Nat
GhostOK  == acked \in [Nodes -> Tier \cup {"none", "free"}] /\ budget \in [Bounds -> Nat]

Typed == FlagsOK /\ SetsOK /\ ConfigOK /\ ShownOK /\ TaskOK /\ GhostOK

\* A command about to be saved names a repeater.
SavePending == pc \in {"persist", "saving"} => op.node \in Nodes

\* While a save is on its way the file is truncated, and the memory holds what will
\* be acknowledged.
SaveOnItsWay ==
  pc = "saving" => extent = "torn" /\ config.entry[op.node].tier = op.tier

\* What a reload has read and not yet applied agrees with the acknowledged tiers it
\* does not miss.
LoadedAgrees ==
  reload = "loaded" =>
    \A n \in Nodes : acked[n] # "free" /\ n \notin missed => loaded.entry[n].tier = acked[n]

IInv == Typed /\ SavePending /\ SaveOnItsWay /\ LoadedAgrees /\ AckedKept

-----------------------------------------------------------------------------
\* The parts of Typed are TypeOK (the types the code gives each variable).
LEMMA TypedIsTypeOK == Typed <=> TypeOK
  BY DEF Typed, TypeOK, FlagsOK, SetsOK, ConfigOK, ShownOK, TaskOK, GhostOK, Stages, Seen, Bounds

\* A snapshot rebuilt from a configuration is a snapshot (build_snapshot_contacts).
LEMMA ViewFacts ==
  ASSUME NEW contacts, NEW heard, NEW cfg \in Config
  PROVE  View(contacts, heard, cfg) \in [Nodes -> Seen]
  BY DEF View, Seen, Config, Entry

\* The empty configuration is a configuration.
LEMMA NoConfigFacts == NoConfig \in Config /\ NoEntry \in Entry
  BY DEF NoConfig, NoEntry, Config, Entry, Tier

\* NoOp and the commands of clients are operations.
LEMMA OpFacts ==
  ASSUME NEW n \in Nodes, NEW t \in Tier \cup {"none"}, NEW f \in BOOLEAN,
         NEW s \in {"status", "add", "remove"}
  PROVE  [name |-> s, node |-> n, tier |-> t, full |-> f] \in Op
  BY DEF Op

LEMMA NoOpFacts == NoOp \in Op
  BY DEF NoOp, Op

\* Spending leaves the bounds natural numbers.
LEMMA SpendFacts ==
  ASSUME NEW what \in Bounds, GhostOK, Spend(what)
  PROVE  budget' \in [Bounds -> Nat]
  <1>1. budget[what] \in Nat /\ budget[what] > 0
    BY DEF GhostOK, Spend
  <1>2. budget[what] - 1 \in Nat
    BY <1>1
  <1> QED
    BY <1>2 DEF GhostOK, Spend

\* A rebuild gives the snapshot its type.
LEMMA RefreshFacts ==
  ASSUME Refresh, config' \in Config
  PROVE  shown' \in [Nodes -> Seen] /\ dirty' \in BOOLEAN
  <1>1. PICK contacts \in {nodeContacts', cache'} : shown' = View(contacts, discovered', config')
    BY DEF Refresh
  <1>2. View(contacts, discovered', config') \in [Nodes -> Seen]
    BY ViewFacts
  <1> QED
    BY <1>1, <1>2 DEF Refresh

\* Writing an entry gives a configuration; it holds the tier that was asked
\* for, and the other entries are as they were (upsert_managed_repeater_config).
LEMMA UpsertedFacts ==
  ASSUME NEW cfg \in Config, NEW o \in Op, o.node \in Nodes
  PROVE  /\ Upserted(cfg, o) \in Config
         /\ Upserted(cfg, o).entry[o.node].tier = o.tier
         /\ \A n \in Nodes : n # o.node => Upserted(cfg, o).entry[n] = cfg.entry[n]
  <1> DEFINE e == IF o.tier = "none" THEN NoEntry
                  ELSE [tier |-> o.tier, full |-> o.full \/ cfg.entry[o.node].full]
  <1>1. cfg.entry \in [Nodes -> Entry] /\ cfg.observer \in BOOLEAN
    BY DEF Config
  <1>2. o.tier \in Tier \cup {"none"} /\ o.full \in BOOLEAN
    BY DEF Op
  <1>3. o.full \/ cfg.entry[o.node].full \in BOOLEAN
    BY <1>1, <1>2 DEF Entry
  <1>4. e \in Entry /\ e.tier = o.tier
    BY <1>2, <1>3, NoConfigFacts DEF Entry, NoEntry
  <1>5. Upserted(cfg, o) = [cfg EXCEPT !.entry = [cfg.entry EXCEPT ![o.node] = e]]
    BY <1>1 DEF Upserted, Config
  <1> HIDE DEF e
  <1>6. [cfg.entry EXCEPT ![o.node] = e] \in [Nodes -> Entry]
    BY <1>1, <1>4
  <1>7. Upserted(cfg, o).entry = [cfg.entry EXCEPT ![o.node] = e] /\ Upserted(cfg, o) \in Config
    BY <1>5, <1>6 DEF Config
  <1> QED
    BY <1>1, <1>4, <1>7

\* What a file cut short says is a configuration (Config, serde defaults).
LEMMA CutFacts ==
  ASSUME NEW cfg \in Config
  PROVE  CutShort(cfg) \subseteq Config
  <1> DEFINE kept(S) == [n \in Nodes |-> IF n \in S THEN cfg.entry[n] ELSE NoEntry]
             part(S) == [entry |-> kept(S), observer |-> cfg.observer]
  <1>1. cfg.entry \in [Nodes -> Entry] /\ cfg.observer \in BOOLEAN
    BY DEF Config
  <1>2. ASSUME NEW S PROVE kept(S) \in [Nodes -> Entry]
    BY <1>1, NoConfigFacts
  <1>3. ASSUME NEW S, NEW n \in Nodes PROVE [kept(S) EXCEPT ![n].tier = "managed"] \in [Nodes -> Entry]
    <2>1. [kept(S)[n] EXCEPT !.tier = "managed"] \in Entry
      BY <1>2 DEF Entry, Tier
    <2> HIDE DEF kept
    <2> QED
      BY <1>2, <2>1
  <1>4. ASSUME NEW S, NEW n \in Nodes
        PROVE  [part(S) EXCEPT !.entry[n].tier = "managed"] \in Config
    <2> HIDE DEF kept
    <2>1. [part(S) EXCEPT !.entry[n].tier = "managed"]
            = [entry |-> [kept(S) EXCEPT ![n].tier = "managed"], observer |-> cfg.observer]
      OBVIOUS
    <2> QED
      BY <1>1, <1>3, <2>1 DEF Config
  <1>5. ASSUME NEW S PROVE part(S) \in Config
    BY <1>1, <1>2 DEF Config
  <1>6. [entry |-> kept({}), observer |-> TRUE] \in Config
    <2>1. kept({}) \in [Nodes -> Entry]
      BY NoConfigFacts
    <2> HIDE DEF kept
    <2> QED
      BY <2>1 DEF Config
  <1>7. ManagedSet(cfg) \subseteq Nodes
    BY DEF ManagedSet
  <1>8. CutShort(cfg) = {[entry |-> kept({}), observer |-> TRUE]} \cup
          UNION {{part(S)} \cup {[part(S) EXCEPT !.entry[n].tier = "managed"] : n \in S}
                 : S \in SUBSET ManagedSet(cfg)}
    BY DEF CutShort
  <1> HIDE DEF kept, part
  <1> SUFFICES ASSUME NEW c \in CutShort(cfg) PROVE c \in Config
    OBVIOUS
  <1>9. \/ c = [entry |-> kept({}), observer |-> TRUE]
        \/ \E S \in SUBSET ManagedSet(cfg) :
              c = part(S) \/ \E n \in S : c = [part(S) EXCEPT !.entry[n].tier = "managed"]
    BY <1>8
  <1>10. CASE c = [entry |-> kept({}), observer |-> TRUE]
    BY <1>6, <1>10
  <1>11. ASSUME NEW S \in SUBSET ManagedSet(cfg), c = part(S) PROVE c \in Config
    BY <1>5, <1>11
  <1>12. ASSUME NEW S \in SUBSET ManagedSet(cfg), NEW n \in S,
                c = [part(S) EXCEPT !.entry[n].tier = "managed"]
         PROVE  c \in Config
    BY <1>4, <1>7, <1>12
  <1> QED
    BY <1>9, <1>10, <1>11, <1>12

\* A write that does not come to its end leaves a configuration, and no whole file.
LEMMA UnfinishedFacts ==
  ASSUME Typed, LeaveUnfinished
  PROVE  disk' \in Config /\ extent' \in {"part", "torn"}
  BY CutFacts DEF LeaveUnfinished, Typed, ConfigOK

-----------------------------------------------------------------------------
\* The initial states satisfy the inductive invariant.
LEMMA InitIInv == ManagementAssumption /\ Init => IInv
  <1> SUFFICES ASSUME ManagementAssumption, Init PROVE IInv
    OBVIOUS
  <1>1. UserEntry \subseteq Entry
    BY NoConfigFacts DEF UserEntry, Entry, ManagementAssumption
  <1>2. config \in Config
    BY <1>1 DEF Init, Config
  <1>3. ConfigOK
    BY <1>2, NoConfigFacts DEF ConfigOK, Init
  <1>4. ShownOK
    BY DEF ShownOK, Init, Seen
  <1>5. TaskOK
    BY NoOpFacts DEF TaskOK, Init, Stages
  <1>6. acked \in [Nodes -> Tier \cup {"none", "free"}]
    BY DEF Init
  <1>7. budget \in [Bounds -> Nat]
    BY DEF Init, Bounds, ManagementAssumption
  <1>8. FlagsOK /\ SetsOK
    BY DEF FlagsOK, SetsOK, Init
  <1>9. SavePending /\ SaveOnItsWay /\ LoadedAgrees /\ AckedKept
    BY DEF SavePending, SaveOnItsWay, LoadedAgrees, AckedKept, Init
  <1> QED
    BY <1>3, <1>4, <1>5, <1>6, <1>7, <1>8, <1>9 DEF IInv, Typed, GhostOK

\* The connection passes keep the types.
LEMMA SetupTyped ==
  ASSUME Typed, Setup
  PROVE  Typed'
  <1> USE DEF Stages
  <1>1. CASE Connect
    <2>1. config' \in Config /\ budget' \in [Bounds -> Nat]
      BY <1>1, SpendFacts DEF Typed, ConfigOK, Connect, fileVars, Bounds
    <2>2. Refresh
      BY <1>1 DEF Connect
    <2>3. shown' \in [Nodes -> Seen] /\ dirty' \in BOOLEAN
      BY <2>1, <2>2, RefreshFacts
    <2> QED
      BY <1>1, <2>1, <2>3 DEF Connect, Typed, FlagsOK, SetsOK, ConfigOK, ShownOK, TaskOK, GhostOK,
         deviceVars, fileVars, reloadVars
  <1>2. CASE Reconcile
    BY <1>2 DEF Reconcile, Typed, FlagsOK, SetsOK, ConfigOK, ShownOK, TaskOK, GhostOK,
       fileVars, reloadVars, Declarable, ManagedSet
  <1>3. CASE ReconcileRefresh
    <2>1. config' \in Config /\ Refresh
      BY <1>3 DEF Typed, ConfigOK, ReconcileRefresh, fileVars
    <2>2. shown' \in [Nodes -> Seen] /\ dirty' \in BOOLEAN
      BY <2>1, RefreshFacts
    <2> QED
      BY <1>3, <2>2 DEF ReconcileRefresh, Typed, FlagsOK, SetsOK, ConfigOK, ShownOK, TaskOK,
         GhostOK, deviceVars, fileVars, reloadVars
  <1>4. CASE EnforceSkip
    BY <1>4 DEF EnforceSkip, PassOver, Typed, FlagsOK, SetsOK, ConfigOK, ShownOK, TaskOK, GhostOK,
       deviceVars, fileVars, reloadVars
  <1>5. CASE EnforceSettings
    BY <1>5 DEF EnforceSettings, Typed, FlagsOK, SetsOK, ConfigOK, ShownOK, TaskOK, GhostOK,
       fileVars, reloadVars
  <1>6. CASE EnforcePlan
    BY <1>6 DEF EnforcePlan, Typed, FlagsOK, SetsOK, ConfigOK, ShownOK, TaskOK, GhostOK,
       deviceVars, fileVars, reloadVars
  <1>7. CASE \E n \in Nodes : EnforcePrune(n)
    BY <1>7, ZenonT(30) DEF EnforcePrune, Typed, FlagsOK, SetsOK, ConfigOK, ShownOK, TaskOK,
       GhostOK, fileVars, reloadVars
  <1>8. CASE EnforceEnd
    <2>1. config' \in Config
      BY <1>8 DEF Typed, ConfigOK, EnforceEnd, fileVars
    <2>2. shown' \in [Nodes -> Seen] /\ dirty' \in BOOLEAN
      BY <1>8, <2>1, RefreshFacts DEF EnforceEnd, Typed, ShownOK, FlagsOK
    <2> QED
      BY <1>8, <2>2 DEF EnforceEnd, PassOver, Typed, FlagsOK, SetsOK, ConfigOK, ShownOK, TaskOK,
         GhostOK, deviceVars, fileVars, reloadVars
  <1>9. CASE Disconnect
    BY <1>9 DEF Disconnect, Typed, FlagsOK, SetsOK, ConfigOK, ShownOK, TaskOK, GhostOK,
       deviceVars, fileVars, reloadVars, ghosts
  <1> QED
    BY <1>1, <1>2, <1>3, <1>4, <1>5, <1>6, <1>7, <1>8, <1>9 DEF Setup

\* Starting a command keeps the types.
LEMMA StartFacts ==
  ASSUME NEW o \in Op, NEW stage \in Stages, StartCommand(o, stage), Typed
  PROVE  /\ pc = "idle" /\ pc' \in Stages /\ op' \in Op /\ budget' \in [Bounds -> Nat]
         /\ pc' = stage /\ op' = o
  BY SpendFacts DEF StartCommand, Typed, Bounds

\* What the three commands do to the types, from what they write.
LEMMA CommandFrame ==
  ASSUME Typed, nodeContacts' \subseteq Nodes, pc' \in Stages, op' \in Op,
         budget' \in [Bounds -> Nat],
         UNCHANGED <<autoadd, channels, cache, discovered, fileVars, shown, setup, toPrune, pruned,
                     reloadVars, ghosts>>
  PROVE  Typed'
  BY DEF Typed, FlagsOK, SetsOK, ConfigOK, ShownOK, TaskOK, GhostOK, fileVars, reloadVars, ghosts

\* Refusing a command leaves the task idle.
LEMMA RefusedFacts ==
  ASSUME Typed, Refused
  PROVE  /\ pc = "idle" /\ pc' = "idle" /\ op' \in Op /\ budget' \in [Bounds -> Nat]
         /\ nodeContacts' \subseteq Nodes
  <1>1. StartCommand(NoOp, "idle") /\ "idle" \in Stages
    BY DEF Refused, Stages
  <1> QED
    BY <1>1, NoOpFacts, StartFacts DEF Refused, Typed, SetsOK

\* How a command of a client starts: the types are kept, and a command on its
\* way to a save names a repeater.
CommandStarted == /\ Typed' /\ pc = "idle" /\ pc' \in {"idle", "persist", "refresh"}
                  /\ (pc' = "persist" => op'.node \in Nodes)

LEMMA StatusStarts ==
  ASSUME Typed, NEW n \in Nodes, NEW tier \in Tier \cup {"none"}, SetRepeaterStatus(n, tier)
  PROVE  CommandStarted
  <1> DEFINE o == [name |-> "status", node |-> n, tier |-> tier,
                   full |-> tier # "none" /\ n \notin cache]
  <1>1. o \in Op /\ o.node = n
    BY OpFacts
  <1>2. "persist" \in Stages
    BY DEF Stages
  <1>3. \/ StartCommand(o, "persist") /\ nodeContacts' \in {nodeContacts, nodeContacts \cup {n}}
        \/ Refused
    BY DEF SetRepeaterStatus
  <1>4. UNCHANGED <<autoadd, channels, cache, discovered, fileVars, shown, setup, toPrune, pruned,
                    reloadVars, ghosts>>
    BY DEF SetRepeaterStatus
  <1> HIDE DEF o
  <1>5. CASE StartCommand(o, "persist") /\ nodeContacts' \in {nodeContacts, nodeContacts \cup {n}}
    <2>1. nodeContacts' \subseteq Nodes
      BY <1>5 DEF Typed, SetsOK
    <2>2. /\ pc = "idle" /\ pc' = "persist" /\ op' = o /\ budget' \in [Bounds -> Nat]
      BY <1>1, <1>2, <1>5, StartFacts
    <2>3. Typed'
      BY <1>1, <1>2, <1>4, <2>1, <2>2, CommandFrame
    <2> QED
      BY <1>1, <2>2, <2>3 DEF CommandStarted
  <1>6. CASE Refused
    <2>1. /\ pc = "idle" /\ pc' = "idle" /\ op' \in Op /\ budget' \in [Bounds -> Nat]
          /\ nodeContacts' \subseteq Nodes
      BY <1>6, RefusedFacts
    <2>2. Typed'
      BY <1>4, <2>1, CommandFrame DEF Stages
    <2> QED
      BY <2>1, <2>2 DEF CommandStarted
  <1> QED
    BY <1>3, <1>5, <1>6

LEMMA AddStarts ==
  ASSUME Typed, NEW n \in Nodes, NEW managed \in BOOLEAN, AddRepeater(n, managed)
  PROVE  CommandStarted
  <1> DEFINE o == [name |-> "add", node |-> n, full |-> TRUE,
                   tier |-> IF managed THEN "managed" ELSE "none"]
             stage == IF managed THEN "persist" ELSE "refresh"
  <1>1. o \in Op /\ o.node = n
    BY DEF Op, Tier
  <1>2. stage \in Stages /\ stage \in {"persist", "refresh"}
    BY DEF Stages
  <1>3. \/ StartCommand(o, stage) /\ nodeContacts' \in {nodeContacts, nodeContacts \cup {n}}
        \/ Refused
    BY DEF AddRepeater
  <1>4. UNCHANGED <<autoadd, channels, cache, discovered, fileVars, shown, setup, toPrune, pruned,
                    reloadVars, ghosts>>
    BY DEF AddRepeater
  <1> HIDE DEF o, stage
  <1>5. CASE StartCommand(o, stage) /\ nodeContacts' \in {nodeContacts, nodeContacts \cup {n}}
    <2>1. nodeContacts' \subseteq Nodes
      BY <1>5 DEF Typed, SetsOK
    <2>2. /\ pc = "idle" /\ pc' = stage /\ op' = o /\ budget' \in [Bounds -> Nat]
      BY <1>1, <1>2, <1>5, StartFacts
    <2>3. Typed'
      BY <1>1, <1>2, <1>4, <2>1, <2>2, CommandFrame
    <2> QED
      BY <1>1, <1>2, <2>2, <2>3 DEF CommandStarted
  <1>6. CASE Refused
    <2>1. /\ pc = "idle" /\ pc' = "idle" /\ op' \in Op /\ budget' \in [Bounds -> Nat]
          /\ nodeContacts' \subseteq Nodes
      BY <1>6, RefusedFacts
    <2>2. Typed'
      BY <1>4, <2>1, CommandFrame DEF Stages
    <2> QED
      BY <2>1, <2>2 DEF CommandStarted
  <1> QED
    BY <1>3, <1>5, <1>6

LEMMA RemoveStarts ==
  ASSUME Typed, NEW n \in Nodes, RemoveContact(n)
  PROVE  CommandStarted
  <1> DEFINE o == [name |-> "remove", node |-> n, tier |-> "none", full |-> FALSE]
  <1>1. o \in Op
    BY OpFacts
  <1>2. \/ StartCommand(o, "refresh") /\ nodeContacts' = nodeContacts \ {n}
        \/ Refused
    BY DEF RemoveContact
  <1>3. UNCHANGED <<autoadd, channels, cache, discovered, fileVars, shown, setup, toPrune, pruned,
                    reloadVars, ghosts>>
    BY DEF RemoveContact
  <1> HIDE DEF o
  <1>4. CASE StartCommand(o, "refresh") /\ nodeContacts' = nodeContacts \ {n}
    <2>1. nodeContacts' \subseteq Nodes /\ "refresh" \in Stages
      BY <1>4 DEF Typed, SetsOK, Stages
    <2>2. /\ pc = "idle" /\ pc' = "refresh" /\ op' = o /\ budget' \in [Bounds -> Nat]
      BY <1>1, <1>4, <2>1, StartFacts
    <2>3. Typed'
      BY <1>1, <1>3, <2>1, <2>2, CommandFrame
    <2> QED
      BY <2>2, <2>3 DEF CommandStarted
  <1>5. CASE Refused
    <2>1. /\ pc = "idle" /\ pc' = "idle" /\ op' \in Op /\ budget' \in [Bounds -> Nat]
          /\ nodeContacts' \subseteq Nodes
      BY <1>5, RefusedFacts
    <2>2. Typed'
      BY <1>3, <2>1, CommandFrame DEF Stages
    <2> QED
      BY <2>1, <2>2 DEF CommandStarted
  <1> QED
    BY <1>2, <1>4, <1>5

-----------------------------------------------------------------------------
\* Saving, answering and the enforcement a reload asks for keep the types.
LEMMA SavingTyped ==
  ASSUME Typed, SavePending,
         SaveBegins \/ SaveRefused \/ SaveSucceeds \/ SaveFails \/ RefreshAnswer
           \/ ResyncObserverConfig
  PROVE  Typed'
  <1> USE DEF Stages
  <1>1. CASE SaveBegins
    <2>1. config' \in Config
      BY <1>1, UpsertedFacts DEF SaveBegins, SavePending, Typed, ConfigOK, TaskOK
    <2> QED
      BY <1>1, <2>1 DEF SaveBegins, Typed, FlagsOK, SetsOK, ConfigOK, ShownOK, TaskOK, GhostOK,
         deviceVars, reloadVars, ghosts
  <1>2. CASE SaveRefused
    <2>1. config' \in Config
      BY <1>2, UpsertedFacts DEF SaveRefused, SavePending, Typed, ConfigOK, TaskOK
    <2>2. acked' \in [Nodes -> Tier \cup {"none", "free"}]
      BY <1>2 DEF SaveRefused, Typed, GhostOK
    <2> QED
      BY <1>2, <2>1, <2>2, NoOpFacts DEF SaveRefused, Answer, Typed, FlagsOK, SetsOK, ConfigOK,
         ShownOK, TaskOK, GhostOK, deviceVars, reloadVars
  <1>3. CASE SaveSucceeds
    <2>1. acked' \in [Nodes -> Tier \cup {"none", "free"}]
      BY <1>3 DEF SaveSucceeds, Typed, GhostOK, TaskOK, Op
    <2>2. missed' \subseteq Nodes
      BY <1>3 DEF SaveSucceeds, SavePending, Typed, SetsOK
    <2> QED
      BY <1>3, <2>1, <2>2 DEF SaveSucceeds, Typed, FlagsOK, SetsOK, ConfigOK, ShownOK, TaskOK, GhostOK,
         deviceVars, reloadVars
  <1>4. CASE SaveFails
    <2>1. acked' \in [Nodes -> Tier \cup {"none", "free"}]
      BY <1>4 DEF SaveFails, Typed, GhostOK
    <2>2. disk' \in Config /\ extent' \in {"part", "torn"}
      BY <1>4, UnfinishedFacts DEF SaveFails
    <2> QED
      BY <1>4, <2>1, <2>2, NoOpFacts DEF SaveFails, Answer, Typed, FlagsOK, SetsOK, ConfigOK,
         ShownOK, TaskOK, GhostOK, deviceVars, fileVars, reloadVars
  <1>5. CASE RefreshAnswer
    <2>1. config' \in Config /\ Refresh
      BY <1>5 DEF RefreshAnswer, Typed, ConfigOK, fileVars
    <2>2. shown' \in [Nodes -> Seen] /\ dirty' \in BOOLEAN
      BY <2>1, RefreshFacts
    <2> QED
      BY <1>5, <2>2, NoOpFacts DEF RefreshAnswer, Answer, Typed, FlagsOK, SetsOK, ConfigOK,
         ShownOK, TaskOK, GhostOK, deviceVars, fileVars, reloadVars
  <1>6. CASE ResyncObserverConfig
    BY <1>6 DEF ResyncObserverConfig, Typed, FlagsOK, SetsOK, ConfigOK, ShownOK, TaskOK, GhostOK,
       deviceVars, fileVars
  <1> QED
    BY <1>1, <1>2, <1>3, <1>4, <1>5, <1>6

\* A reload keeps the types.
LEMMA ReloadTyped ==
  ASSUME Typed, Reloads
  PROVE  Typed'
  <1>1. CASE ReloadLoad
    <2>1. budget' \in [Bounds -> Nat]
      BY <1>1, SpendFacts DEF ReloadLoad, Typed, Bounds
    <2>2. loaded' \in Config /\ missed' \subseteq Nodes /\ reload' \in {"idle", "loaded"}
      BY <1>1, CutFacts DEF ReloadLoad, Typed, ConfigOK, SetsOK
    <2>3. UNCHANGED <<deviceVars, cache, discovered, fileVars, shown, taskVars, resyncs,
                      clean, stalePlan, dirty, behind, acked>>
      BY <1>1 DEF ReloadLoad
    <2> QED
      BY <2>1, <2>2, <2>3 DEF Typed, FlagsOK, SetsOK, ConfigOK, ShownOK, TaskOK, GhostOK,
         deviceVars, fileVars, taskVars
  <1>2. CASE ReloadApply
    BY <1>2 DEF ReloadApply, Typed, FlagsOK, SetsOK, ConfigOK, ShownOK, TaskOK, GhostOK,
       deviceVars, taskVars
  <1>3. CASE ReloadDone
    BY <1>3, NoConfigFacts DEF ReloadDone, Typed, FlagsOK, SetsOK, ConfigOK, ShownOK, TaskOK,
       GhostOK, deviceVars, fileVars, taskVars, ghosts
  <1> QED
    BY <1>1, <1>2, <1>3 DEF Reloads

\* An edit of the user leaves a configuration in the file.
LEMMA EditFacts ==
  ASSUME Typed, ManagementAssumption, NEW n \in Nodes, UserEdit(n)
  PROVE  disk' \in Config
  <1>1. disk.entry \in [Nodes -> Entry] /\ disk.observer \in BOOLEAN
    BY DEF Typed, ConfigOK, Config
  <1>2. CASE disk' = [disk EXCEPT !.observer = ~@]
    BY <1>1, <1>2 DEF Typed, ConfigOK, Config
  <1>3. ASSUME NEW e \in UserEntry, disk' = [disk EXCEPT !.entry[n] = e]
        PROVE  disk' \in Config
    <2>1. e \in Entry
      BY NoConfigFacts DEF UserEntry, Entry, ManagementAssumption
    <2>2. [disk.entry EXCEPT ![n] = e] \in [Nodes -> Entry]
      BY <1>1, <2>1
    <2> QED
      BY <1>1, <1>3, <2>2 DEF Typed, ConfigOK, Config
  <1> QED
    BY <1>2, <1>3 DEF UserEdit

\* The environment and restarts keep the types.
LEMMA EnvironmentTyped ==
  ASSUME Typed, ManagementAssumption, Environment
  PROVE  Typed'
  <1> USE DEF Stages
  <1>1. ASSUME NEW n \in Nodes, Hear(n)
        PROVE  Typed'
    <2>1. config' \in Config
      BY <1>1 DEF Hear, Typed, ConfigOK, fileVars
    <2>2. shown' \in [Nodes -> Seen] /\ dirty' \in BOOLEAN
      BY <1>1, <2>1, RefreshFacts DEF Hear, Typed, ShownOK, FlagsOK
    <2> QED
      BY <1>1, <2>2 DEF Hear, Typed, FlagsOK, SetsOK, ConfigOK, ShownOK, TaskOK, GhostOK,
         deviceVars, fileVars, taskVars, reloadVars
  <1>2. ASSUME NEW n \in Nodes, AutoAdd(n)
        PROVE  Typed'
    BY <1>2 DEF AutoAdd, Typed, FlagsOK, SetsOK, ConfigOK, ShownOK, TaskOK, GhostOK,
       fileVars, taskVars, reloadVars, ghosts
  <1>3. ASSUME NEW n \in Nodes, UserEdit(n)
        PROVE  Typed'
    <2>1. disk' \in Config
      BY <1>3, EditFacts
    <2>2. budget' \in [Bounds -> Nat]
      BY <1>3, SpendFacts DEF UserEdit, Typed, Bounds
    <2>3. acked' \in [Nodes -> Tier \cup {"none", "free"}]
      BY <1>3 DEF UserEdit, Typed, GhostOK
    <2> QED
      <3>1. FlagsOK' /\ SetsOK'
        BY <1>3 DEF UserEdit, Typed, FlagsOK, SetsOK, deviceVars, taskVars
      <3>2. ConfigOK' /\ ShownOK' /\ TaskOK'
        BY <1>3, <2>1 DEF UserEdit, Typed, ConfigOK, ShownOK, TaskOK, taskVars, reloadVars
      <3> QED
        BY <2>2, <2>3, <3>1, <3>2 DEF Typed, GhostOK
  <1>4. CASE Push
    <2>1. config' \in Config /\ Refresh
      BY <1>4 DEF Push, Typed, ConfigOK, fileVars
    <2>2. shown' \in [Nodes -> Seen] /\ dirty' \in BOOLEAN
      BY <2>1, RefreshFacts
    <2> QED
      BY <1>4, <2>2 DEF Push, Typed, FlagsOK, SetsOK, ConfigOK, ShownOK, TaskOK, GhostOK,
         deviceVars, fileVars, taskVars, reloadVars
  <1>5. CASE NodeChanges
    <2>1. FlagsOK'
      BY <1>5 DEF NodeChanges, Typed, FlagsOK, fileVars, taskVars, ghosts
    <2>2. SetsOK' /\ ConfigOK' /\ ShownOK' /\ TaskOK' /\ GhostOK'
      BY <1>5 DEF NodeChanges, Typed, SetsOK, ConfigOK, ShownOK, TaskOK, GhostOK,
         fileVars, taskVars, reloadVars, ghosts
    <2> QED
      BY <2>1, <2>2 DEF Typed
  <1>6. CASE Stop
    <2>1. budget' \in [Bounds -> Nat]
      BY <1>6, SpendFacts DEF Stop, Typed, Bounds
    <2>2. disk' \in Config /\ extent' \in {"whole", "part", "torn"}
      BY <1>6, UnfinishedFacts DEF Stop, Typed, ConfigOK, FlagsOK
    <2>3. FlagsOK' /\ SetsOK' /\ ShownOK' /\ GhostOK'
      BY <1>6, <2>1, <2>2 DEF Stop, Typed, FlagsOK, SetsOK, ShownOK, GhostOK, deviceVars
    <2>4. ConfigOK' /\ TaskOK'
      BY <1>6, <2>2, NoOpFacts, NoConfigFacts DEF Stop, Typed, ConfigOK, TaskOK
    <2> QED
      BY <2>3, <2>4 DEF Typed
  <1>7. CASE Start
    <2>1. shown' \in [Nodes -> Seen]
      BY <1>7, ViewFacts DEF Start, Typed, ConfigOK
    <2> QED
      BY <1>7, <2>1 DEF Start, Typed, FlagsOK, SetsOK, ConfigOK, ShownOK, TaskOK, GhostOK,
         deviceVars, reloadVars
  <1> QED
    BY <1>1, <1>2, <1>3, <1>4, <1>5, <1>6, <1>7 DEF Environment

\* Every step keeps the types.
LEMMA TypedStep ==
  ASSUME Typed, SavePending, ManagementAssumption, [Next]_vars
  PROVE  Typed'
  <1>1. CASE Setup
    BY <1>1, SetupTyped
  <1>2. CASE Commands
    BY <1>2, StatusStarts, AddStarts, RemoveStarts, SavingTyped DEF Commands, CommandStarted
  <1>3. CASE Reloads
    BY <1>3, ReloadTyped
  <1>4. CASE Environment
    BY <1>4, EnvironmentTyped
  <1>5. CASE UNCHANGED vars
    BY <1>5 DEF vars, Typed, FlagsOK, SetsOK, ConfigOK, ShownOK, TaskOK, GhostOK,
       deviceVars, fileVars, taskVars, reloadVars, ghosts
  <1> QED
    BY <1>1, <1>2, <1>3, <1>4, <1>5 DEF Next

-----------------------------------------------------------------------------
(* The acknowledged tiers.                                                 *)

Kept == SavePending /\ SaveOnItsWay /\ LoadedAgrees /\ AckedKept

\* Steps that leave the task where it is, the configurations and the reload.
LEMMA KeptElsewhere ==
  ASSUME Kept, UNCHANGED <<fileVars, reload, loaded, missed, behind, acked, pc, op>>
  PROVE  Kept'
  BY DEF Kept, SavePending, SaveOnItsWay, LoadedAgrees, AckedKept, fileVars

\* Steps of the task that stay away from saving.
LEMMA KeptByTask ==
  ASSUME Kept, UNCHANGED <<fileVars, reload, loaded, missed, behind, acked>>,
         pc \notin {"saving", "down"}, pc' # "saving", pc' = "persist" => op'.node \in Nodes
  PROVE  Kept'
  BY DEF Kept, SavePending, SaveOnItsWay, LoadedAgrees, AckedKept, fileVars

\* The connection passes do not touch what is acknowledged.
LEMMA SetupKept ==
  ASSUME Kept, Setup
  PROVE  Kept'
  <1>1. UNCHANGED <<fileVars, reload, loaded, missed, behind, acked>>
    BY DEF Setup, Connect, Reconcile, ReconcileRefresh, EnforceSkip, EnforceSettings, EnforcePlan,
       EnforceEnd, EnforcePrune, Disconnect, reloadVars, ghosts
  <1>2. CASE \E n \in Nodes : EnforcePrune(n)
    BY <1>1, <1>2, KeptElsewhere DEF EnforcePrune
  <1>3. CASE Connect \/ Reconcile \/ ReconcileRefresh \/ EnforceSkip \/ EnforceSettings
              \/ EnforcePlan \/ EnforceEnd \/ Disconnect
    <2>1. pc \notin {"saving", "down"} /\ pc' \notin {"saving", "persist"}
      BY <1>3 DEF Connect, Reconcile, ReconcileRefresh, EnforceSkip, EnforceSettings, EnforcePlan,
         EnforceEnd, PassOver, Disconnect
    <2> QED
      BY <1>1, <2>1, KeptByTask
  <1> QED
    BY <1>2, <1>3 DEF Setup

\* A command that starts changes nothing that was acknowledged.
LEMMA StartKept ==
  ASSUME Kept, Typed, \/ \E n \in Nodes, tier \in Tier \cup {"none"} : SetRepeaterStatus(n, tier)
                      \/ \E n \in Nodes, managed \in BOOLEAN : AddRepeater(n, managed)
                      \/ \E n \in Nodes : RemoveContact(n)
  PROVE  Kept'
  <1>1. UNCHANGED <<fileVars, reload, loaded, missed, behind, acked>>
    BY DEF SetRepeaterStatus, AddRepeater, RemoveContact, reloadVars, ghosts
  <1>2. CommandStarted
    BY StatusStarts, AddStarts, RemoveStarts
  <1>3. /\ pc = "idle" /\ pc' \in {"idle", "persist", "refresh"}
        /\ (pc' = "persist" => op'.node \in Nodes)
    BY <1>2 DEF CommandStarted
  <1> QED
    BY <1>1, <1>3, KeptByTask

\* A save keeps the other tiers, and acknowledges the one it wrote.
LEMMA SaveKept ==
  ASSUME Kept, Typed,
         SaveBegins \/ SaveRefused \/ SaveSucceeds \/ SaveFails \/ RefreshAnswer
           \/ ResyncObserverConfig
  PROVE  Kept'
  <1> USE DEF Kept
  <1>1. ASSUME pc = "persist", config' = Upserted(config, op), op \in Op
        PROVE  /\ config'.entry[op.node].tier = op.tier
               /\ \A n \in Nodes : n # op.node => config'.entry[n] = config.entry[n]
    BY <1>1, UpsertedFacts DEF SavePending, Typed, ConfigOK
  <1>2. op \in Op /\ acked \in [Nodes -> Tier \cup {"none", "free"}]
    BY DEF Typed, TaskOK, GhostOK
  <1>3. CASE SaveBegins
    <2>1. /\ config'.entry[op.node].tier = op.tier
          /\ \A n \in Nodes : n # op.node => config'.entry[n] = config.entry[n]
      BY <1>1, <1>2, <1>3 DEF SaveBegins
    <2>2. /\ pc = "persist" /\ pc' = "saving" /\ extent' = "torn" /\ op' = op
          /\ UNCHANGED <<disk, missed, behind, acked, reload, loaded>>
      BY <1>3 DEF SaveBegins, reloadVars, ghosts
    <2>3. SavePending' /\ SaveOnItsWay' /\ LoadedAgrees'
      BY <2>1, <2>2 DEF SavePending, SaveOnItsWay, LoadedAgrees
    <2>4. AckedKept'
      BY <2>1, <2>2 DEF AckedKept
    <2> QED
      BY <2>3, <2>4
  <1>4. CASE SaveRefused
    <2>1. \A n \in Nodes : n # op.node => config'.entry[n] = config.entry[n]
      BY <1>1, <1>2, <1>4 DEF SaveRefused
    <2>2. /\ pc = "persist" /\ pc' = "idle"
          /\ UNCHANGED <<disk, extent, reload, loaded, missed, behind>>
          /\ acked' = [acked EXCEPT ![op.node] = "free"]
      BY <1>4 DEF SaveRefused, Answer, reloadVars
    <2>3. \A n \in Nodes : acked'[n] # "free" => n # op.node /\ acked'[n] = acked[n]
      BY <1>2, <2>2
    <2>4. SavePending' /\ SaveOnItsWay' /\ LoadedAgrees'
      BY <2>2, <2>3 DEF SavePending, SaveOnItsWay, LoadedAgrees
    <2>5. AckedKept'
      BY <2>1, <2>2, <2>3 DEF AckedKept
    <2> QED
      BY <2>4, <2>5
  <1>5. CASE SaveSucceeds
    <2>1. /\ pc = "saving" /\ pc' = "refresh" /\ disk' = config /\ extent' = "whole"
          /\ UNCHANGED <<config, op, reload, loaded>>
          /\ behind' = {} /\ missed' = IF reload = "loaded" THEN missed \cup {op.node} ELSE missed
      BY <1>5 DEF SaveSucceeds, reloadVars
    <2>2. \A n \in Nodes : acked'[n] = IF n = op.node THEN op.tier
                                      ELSE IF n \in behind THEN "free" ELSE acked[n]
      BY <1>5 DEF SaveSucceeds
    <2>3. config.entry[op.node].tier = op.tier
      BY <2>1 DEF SaveOnItsWay
    <2>4. SavePending' /\ SaveOnItsWay'
      BY <2>1 DEF SavePending, SaveOnItsWay
    <2>6. LoadedAgrees'
      BY <2>1, <2>2 DEF LoadedAgrees
    <2>5. AckedKept'
      BY <2>1, <2>2, <2>3 DEF AckedKept
    <2> QED
      BY <2>4, <2>5, <2>6
  <1>6. CASE SaveFails
    <2>1. /\ pc = "saving" /\ pc' = "idle" /\ UNCHANGED <<config, reload, loaded, missed, behind>>
          /\ acked' = [acked EXCEPT ![op.node] = "free"] /\ extent' # "whole"
      BY <1>6, UnfinishedFacts DEF SaveFails, Answer, reloadVars
    <2>2. \A n \in Nodes : acked'[n] # "free" => n # op.node /\ acked'[n] = acked[n]
      BY <1>2, <2>1
    <2>3. SavePending' /\ SaveOnItsWay' /\ LoadedAgrees'
      BY <2>1, <2>2 DEF SavePending, SaveOnItsWay, LoadedAgrees
    <2>4. AckedKept'
      BY <2>1, <2>2 DEF AckedKept
    <2> QED
      BY <2>3, <2>4
  <1>7. CASE RefreshAnswer \/ ResyncObserverConfig
    <2>1. /\ UNCHANGED <<fileVars, reload, loaded, missed, behind, acked>>
          /\ pc \in {"refresh", "idle"} /\ pc' \in {"idle", "enforce"}
      BY <1>7 DEF RefreshAnswer, ResyncObserverConfig, Answer, reloadVars
    <2> QED
      BY <2>1, KeptByTask
  <1> QED
    BY <1>3, <1>4, <1>5, <1>6, <1>7

\* A reload reads what was acknowledged or misses it, and the memory is behind by
\* what it missed.
LEMMA ReloadKept ==
  ASSUME Kept, Typed, Reloads
  PROVE  Kept'
  <1> USE DEF Kept
  <1>1. CASE ReloadLoad
    <2>1. UNCHANGED <<config, disk, extent, pc, op, behind, acked>>
      BY <1>1 DEF ReloadLoad, fileVars, taskVars
    <2>2. \/ reload' = "loaded" /\ extent = "whole" /\ loaded' = disk
          \/ reload' = "loaded" /\ missed' = Nodes
          \/ reload' = "idle"
      BY <1>1 DEF ReloadLoad, Typed, FlagsOK
    <2>3. SavePending' /\ SaveOnItsWay'
      BY <2>1 DEF SavePending, SaveOnItsWay
    <2>4. LoadedAgrees'
      BY <2>1, <2>2 DEF LoadedAgrees, AckedKept
    <2>5. AckedKept'
      BY <2>1 DEF AckedKept
    <2> QED
      BY <2>3, <2>4, <2>5
  <1>2. CASE ReloadApply
    <2>1. /\ UNCHANGED <<disk, extent, pc, op, acked, loaded>> /\ config' = loaded
          /\ reload = "loaded" /\ reload' = "applied" /\ pc # "saving" /\ behind' = missed
      BY <1>2 DEF ReloadApply, taskVars
    <2>2. SavePending' /\ SaveOnItsWay' /\ LoadedAgrees'
      BY <2>1 DEF SavePending, SaveOnItsWay, LoadedAgrees
    <2>3. AckedKept'
      BY <2>1 DEF AckedKept, LoadedAgrees
    <2> QED
      BY <2>2, <2>3
  <1>3. CASE ReloadDone
    <2>1. UNCHANGED <<config, disk, extent, pc, op, behind, acked>> /\ reload' = "idle"
      BY <1>3 DEF ReloadDone, fileVars, taskVars, ghosts
    <2>2. SavePending' /\ SaveOnItsWay' /\ LoadedAgrees'
      BY <2>1 DEF SavePending, SaveOnItsWay, LoadedAgrees
    <2>3. AckedKept'
      BY <2>1 DEF AckedKept
    <2> QED
      BY <2>2, <2>3
  <1> QED
    BY <1>1, <1>2, <1>3 DEF Reloads

\* Edits release what they may change; restarts read it back from the file.
LEMMA EnvironmentKept ==
  ASSUME Kept, Typed, ManagementAssumption, Environment
  PROVE  Kept'
  <1> USE DEF Kept
  <1>1. CASE Push \/ NodeChanges \/ \E n \in Nodes : Hear(n) \/ AutoAdd(n)
    <2>1. UNCHANGED <<fileVars, reload, loaded, missed, behind, acked, pc, op>>
      BY <1>1 DEF Push, NodeChanges, Hear, AutoAdd, reloadVars, taskVars, ghosts
    <2> QED
      BY <2>1, KeptElsewhere
  <1>2. ASSUME NEW n \in Nodes, UserEdit(n)
        PROVE  Kept'
    <2>1. /\ pc # "saving" /\ UNCHANGED <<config, pc, op, reload, loaded, missed, behind>>
          /\ extent' = IF extent = "torn" THEN "whole" ELSE extent
          /\ acked' = IF extent = "torn" THEN [m \in Nodes |-> "free"] ELSE [acked EXCEPT ![n] = "free"]
      BY <1>2 DEF UserEdit, taskVars, reloadVars
    <2>2. \A m \in Nodes : acked'[m] # "free" => extent # "torn" /\ m # n /\ acked'[m] = acked[m]
      BY <2>1 DEF Typed, GhostOK
    <2>3. \A m \in Nodes : m # n => disk'.entry[m] = disk.entry[m]
      BY <1>2 DEF UserEdit, Typed, ConfigOK, Config
    <2>4. SavePending' /\ SaveOnItsWay' /\ LoadedAgrees'
      BY <2>1, <2>2 DEF SavePending, SaveOnItsWay, LoadedAgrees
    <2>5. AckedKept'
      BY <2>1, <2>2, <2>3 DEF AckedKept
    <2> QED
      BY <2>4, <2>5
  <1>3. CASE Stop
    <2>1. /\ pc' = "down" /\ reload' = "idle" /\ acked' = acked
          /\ (extent' = "whole" => extent = "whole" /\ disk' = disk)
      BY <1>3, UnfinishedFacts DEF Stop
    <2>2. SavePending' /\ SaveOnItsWay' /\ LoadedAgrees'
      BY <2>1 DEF SavePending, SaveOnItsWay, LoadedAgrees
    <2>3. AckedKept'
      BY <2>1 DEF AckedKept
    <2> QED
      BY <2>2, <2>3
  <1>4. CASE Start
    <2>1. /\ UNCHANGED <<disk, extent, missed, acked, op, reload, loaded>> /\ config' = disk
          /\ extent \in {"whole", "part"} /\ pc' = "offline"
          /\ behind' = IF extent = "part" THEN Nodes ELSE {}
      BY <1>4 DEF Start, reloadVars, Typed, FlagsOK
    <2>2. SavePending' /\ SaveOnItsWay' /\ LoadedAgrees'
      BY <2>1 DEF SavePending, SaveOnItsWay, LoadedAgrees
    <2>3. AckedKept'
      BY <2>1 DEF AckedKept
    <2> QED
      BY <2>2, <2>3
  <1> QED
    BY <1>1, <1>2, <1>3, <1>4 DEF Environment

-----------------------------------------------------------------------------
\* Every step keeps the inductive invariant.
LEMMA NextIInv == ManagementAssumption /\ IInv /\ [Next]_vars => IInv'
  <1> SUFFICES ASSUME ManagementAssumption, IInv, [Next]_vars PROVE IInv'
    OBVIOUS
  <1>1. Typed /\ Kept
    BY DEF IInv, Kept
  <1>2. Typed'
    BY <1>1, TypedStep DEF Kept
  <1>3. CASE Setup
    BY <1>1, <1>2, <1>3, SetupKept DEF IInv, Kept
  <1>4. CASE Commands
    BY <1>1, <1>2, <1>4, StartKept, SaveKept DEF Commands, IInv, Kept
  <1>5. CASE Reloads
    BY <1>1, <1>2, <1>5, ReloadKept DEF IInv, Kept
  <1>6. CASE Environment
    BY <1>1, <1>2, <1>6, EnvironmentKept DEF IInv, Kept
  <1>7. CASE UNCHANGED vars
    <2>1. Kept'
      BY <1>1, <1>7, KeptElsewhere DEF vars, reloadVars, taskVars, ghosts
    <2> QED
      BY <1>2, <2>1 DEF IInv, Kept
  <1> QED
    BY <1>3, <1>4, <1>5, <1>6, <1>7 DEF Next

\* The inductive invariant holds throughout.
THEOREM Invariance == Spec => []IInv
  BY ManagementAssumption, InitIInv, NextIInv, PTL DEF Spec

\* Every variable keeps the type the code gives it.
THEOREM TypeCorrect == Spec => []TypeOK
  <1>1. IInv => TypeOK
    BY TypedIsTypeOK DEF IInv
  <1> QED
    BY <1>1, Invariance, PTL

\* A tier a client was told is set stays the one in memory and in the file, across
\* failures, restarts, reloads and edits of other entries.  The file loses it only
\* while a write that did not come to its end leaves it torn or cut short, the
\* memory only to such a file or to a reload that was swapped in after the save but
\* had read the file before (upsert_managed_repeater_config, reload_once).
THEOREM AcknowledgedTiersKept == Spec => []AckedKept
  <1>1. IInv => AckedKept
    BY DEF IInv
  <1> QED
    BY <1>1, Invariance, PTL

-----------------------------------------------------------------------------
(* What clients are shown.                                                 *)

\* A rebuilt snapshot shows the tiers of the configuration it was built from
\* (build_snapshot_contacts).
LEMMA ViewTiers ==
  ASSUME NEW contacts, NEW heard, NEW cfg, NEW n \in Nodes,
         View(contacts, heard, cfg)[n].where # "absent"
  PROVE  View(contacts, heard, cfg)[n].tier = cfg.entry[n].tier
  BY DEF View

\* Whoever rebuilds the snapshot shows the configuration.
LEMMA RefreshShows ==
  ASSUME Refresh
  PROVE  ShownTiers'
  <1>1. PICK contacts \in {nodeContacts', cache'} : shown' = View(contacts, discovered', config')
    BY DEF Refresh
  <1> QED
    BY <1>1, ViewTiers DEF ShownTiers

\* Steps that leave the snapshot and the configuration, or lead to where the
\* property does not look.
LEMMA ShownElsewhere ==
  ASSUME ShownTiers, UNCHANGED <<shown, config, dirty>>,
         pc \in {"down", "saving", "refresh"} => pc' \in {"down", "saving", "refresh"}
  PROVE  ShownTiers'
  BY DEF ShownTiers

\* Every step keeps the shown tiers: a command gives up its claim between the
\* change of the configuration and the rebuild, and only there.
LEMMA ShownStep ==
  ASSUME Typed, ShownTiers, [Next]_vars
  PROVE  ShownTiers'
  <1>1. CASE Setup
    <2>1. CASE Connect \/ ReconcileRefresh
      BY <2>1, RefreshShows DEF Connect, ReconcileRefresh
    <2>2. CASE EnforceEnd
      <3>1. UNCHANGED config /\ pc = "prune"
        BY <2>2 DEF EnforceEnd, fileVars
      <3> QED
        BY <2>2, <3>1, RefreshShows, ShownElsewhere DEF EnforceEnd
    <2>3. CASE Reconcile \/ EnforceSkip \/ EnforceSettings \/ EnforcePlan \/ Disconnect
               \/ \E n \in Nodes : EnforcePrune(n)
      <3>1. /\ UNCHANGED <<shown, config, dirty>>
            /\ pc \in {"reconcile", "enforce", "plan", "prune", "idle"}
        BY <2>3 DEF Reconcile, EnforceSkip, EnforceSettings, EnforcePlan, EnforcePrune, Disconnect,
           fileVars, ghosts
      <3> QED
        BY <3>1, ShownElsewhere
    <2> QED
      BY <1>1, <2>1, <2>2, <2>3 DEF Setup
  <1>2. CASE Commands
    <2>1. CASE \/ \E n \in Nodes, tier \in Tier \cup {"none"} : SetRepeaterStatus(n, tier)
               \/ \E n \in Nodes, managed \in BOOLEAN : AddRepeater(n, managed)
               \/ \E n \in Nodes : RemoveContact(n)
               \/ ResyncObserverConfig
      <3>1. UNCHANGED <<shown, config, dirty>> /\ pc = "idle"
        BY <2>1 DEF SetRepeaterStatus, AddRepeater, RemoveContact, Refused, StartCommand,
           ResyncObserverConfig, fileVars, ghosts
      <3> QED
        BY <3>1, ShownElsewhere
    <2>2. CASE SaveBegins \/ SaveSucceeds
      BY <2>2 DEF SaveBegins, SaveSucceeds, ShownTiers
    <2>3. CASE SaveRefused \/ SaveFails
      BY <2>3 DEF SaveRefused, SaveFails, ShownTiers
    <2>4. CASE RefreshAnswer
      BY <2>4, RefreshShows DEF RefreshAnswer
    <2> QED
      BY <1>2, <2>1, <2>2, <2>3, <2>4 DEF Commands
  <1>3. CASE Reloads
    <2>1. CASE ReloadApply
      BY <2>1 DEF ReloadApply, ShownTiers
    <2>2. CASE ReloadLoad \/ ReloadDone
      BY <2>2, ShownElsewhere DEF ReloadLoad, ReloadDone, fileVars, taskVars, ghosts
    <2> QED
      BY <1>3, <2>1, <2>2 DEF Reloads
  <1>4. CASE Environment
    <2>1. CASE Push
      BY <2>1, RefreshShows DEF Push
    <2>2. ASSUME NEW n \in Nodes, Hear(n)
          PROVE  ShownTiers'
      BY <2>2, RefreshShows, ShownElsewhere DEF Hear, fileVars, taskVars
    <2>3. CASE NodeChanges \/ \E n \in Nodes : AutoAdd(n) \/ UserEdit(n)
      BY <2>3, ShownElsewhere DEF NodeChanges, AutoAdd, UserEdit, fileVars, taskVars, ghosts
    <2>4. CASE Stop
      BY <2>4 DEF Stop, ShownTiers
    <2>5. CASE Start
      BY <2>5, ViewTiers DEF Start, ShownTiers
    <2> QED
      BY <1>4, <2>1, <2>2, <2>3, <2>4, <2>5 DEF Environment
  <1>5. CASE UNCHANGED vars
    BY <1>5, ShownElsewhere DEF vars, fileVars, taskVars, ghosts
  <1> QED
    BY <1>1, <1>2, <1>3, <1>4, <1>5 DEF Next

\* Clients see the configured tiers, except during a command's own save and
\* since a reload or a failed save (refresh_snapshot_contacts).
THEOREM TiersShown == Spec => []ShownTiers
  <1>1. Init => ShownTiers
    BY DEF Init, ShownTiers
  <1>2. IInv /\ ShownTiers /\ [Next]_vars => ShownTiers'
    BY ShownStep DEF IInv
  <1> QED
    BY <1>1, <1>2, Invariance, PTL DEF Spec

-----------------------------------------------------------------------------
(* The connection passes.                                                  *)

\* setup says that a pass is under way.
InPass == setup # "none" => pc \in {"reconcile", "reconciled", "enforce", "plan", "prune"}

\* The plan spares what is managed, unless a reload has intervened, and then
\* the pass is not clean.
PlanFresh ==
  pc = "prune" => /\ ~stalePlan => toPrune \cap ManagedSet(config) = {}
                  /\ clean => ~stalePlan

\* A clean pass has locked the node, and what it has not pruned it will.
Locked ==
  clean => /\ pc \in {"plan", "prune"} => ~autoadd /\ ~channels
           /\ pc = "prune" => nodeContacts \cap cache \subseteq ManagedSet(config) \cup toPrune

\* A clean pass of a new connection trusts a cache the node has not gone back
\* on, and from its declarations on the node knows every entry.
Declared ==
  setup = "connect" /\ clean =>
    IF pc = "reconcile" THEN cache \subseteq nodeContacts ELSE Declarable(config) \subseteq nodeContacts

PassInv == InPass /\ PlanFresh /\ Locked /\ Declared

passVars == <<nodeContacts, autoadd, channels, cache, config, pc, setup, toPrune, clean, stalePlan>>

\* Steps elsewhere.
LEMMA PassElsewhere ==
  ASSUME PassInv, UNCHANGED passVars
  PROVE  PassInv'
  BY DEF PassInv, passVars, InPass, PlanFresh, Locked, Declared, ManagedSet, Declarable, IsManaged

\* No pass is under way any more, or none has begun.
LEMMA NoPass ==
  ASSUME setup' = "none", pc' \notin {"plan", "prune"}
  PROVE  PassInv'
  BY DEF PassInv, InPass, PlanFresh, Locked, Declared

LEMMA IdleNoPass ==
  ASSUME PassInv, pc \in {"down", "offline", "idle", "persist", "saving", "refresh"}
  PROVE  setup = "none"
  BY DEF PassInv, InPass

\* Declarable entries are managed ones.
LEMMA DeclarableManaged == ASSUME NEW cfg PROVE Declarable(cfg) \subseteq ManagedSet(cfg)
  BY DEF Declarable

\* A removal of the loop spares what is managed, unless a reload has intervened
\* (contacts_to_prune).
LEMMA PruneSpares ==
  ASSUME PassInv, NEW n \in Nodes, EnforcePrune(n), ~stalePlan
  PROVE  ManagedSet(config) \cap nodeContacts \subseteq nodeContacts'
  <1>1. n \notin ManagedSet(config)
    BY DEF EnforcePrune, PassInv, PlanFresh
  <1> QED
    BY <1>1 DEF EnforcePrune

\* The passes keep their invariant.
LEMMA SetupPass ==
  ASSUME PassInv, Setup
  PROVE  PassInv'
  <1> USE DEF PassInv
  <1>1. CASE Connect
    BY <1>1 DEF Connect, deviceVars, InPass, PlanFresh, Locked, Declared
  <1>2. CASE Reconcile
    <2>1. PICK done \in SUBSET (Declarable(config) \ cache) :
            /\ nodeContacts' = nodeContacts \cup done
            /\ clean' = (clean /\ done = Declarable(config) \ cache)
            /\ pc' \in {"enforce", "reconciled"}
      BY <1>2 DEF Reconcile
    <2>2. UNCHANGED <<cache, config, setup>> /\ pc = "reconcile"
      BY <1>2 DEF Reconcile, fileVars
    <2>3. Declared'
      BY <2>1, <2>2 DEF Declared, Declarable, ManagedSet, IsManaged
    <2> QED
      BY <2>1, <2>2, <2>3 DEF InPass, PlanFresh, Locked
  <1>3. CASE ReconcileRefresh
    BY <1>3 DEF ReconcileRefresh, deviceVars, fileVars, InPass, PlanFresh, Locked, Declared,
       Declarable, ManagedSet, IsManaged
  <1>4. CASE EnforceSkip \/ EnforceEnd
    BY <1>4, NoPass DEF EnforceSkip, EnforceEnd, PassOver
  <1>5. CASE EnforceSettings
    <2>1. /\ UNCHANGED <<nodeContacts, cache, config, setup>> /\ pc = "enforce" /\ pc' = "plan"
          /\ clean' => clean /\ ~autoadd' /\ ~channels'
      BY <1>5 DEF EnforceSettings, fileVars
    <2> QED
      BY <2>1 DEF InPass, PlanFresh, Locked, Declared, Declarable, ManagedSet, IsManaged
  <1>6. CASE EnforcePlan
    <2>1. /\ UNCHANGED <<nodeContacts, autoadd, channels, cache, config, setup, clean>>
          /\ pc = "plan" /\ pc' = "prune" /\ stalePlan' = FALSE
          /\ toPrune' = cache \ ManagedSet(config)
      BY <1>6 DEF EnforcePlan, deviceVars, fileVars
    <2>2. ManagedSet(config') = ManagedSet(config) /\ Declarable(config') = Declarable(config)
      BY <2>1
    <2> QED
      BY <2>1, <2>2 DEF InPass, PlanFresh, Locked, Declared
  <1>7. ASSUME NEW n \in Nodes, EnforcePrune(n)
        PROVE  PassInv'
    <2>1. /\ UNCHANGED <<autoadd, channels, cache, config, setup, pc, stalePlan>> /\ pc = "prune"
          /\ toPrune' = toPrune \ {n}
          /\ clean' => clean /\ nodeContacts' = nodeContacts \ {n}
      BY <1>7 DEF EnforcePrune, fileVars
    <2>2. ManagedSet(config') = ManagedSet(config) /\ Declarable(config') = Declarable(config)
      BY <2>1
    <2>3. clean' => n \notin ManagedSet(config)
      BY <1>7, <2>1 DEF EnforcePrune, PlanFresh
    <2>4. Declared'
      BY <2>1, <2>2, <2>3, DeclarableManaged DEF Declared
    <2>5. Locked'
      BY <2>1, <2>2 DEF Locked
    <2> QED
      BY <2>1, <2>2, <2>4, <2>5 DEF InPass, PlanFresh
  <1>8. CASE Disconnect
    <2>1. setup = "none"
      BY <1>8, IdleNoPass DEF Disconnect
    <2> QED
      BY <1>8, <2>1, NoPass DEF Disconnect
  <1> QED
    BY <1>1, <1>2, <1>3, <1>4, <1>5, <1>6, <1>7, <1>8 DEF Setup

\* Commands come between the passes; a resync begins one.
LEMMA CommandsPass ==
  ASSUME PassInv, Commands
  PROVE  PassInv'
  <1>1. CASE ResyncObserverConfig
    BY <1>1 DEF ResyncObserverConfig, PassInv, InPass, PlanFresh, Locked, Declared
  <1>2. CASE \/ \E n \in Nodes, tier \in Tier \cup {"none"} : SetRepeaterStatus(n, tier)
             \/ \E n \in Nodes, managed \in BOOLEAN : AddRepeater(n, managed)
             \/ \E n \in Nodes : RemoveContact(n)
    <2>1. pc = "idle" /\ pc' \in {"idle", "persist", "refresh"} /\ UNCHANGED setup
      BY <1>2 DEF SetRepeaterStatus, AddRepeater, RemoveContact, Refused, StartCommand
    <2> QED
      BY <2>1, IdleNoPass, NoPass
  <1>3. CASE SaveBegins \/ SaveRefused \/ SaveSucceeds \/ SaveFails \/ RefreshAnswer
    <2>1. /\ pc \in {"persist", "saving", "refresh"} /\ pc' \in {"saving", "refresh", "idle"}
          /\ UNCHANGED setup
      BY <1>3 DEF SaveBegins, SaveRefused, SaveSucceeds, SaveFails, RefreshAnswer, Answer
    <2> QED
      BY <2>1, IdleNoPass, NoPass
  <1> QED
    BY <1>1, <1>2, <1>3 DEF Commands

\* A reload spoils the pass it falls into.
LEMMA ReloadsPass ==
  ASSUME PassInv, Reloads
  PROVE  PassInv'
  <1>1. CASE ReloadLoad \/ ReloadDone
    BY <1>1, PassElsewhere DEF ReloadLoad, ReloadDone, passVars, deviceVars, fileVars, taskVars, ghosts
  <1>2. CASE ReloadApply
    <2>1. UNCHANGED <<pc, setup>> /\ clean' = FALSE /\ stalePlan' = (pc = "prune")
      BY <1>2 DEF ReloadApply, taskVars
    <2> QED
      BY <2>1 DEF PassInv, InPass, PlanFresh, Locked, Declared
  <1> QED
    BY <1>1, <1>2 DEF Reloads

\* The node adds contacts only while nothing has turned that off, and it is
\* changed behind the daemon's back only while disconnected.
LEMMA EnvironmentPass ==
  ASSUME PassInv, Environment
  PROVE  PassInv'
  <1>1. ASSUME NEW n \in Nodes, AutoAdd(n)
        PROVE  PassInv'
    <2>1. /\ autoadd /\ nodeContacts' = nodeContacts \cup {n}
          /\ UNCHANGED <<autoadd, channels, cache, config, pc, setup, toPrune, clean, stalePlan>>
      BY <1>1 DEF AutoAdd, fileVars, taskVars, ghosts
    <2>2. ManagedSet(config') = ManagedSet(config) /\ Declarable(config') = Declarable(config)
      BY <2>1
    <2> QED
      BY <2>1, <2>2 DEF PassInv, InPass, PlanFresh, Locked, Declared
  <1>2. CASE \E n \in Nodes : UserEdit(n)
    BY <1>2, PassElsewhere DEF UserEdit, passVars, deviceVars, taskVars
  <1>3. CASE Push \/ NodeChanges \/ \E n \in Nodes : Hear(n)
    <2>1. pc \in {"idle", "offline", "down"} /\ UNCHANGED <<pc, setup>>
      BY <1>3 DEF Push, NodeChanges, Hear, taskVars
    <2> QED
      BY <2>1, IdleNoPass, NoPass
  <1>4. CASE Stop
    BY <1>4, NoPass DEF Stop
  <1>5. CASE Start
    <2>1. pc = "down" /\ pc' = "offline" /\ UNCHANGED setup
      BY <1>5 DEF Start
    <2> QED
      BY <2>1, IdleNoPass, NoPass
  <1> QED
    BY <1>1, <1>2, <1>3, <1>4, <1>5 DEF Environment

\* The invariant of the passes holds throughout.
LEMMA PassInvariance == Spec => []PassInv
  <1>1. Init => PassInv
    BY DEF Init, PassInv, InPass, PlanFresh, Locked, Declared
  <1>2. PassInv /\ [Next]_vars => PassInv'
    <2> SUFFICES ASSUME PassInv, [Next]_vars PROVE PassInv'
      OBVIOUS
    <2>1. CASE UNCHANGED vars
      BY <2>1, PassElsewhere DEF vars, passVars, deviceVars, fileVars, taskVars, ghosts
    <2> QED
      BY <2>1, SetupPass, CommandsPass, ReloadsPass, EnvironmentPass DEF Next
  <1> QED
    BY <1>1, <1>2, PTL DEF Spec

\* Which steps end a pass.
LEMMA PassEnds ==
  ASSUME PassInv, [Next]_vars, setup # "none", pc' = "idle"
  PROVE  EnforceSkip \/ EnforceEnd
  <1>1. pc \in {"reconcile", "reconciled", "enforce", "plan", "prune"}
    BY DEF PassInv, InPass
  <1>2. CASE Setup
    BY <1>1, <1>2 DEF Setup, Connect, Reconcile, ReconcileRefresh, EnforceSettings, EnforcePlan,
       EnforcePrune, Disconnect
  <1>3. ~Commands
    BY <1>1 DEF Commands, SetRepeaterStatus, AddRepeater, RemoveContact, Refused, StartCommand,
       SaveBegins, SaveRefused, SaveSucceeds, SaveFails, RefreshAnswer, ResyncObserverConfig
  <1>4. ~Reloads
    BY <1>1 DEF Reloads, ReloadLoad, ReloadApply, ReloadDone, taskVars
  <1>5. ~Environment
    BY <1>1 DEF Environment, Hear, AutoAdd, UserEdit, Push, NodeChanges, Stop, Start, taskVars
  <1> QED
    BY <1>1, <1>2, <1>3, <1>4, <1>5 DEF Next, vars, taskVars

\* A clean pass of a new connection ends with the node knowing every entry with
\* a complete key (reconcile_managed_repeaters, enforce_observer_node_config).
THEOREM ConnectingHeals == Spec => HealedAfterConnect
  <1>1. ASSUME PassInv, [Next]_vars, setup = "connect", clean, pc' = "idle"
        PROVE  Declarable(config') \subseteq nodeContacts'
    <2>1. EnforceSkip \/ EnforceEnd
      BY <1>1, PassEnds
    <2>2. UNCHANGED <<nodeContacts, config>> /\ pc # "reconcile"
      BY <2>1 DEF EnforceSkip, EnforceEnd, deviceVars, fileVars
    <2> QED
      BY <1>1, <2>2 DEF PassInv, Declared
  <1>2. PassInv /\ [Next]_vars =>
          [setup = "connect" /\ clean /\ pc' = "idle" => Declarable(config') \subseteq nodeContacts']_vars
    BY <1>1
  <1> QED
    BY <1>2, PassInvariance, PTL DEF Spec, HealedAfterConnect

\* A clean enforcement pass ends with auto-add off, no channel, and no unmanaged
\* contact left of the cached list (enforce_observer_node_config).
THEOREM EnforcementLocksDown == Spec => LockedDown
  <1>1. ASSUME PassInv, [Next]_vars, pc = "prune", pc' = "idle", clean
        PROVE  ~autoadd' /\ ~channels' /\ nodeContacts' \cap cache \subseteq ManagedSet(config')
    <2>1. EnforceEnd
      <3>1. CASE Setup
        BY <1>1, <3>1 DEF Setup, Connect, Reconcile, ReconcileRefresh, EnforceSkip,
           EnforceSettings, EnforcePlan, EnforcePrune, Disconnect
      <3>2. ~Commands
        BY <1>1 DEF Commands, SetRepeaterStatus, AddRepeater, RemoveContact, Refused, StartCommand,
           SaveBegins, SaveRefused, SaveSucceeds, SaveFails, RefreshAnswer, ResyncObserverConfig
      <3>3. ~Reloads /\ ~UNCHANGED vars
        BY <1>1 DEF Reloads, ReloadLoad, ReloadApply, ReloadDone, taskVars, vars
      <3>4. ~Environment
        BY <1>1 DEF Environment, Hear, AutoAdd, UserEdit, Push, NodeChanges, Stop, Start, taskVars
      <3> QED
        BY <1>1, <3>1, <3>2, <3>3, <3>4 DEF Next
    <2>2. UNCHANGED <<nodeContacts, autoadd, channels, config>> /\ toPrune = {}
      BY <2>1 DEF EnforceEnd, deviceVars, fileVars
    <2> QED
      BY <1>1, <2>2 DEF PassInv, Locked
  <1>2. PassInv /\ [Next]_vars =>
          [pc = "prune" /\ pc' = "idle" /\ clean =>
             ~autoadd' /\ ~channels' /\ nodeContacts' \cap cache \subseteq ManagedSet(config')]_vars
    BY <1>1
  <1> QED
    BY <1>2, PassInvariance, PTL DEF Spec, LockedDown

\* Pruning removes a contact the configuration manages only if a reload made it
\* managed after the list was cloned (contacts_to_prune).
THEOREM ManagedIsSpared == Spec => ManagedSurvives
  <1>1. ASSUME PassInv, [Next]_vars, pc = "prune", ~stalePlan
        PROVE  ManagedSet(config) \cap nodeContacts \subseteq nodeContacts'
    <2>1. ASSUME NEW n \in Nodes, EnforcePrune(n)
          PROVE  ManagedSet(config) \cap nodeContacts \subseteq nodeContacts'
      BY <1>1, <2>1, PruneSpares
    <2>2. CASE EnforceEnd \/ Reloads \/ UNCHANGED vars
      BY <2>2 DEF EnforceEnd, Reloads, ReloadLoad, ReloadApply, ReloadDone, vars, deviceVars
    <2>3. CASE Environment
      <3>1. nodeContacts \subseteq nodeContacts'
        BY <1>1, <2>3 DEF Environment, Hear, AutoAdd, UserEdit, Push, NodeChanges, Stop, Start,
           deviceVars
      <3> QED
        BY <3>1
    <2>4. ~Commands
      BY <1>1 DEF Commands, SetRepeaterStatus, AddRepeater, RemoveContact, Refused, StartCommand,
         SaveBegins, SaveRefused, SaveSucceeds, SaveFails, RefreshAnswer, ResyncObserverConfig
    <2>5. CASE Setup
      <3>1. EnforceEnd \/ \E n \in Nodes : EnforcePrune(n)
        BY <1>1, <2>5 DEF Setup, Connect, Reconcile, ReconcileRefresh, EnforceSkip,
           EnforceSettings, EnforcePlan, Disconnect
      <3> QED
        BY <2>1, <2>2, <3>1
    <2> QED
      BY <1>1, <2>2, <2>3, <2>4, <2>5 DEF Next
  <1>2. PassInv /\ [Next]_vars =>
          [pc = "prune" /\ ~stalePlan => ManagedSet(config) \cap nodeContacts \subseteq nodeContacts']_vars
    BY <1>1
  <1> QED
    BY <1>2, PassInvariance, PTL DEF Spec, ManagedSurvives

-----------------------------------------------------------------------------
(* The wizard: smallest and greatest positions, and sets listed in order.  *)

LEMMA HasMin ==
  ASSUME NEW T \in SUBSET Nat, T # {}
  PROVE  \E m \in T : \A i \in T : m <= i
<1> DEFINE R == OpToRel(<, Nat)
<1>1. IsWellFoundedOn(R, Nat)
  BY NatLessThanWellFounded
<1>2. \A i, j \in Nat : i < j => <<i, j>> \in R
  BY DEF OpToRel
<1> HIDE DEF R
<1>3. PICK m \in T : \A i \in T : ~ (<<i, m>> \in R)
  BY <1>1, WFMin
<1>4. ASSUME NEW i \in T PROVE m <= i
  <2>1. ~ (i < m)
    BY <1>2, <1>3
  <2> QED BY <2>1
<1> QED BY <1>4

LEMMA HasMax ==
  ASSUME NEW n \in Nat, NEW S \in SUBSET (1..n), S # {}
  PROVE  \E m \in S : \A i \in S : i <= m
<1> DEFINE T == {n - i : i \in S}
<1>1. T \in SUBSET Nat
  <2>1. \A i \in S : n - i \in Nat
    OBVIOUS
  <2> QED BY <2>1
<1>2. T # {} /\ (\A i \in S : n - i \in T) /\ \A t \in T : \E i \in S : t = n - i
  OBVIOUS
<1> HIDE DEF T
<1>3. PICK m \in T : \A i \in T : m <= i
  BY <1>1, <1>2, HasMin
<1>4. PICK k \in S : m = n - k
  BY <1>2
<1>5. ASSUME NEW i \in S PROVE i <= k
  <2>1. m <= n - i
    BY <1>2, <1>3
  <2> QED BY <1>4, <2>1
<1> QED BY <1>5

-----------------------------------------------------------------------------
(* Positions in their order.                                               *)

\* a lists the positions of S, each once and in their order.
Lists(a, S) ==
  /\ a \in Seq(S)
  /\ \A k, l \in 1..Len(a) : k < l => a[k] < a[l]
  /\ \A i \in S : \E k \in 1..Len(a) : a[k] = i

FirstOf(f, S, n) ==
  f = [i \in 0..n |-> IF i = 0 THEN <<>>
                      ELSE IF i \in S THEN Append(f[i - 1], i) ELSE f[i - 1]]

LEMMA FirstExist ==
  ASSUME NEW n \in Nat, NEW S
  PROVE  \E f : FirstOf(f, S, n)
<1> DEFINE G(s, i) == IF i \in S THEN Append(s, i) ELSE s
           Is(f, m) == f = [i \in 0..m |-> IF i = 0 THEN <<>> ELSE G(f[i - 1], i)]
           T == {k \in Nat : ~\E f : Is(f, k)}
<1>0. \A f, m : FirstOf(f, S, m) <=> Is(f, m)
  BY DEF FirstOf
<1> HIDE DEF G
<1>1. SUFFICES ASSUME T # {} PROVE FALSE
  <2>1. n \notin T => \E f : Is(f, n)
    OBVIOUS
  <2> HIDE DEF T, Is
  <2> QED BY <1>0, <2>1
<1>2. PICK k \in T : \A i \in T : k <= i
  <2>1. T \in SUBSET Nat
    OBVIOUS
  <2> HIDE DEF T
  <2> QED BY <1>1, <2>1, HasMin
<1>3. CASE k = 0
  <2> DEFINE f == [m \in 0..0 |-> <<>>]
  <2>1. Is(f, 0)
    OBVIOUS
  <2> QED BY <1>3, <2>1
<1>4. CASE k # 0
  <2>1. k - 1 \in Nat /\ k \in Nat /\ k - 1 \notin T
    BY <1>2, <1>4
  <2>2. PICK f : Is(f, k - 1)
    BY <2>1
  <2>3. \A m \in 0..k - 1 : f[m] = IF m = 0 THEN <<>> ELSE G(f[m - 1], m)
    BY <2>2
  <2> DEFINE g == [m \in 0..k |-> IF m = k THEN G(f[k - 1], k) ELSE f[m]]
  <2>4. ASSUME NEW m \in 0..k PROVE g[m] = IF m = 0 THEN <<>> ELSE G(g[m - 1], m)
    <3>1. CASE m = k
      <4>1. g[m] = G(f[k - 1], k) /\ g[m - 1] = f[k - 1]
        BY <2>1, <3>1
      <4> QED BY <1>4, <3>1, <4>1
    <3>2. CASE m # k
      <4>1. m \in 0..k - 1 /\ g[m] = f[m]
        BY <2>1, <3>2
      <4>2. m # 0 => g[m - 1] = f[m - 1]
        BY <2>1, <3>2
      <4> QED BY <2>3, <4>1, <4>2
    <3> QED BY <3>1, <3>2
  <2>5. g = [m \in 0..k |-> g[m]]
    OBVIOUS
  <2> HIDE DEF g
  <2>6. Is(g, k)
    BY <2>4, <2>5
  <2> QED BY <1>2, <2>6
<1> QED BY <1>3, <1>4

\* One more position at the end.
LEMMA ListsOneMore ==
  ASSUME NEW n \in Nat, NEW S, NEW a, Lists(a, S \cap 1..n)
  PROVE  Lists(IF n + 1 \in S THEN Append(a, n + 1) ELSE a, S \cap 1..(n + 1))
<1> DEFINE U == S \cap 1..n
           V == S \cap 1..(n + 1)
<1>1. a \in Seq(U) /\ Len(a) \in Nat /\ \A k \in 1..Len(a) : a[k] \in U
  BY DEF Lists
<1>2. CASE n + 1 \notin S
  <2>1. V = U
    BY <1>2
  <2> QED BY <1>2, <2>1
<1>3. CASE n + 1 \in S
  <2>1. V = U \cup {n + 1} /\ \A i \in U : i < n + 1
    BY <1>3
  <2> DEFINE b == Append(a, n + 1)
  <2>2. b \in Seq(V) /\ Len(b) = Len(a) + 1 /\ b[Len(a) + 1] = n + 1
        /\ \A k \in 1..Len(a) : b[k] = a[k]
    <3>1. a \in Seq(V) /\ n + 1 \in V
      BY <1>1, <2>1
    <3> QED BY <1>1, <3>1
  <2> HIDE DEF b, U, V
  <2>3. \A k, l \in 1..Len(b) : k < l => b[k] < b[l]
    <3> SUFFICES ASSUME NEW k \in 1..Len(b), NEW l \in 1..Len(b), k < l PROVE b[k] < b[l]
      OBVIOUS
    <3>1. k \in 1..Len(a) /\ (l \in 1..Len(a) \/ l = Len(a) + 1)
      BY <1>1, <2>2
    <3>2. b[k] = a[k] /\ a[k] < n + 1
      BY <1>1, <2>1, <2>2, <3>1
    <3>3. l \in 1..Len(a) => a[k] < a[l] /\ b[l] = a[l]
      BY <2>2, <3>1 DEF Lists
    <3> QED BY <2>2, <3>1, <3>2, <3>3
  <2>4. ASSUME NEW i \in V PROVE \E k \in 1..Len(b) : b[k] = i
    <3>1. CASE i = n + 1
      BY <1>1, <2>2, <3>1
    <3>2. CASE i \in U
      <4>1. PICK k \in 1..Len(a) : a[k] = i
        BY <3>2 DEF Lists, U
      <4>2. k \in 1..Len(b) /\ b[k] = i
        BY <1>1, <2>2, <4>1
      <4> QED BY <4>2
    <3> QED BY <2>1, <3>1, <3>2
  <2>5. Lists(b, V)
    BY <2>2, <2>3, <2>4 DEF Lists
  <2> QED BY <1>3, <2>5 DEF b, V
<1> QED BY <1>2, <1>3

\* Ascending lists what there is of a set up to a bound (the order of `regions.iter()`).
LEMMA AscendingFacts ==
  ASSUME NEW n \in Nat, NEW S
  PROVE  Lists(Ascending(S, n), S \cap 1..n)
<1> DEFINE f == CHOOSE f : f = [i \in 0..n |-> IF i = 0 THEN <<>>
                      ELSE IF i \in S THEN Append(f[i - 1], i) ELSE f[i - 1]]
           Good(m) == Lists(f[m], S \cap 1..m)
           T == {m \in 0..n : ~Good(m)}
<1>1. Ascending(S, n) = f[n]
  BY DEF Ascending
<1>2. FirstOf(f, S, n)
  <2> DEFINE Is(g) == g = [i \in 0..n |-> IF i = 0 THEN <<>>
                      ELSE IF i \in S THEN Append(g[i - 1], i) ELSE g[i - 1]]
  <2>1. \A g : FirstOf(g, S, n) <=> Is(g)
    BY DEF FirstOf
  <2>2. f = CHOOSE g : Is(g)
    OBVIOUS
  <2> HIDE DEF f, Is
  <2> QED BY <2>1, <2>2, FirstExist
<1> HIDE DEF f
<1>3. \A m \in 0..n : f[m] = IF m = 0 THEN <<>> ELSE IF m \in S THEN Append(f[m - 1], m) ELSE f[m - 1]
  BY <1>2 DEF FirstOf
<1>4. Good(0)
  <2>1. f[0] = <<>> /\ S \cap 1..0 = {} /\ Len(<<>>) = 0 /\ <<>> \in Seq({})
    BY <1>3
  <2> QED BY <2>1 DEF Lists
<1>5. ASSUME NEW m \in 0..n, m # 0, Good(m - 1) PROVE Good(m)
  <2>1. m - 1 \in Nat /\ (m - 1) + 1 = m
    BY <1>5
  <2>2. Lists(IF m \in S THEN Append(f[m - 1], m) ELSE f[m - 1], S \cap 1..m)
    BY <1>5, <2>1, ListsOneMore
  <2> QED BY <1>3, <1>5, <2>2
<1>6. T = {}
  <2> SUFFICES ASSUME T # {} PROVE FALSE
    OBVIOUS
  <2> HIDE DEF Good
  <2>2. PICK m \in T : \A j \in T : m <= j
    <3>1. T \in SUBSET Nat
      OBVIOUS
    <3> HIDE DEF T
    <3> QED BY <3>1, HasMin
  <2>3. m \in 0..n /\ ~Good(m) /\ m # 0
    BY <1>4
  <2>4. m - 1 \in 0..n /\ m - 1 \notin T
    BY <2>2, <2>3
  <2> QED BY <1>5, <2>3, <2>4
<1>7. Good(n)
  <2> HIDE DEF Good
  <2> QED BY <1>6
<1> QED BY <1>1, <1>7

-----------------------------------------------------------------------------
(* The calls of push_with_children.                                        *)

Row == [name : Names \cup {Blank}, depth : Nat]
Call(regions) == [region : DOMAIN regions, depth : Nat]
NamesIn(s) == {s[k].name : k \in DOMAIN s}
Called(visit) == {visit[k].region : k \in DOMAIN visit}

Beginning(regions) == [visit |-> At(0, Roots(regions)), out |-> <<>>]
CallsOf(f, regions, n) ==
  f = [m \in 0..n |-> IF m = 0 THEN Beginning(regions) ELSE PushWithChildren(regions, f[m - 1])]

LEMMA CallsExist ==
  ASSUME NEW n \in Nat, NEW regions
  PROVE  \E f : CallsOf(f, regions, n)
<1> DEFINE Z == Beginning(regions)
           G(st) == PushWithChildren(regions, st)
           Is(f, m) == f = [i \in 0..m |-> IF i = 0 THEN Z ELSE G(f[i - 1])]
           T == {k \in Nat : ~\E f : Is(f, k)}
<1>0. \A f, m : CallsOf(f, regions, m) <=> Is(f, m)
  BY DEF CallsOf
<1> HIDE DEF G, Z
<1>1. SUFFICES ASSUME T # {} PROVE FALSE
  <2>1. n \notin T => \E f : Is(f, n)
    OBVIOUS
  <2> HIDE DEF T, Is
  <2> QED BY <1>0, <2>1
<1>2. PICK k \in T : \A i \in T : k <= i
  <2>1. T \in SUBSET Nat
    OBVIOUS
  <2> HIDE DEF T
  <2> QED BY <1>1, <2>1, HasMin
<1>3. CASE k = 0
  <2> DEFINE f == [m \in 0..0 |-> Z]
  <2>1. Is(f, 0)
    OBVIOUS
  <2> QED BY <1>3, <2>1
<1>4. CASE k # 0
  <2>1. k - 1 \in Nat /\ k \in Nat /\ k - 1 \notin T
    BY <1>2, <1>4
  <2>2. PICK f : Is(f, k - 1)
    BY <2>1
  <2>3. \A m \in 0..k - 1 : f[m] = IF m = 0 THEN Z ELSE G(f[m - 1])
    BY <2>2
  <2> DEFINE g == [m \in 0..k |-> IF m = k THEN G(f[k - 1]) ELSE f[m]]
  <2>4. ASSUME NEW m \in 0..k PROVE g[m] = IF m = 0 THEN Z ELSE G(g[m - 1])
    <3>1. CASE m = k
      <4>1. g[m] = G(f[k - 1]) /\ g[m - 1] = f[k - 1]
        BY <2>1, <3>1
      <4> QED BY <1>4, <3>1, <4>1
    <3>2. CASE m # k
      <4>1. m \in 0..k - 1 /\ g[m] = f[m]
        BY <2>1, <3>2
      <4>2. m # 0 => g[m - 1] = f[m - 1]
        BY <2>1, <3>2
      <4> QED BY <2>3, <4>1, <4>2
    <3> QED BY <3>1, <3>2
  <2>5. g = [m \in 0..k |-> g[m]]
    OBVIOUS
  <2> HIDE DEF g
  <2>6. Is(g, k)
    BY <2>4, <2>5
  <2> QED BY <1>2, <2>6
<1> QED BY <1>3, <1>4

\* flatten_region_tree is what its calls make of an empty list.
LEMMA TheCalls ==
  ASSUME NEW regions, Len(regions) \in Nat
  PROVE  \E f : /\ f[0] = Beginning(regions)
                /\ \A m \in 1..Len(regions) : f[m] = PushWithChildren(regions, f[m - 1])
                /\ FlattenRegionTree(regions) = f[Len(regions)].out
<1> DEFINE N == Len(regions)
           Is(g) == g = [n \in 0..N |-> IF n = 0 THEN [visit |-> At(0, Roots(regions)), out |-> <<>>]
                                        ELSE PushWithChildren(regions, g[n - 1])]
           f == CHOOSE g : Is(g)
<1>1. FlattenRegionTree(regions) = f[N].out
  BY DEF FlattenRegionTree
<1>2. CallsOf(f, regions, N)
  <2>1. \A g : CallsOf(g, regions, N) <=> Is(g)
    BY DEF CallsOf, Beginning
  <2>2. f = CHOOSE g : Is(g)
    OBVIOUS
  <2> HIDE DEF f, Is
  <2> QED BY <2>1, <2>2, CallsExist
<1> HIDE DEF f
<1>3. \A m \in 0..N : f[m] = IF m = 0 THEN Beginning(regions) ELSE PushWithChildren(regions, f[m - 1])
  <2> HIDE DEF N
  <2> QED BY <1>2 DEF CallsOf
<1>4. f[0] = Beginning(regions) /\ \A m \in 1..N : f[m] = PushWithChildren(regions, f[m - 1])
  BY <1>3
<1> QED BY <1>1, <1>4

\* The calls for a list of positions, alone and before those that were to come already.
LEMMA AtFacts ==
  ASSUME NEW regions, NEW c \in Seq(DOMAIN regions), NEW d \in Nat
  PROVE  /\ At(d, c) \in Seq(Call(regions)) /\ Len(At(d, c)) = Len(c) /\ Len(c) \in Nat
         /\ \A k \in 1..Len(c) : At(d, c)[k] = [region |-> c[k], depth |-> d]
<1> DEFINE a == At(d, c)
           b(k) == [region |-> c[k], depth |-> d]
<1>1. DOMAIN c = 1..Len(c) /\ Len(c) \in Nat /\ \A k \in 1..Len(c) : c[k] \in DOMAIN regions
  OBVIOUS
<1>2. \A k \in 1..Len(c) : b(k) \in Call(regions)
  BY <1>1 DEF Call
<1>3. a = [k \in 1..Len(c) |-> b(k)]
  BY <1>1 DEF At
<1> HIDE DEF a, b
<1>4. a \in Seq(Call(regions)) /\ Len(a) = Len(c) /\ \A k \in 1..Len(c) : a[k] = b(k)
  BY <1>1, <1>2, <1>3
<1> QED BY <1>1, <1>4 DEF a, b

Joined(regions, d, c, t, w) ==
  /\ w \in Seq(Call(regions)) /\ Len(w) = Len(c) + Len(t)
  /\ \A k \in 1..Len(c) : w[k] = [region |-> c[k], depth |-> d]
  /\ \A k \in 1..Len(t) : w[Len(c) + k] = t[k]

LEMMA CallsFacts ==
  ASSUME NEW regions, NEW c \in Seq(DOMAIN regions), NEW d \in Nat,
         NEW t \in Seq(Call(regions))
  PROVE  Joined(regions, d, c, t, At(d, c) \o t)
<1> DEFINE a == At(d, c)
<1>1. a \in Seq(Call(regions)) /\ Len(a) = Len(c) /\ Len(c) \in Nat
      /\ \A k \in 1..Len(c) : a[k] = [region |-> c[k], depth |-> d]
  BY AtFacts
<1> HIDE DEF a
<1>2. /\ a \o t \in Seq(Call(regions)) /\ Len(a \o t) = Len(a) + Len(t)
      /\ \A k \in 1..Len(a) : (a \o t)[k] = a[k]
      /\ \A k \in 1..Len(t) : (a \o t)[Len(a) + k] = t[k]
  BY <1>1
<1> QED BY <1>1, <1>2 DEF a, Joined

LEMMA TailFacts ==
  ASSUME NEW D, NEW v \in Seq(D), v # <<>>
  PROVE  /\ Len(v) \in Nat /\ 1 \in 1..Len(v) /\ Head(v) = v[1] /\ v[1] \in D
         /\ Tail(v) \in Seq(D) /\ Len(Tail(v)) = Len(v) - 1
         /\ \A k \in 1..Len(Tail(v)) : Tail(v)[k] = v[k + 1]
<1>1. Len(v) \in Nat /\ Len(v) # 0 /\ 1 \in 1..Len(v)
  BY EmptySeq
<1> QED BY <1>1

\* The children of a name, and the roots, in their order.
LEMMA ChildrenFacts ==
  ASSUME NEW regions, NEW D, regions \in Seq(D), NEW name
  PROVE  /\ Lists(ChildrenOf(regions, name), {i \in DOMAIN regions : regions[i].parent = name})
         /\ Lists(Roots(regions), {i \in DOMAIN regions : IsRoot(regions, i)})
<1>1. Len(regions) \in Nat /\ DOMAIN regions = 1..Len(regions)
  OBVIOUS
<1> DEFINE S == {i \in DOMAIN regions : regions[i].parent = name}
           U == {i \in DOMAIN regions : IsRoot(regions, i)}
<1>2. S \cap 1..Len(regions) = S /\ U \cap 1..Len(regions) = U
  BY <1>1
<1>3. ChildrenOf(regions, name) = Ascending(S, Len(regions)) /\ Roots(regions) = Ascending(U, Len(regions))
  BY DEF ChildrenOf, Roots
<1> HIDE DEF S, U
<1>4. Lists(Ascending(S, Len(regions)), S \cap 1..Len(regions))
      /\ Lists(Ascending(U, Len(regions)), U \cap 1..Len(regions))
  BY <1>1, AscendingFacts
<1> QED BY <1>2, <1>3, <1>4 DEF S, U

-----------------------------------------------------------------------------
(* What the calls have done.                                               *)

\* The list so far has the names of regions, and no more rows than there were calls.
CallState(regions, st, n) ==
  /\ st = [visit |-> st.visit, out |-> st.out]
  /\ st.visit \in Seq(Call(regions))
  /\ st.out \in Seq(Row) /\ Len(st.out) <= n

\* P are the regions whose call has been, each once: together with those whose call
\* is to come they are the roots and the children of the names placed.
Visited(regions, st, n, P) ==
  /\ P \subseteq DOMAIN regions
  /\ st.visit # <<>> => Cardinality(P) = n
  /\ \A k \in DOMAIN st.visit : st.visit[k].region \notin P
  /\ \A k, l \in DOMAIN st.visit : st.visit[k].region = st.visit[l].region => k = l
  /\ \A i \in DOMAIN regions :
       i \in P \cup Called(st.visit) <=> IsRoot(regions, i) \/ regions[i].parent \in NamesIn(st.out)
  /\ \A i \in P : regions[i].name \in NamesIn(st.out)
  /\ NamesIn(st.out) \subseteq NamesIn(regions)

\* The three ways of a call: nothing to visit, a name placed already, a new one.
LEMMA PushCases ==
  ASSUME NEW regions, regions \in Seq(RegionConfig), NEW st, NEW n \in Nat, CallState(regions, st, n)
  PROVE  LET next == st.visit[1]
             name == regions[next.region].name
             new  == PushWithChildren(regions, st)
         IN \/ st.visit = <<>> /\ new = st
            \/ /\ st.visit # <<>> /\ name \in NamesIn(st.out)
               /\ new = [visit |-> Tail(st.visit), out |-> st.out]
            \/ /\ st.visit # <<>> /\ name \notin NamesIn(st.out)
               /\ new = [visit |-> At(next.depth + 1, ChildrenOf(regions, name)) \o Tail(st.visit),
                         out |-> Append(st.out, [name |-> name, depth |-> next.depth])]
<1>1. st = [visit |-> st.visit, out |-> st.out]
  BY DEF CallState
<1>2. CASE st.visit = <<>>
  BY <1>2 DEF PushWithChildren
<1>3. CASE st.visit # <<>>
  <2> DEFINE next == Head(st.visit)
             name == regions[next.region].name
  <2>1. next = st.visit[1]
    BY <1>3, TailFacts DEF CallState
  <2> DEFINE placed == \E k \in DOMAIN st.out : st.out[k].name = name
             w == At(next.depth + 1, ChildrenOf(regions, name)) \o Tail(st.visit)
             o == Append(st.out, [name |-> name, depth |-> next.depth])
  <2>2. placed <=> name \in NamesIn(st.out)
    BY DEF NamesIn
  <2>3. PushWithChildren(regions, st) = IF placed THEN [st EXCEPT !.visit = Tail(@)]
                                        ELSE [visit |-> w, out |-> o]
    BY <1>3 DEF PushWithChildren
  <2>4. [st EXCEPT !.visit = Tail(@)] = [visit |-> Tail(st.visit), out |-> st.out]
    <3> DEFINE v == st.visit
               same == st.out
               t == Tail(st.visit)
    <3>1. st = [visit |-> v, out |-> same]
      BY <1>1
    <3> HIDE DEF v, same, t
    <3>2. [[visit |-> v, out |-> same] EXCEPT !.visit = t] = [visit |-> t, out |-> same]
      OBVIOUS
    <3>3. [st EXCEPT !.visit = t] = [visit |-> t, out |-> same]
      BY <3>1, <3>2
    <3> QED BY <3>3 DEF t, same
  <2> HIDE DEF placed
  <2>5. CASE placed
    BY <1>3, <2>1, <2>2, <2>3, <2>4, <2>5
  <2>6. CASE ~placed
    <3>1. PushWithChildren(regions, st) = [visit |-> w, out |-> o]
      BY <2>3, <2>6
    <3> QED BY <1>3, <2>1, <2>2, <2>6, <3>1
  <2> QED BY <2>5, <2>6
<1> QED BY <1>2, <1>3

\* A call keeps CallState.
LEMMA PushTyped ==
  ASSUME NEW regions, regions \in Seq(RegionConfig), NEW st, NEW n \in Nat, CallState(regions, st, n)
  PROVE  CallState(regions, PushWithChildren(regions, st), n + 1)
<1> DEFINE v == st.visit
           o == st.out
           next == v[1]
           name == regions[next.region].name
           new == PushWithChildren(regions, st)
<1>1. /\ v \in Seq(Call(regions)) /\ o \in Seq(Row) /\ Len(o) <= n /\ Len(o) \in Nat
  BY DEF CallState
<1>2. CASE v = <<>> /\ new = st
  <2>1. Len(o) <= n + 1
    BY <1>1
  <2> QED BY <1>2, <2>1 DEF CallState
<1>3. CASE v # <<>> /\ name \in NamesIn(o) /\ new = [visit |-> Tail(v), out |-> o]
  <2>1. Tail(v) \in Seq(Call(regions))
    BY <1>1, <1>3, TailFacts
  <2>2. Len(o) <= n + 1
    BY <1>1
  <2> HIDE DEF v, o, new
  <2>3. CallState(regions, new, n + 1)
    BY <1>1, <1>3, <2>1, <2>2 DEF CallState
  <2> QED BY <2>3 DEF new
<1>4. CASE /\ v # <<>> /\ name \notin NamesIn(o)
           /\ new = [visit |-> At(next.depth + 1, ChildrenOf(regions, name)) \o Tail(v),
                     out |-> Append(o, [name |-> name, depth |-> next.depth])]
  <2> DEFINE c == ChildrenOf(regions, name)
             w == At(next.depth + 1, c) \o Tail(v)
             b == Append(o, [name |-> name, depth |-> next.depth])
  <2>1. next \in Call(regions) /\ Tail(v) \in Seq(Call(regions))
    BY <1>1, <1>4, TailFacts
  <2>2. next.region \in DOMAIN regions /\ next.depth \in Nat /\ next.depth + 1 \in Nat
    BY <2>1 DEF Call
  <2>3. c \in Seq(DOMAIN regions)
    <3>1. Lists(c, {i \in DOMAIN regions : regions[i].parent = name})
      BY ChildrenFacts
    <3> HIDE DEF c
    <3> QED BY <3>1 DEF Lists
  <2>4. w \in Seq(Call(regions))
    <3> HIDE DEF c, v, next
    <3> QED BY <2>1, <2>2, <2>3, CallsFacts DEF Joined
  <2>5. [name |-> name, depth |-> next.depth] \in Row
    <3>1. name \in Names \cup {Blank}
      <4>1. regions[next.region] \in RegionConfig
        BY <2>2
      <4> QED BY <4>1 DEF RegionConfig
    <3> QED BY <2>2, <3>1 DEF Row
  <2>6. b \in Seq(Row) /\ Len(b) = Len(o) + 1
    <3> HIDE DEF o, name, next
    <3> QED BY <1>1, <2>5
  <2>7. Len(b) <= n + 1
    BY <1>1, <2>6
  <2>8. new = [visit |-> w, out |-> b]
    BY <1>4
  <2> HIDE DEF w, b, new
  <2>9. new.visit = w /\ new.out = b /\ new = [visit |-> new.visit, out |-> new.out]
    BY <2>8
  <2>10. CallState(regions, new, n + 1)
    BY <2>4, <2>6, <2>7, <2>9 DEF CallState
  <2> QED BY <2>10 DEF new
<1>5. \/ v = <<>> /\ new = st
      \/ v # <<>> /\ name \in NamesIn(o) /\ new = [visit |-> Tail(v), out |-> o]
      \/ /\ v # <<>> /\ name \notin NamesIn(o)
         /\ new = [visit |-> At(next.depth + 1, ChildrenOf(regions, name)) \o Tail(v),
                   out |-> Append(o, [name |-> name, depth |-> next.depth])]
  BY PushCases
<1> QED BY <1>2, <1>3, <1>4, <1>5

\* The region called is the first to visit, and none of the others.
LEMMA FirstCalled ==
  ASSUME NEW regions, NEW v \in Seq(Call(regions)), v # <<>>,
         \A k, l \in DOMAIN v : v[k].region = v[l].region => k = l
  PROVE  /\ v[1].region \in DOMAIN regions
         /\ v[1].region \in Called(v) /\ v[1].region \notin Called(Tail(v))
         /\ Called(v) = {v[1].region} \cup Called(Tail(v))
         /\ \A k, l \in DOMAIN Tail(v) : Tail(v)[k].region = Tail(v)[l].region => k = l
<1> DEFINE t == Tail(v)
<1>1. /\ Len(v) \in Nat /\ 1 \in 1..Len(v) /\ v[1] \in Call(regions) /\ DOMAIN v = 1..Len(v)
      /\ Len(t) = Len(v) - 1 /\ DOMAIN t = 1..Len(t)
      /\ \A k \in 1..Len(t) : t[k] = v[k + 1]
  BY TailFacts
<1> HIDE DEF t
<1>2. \A k \in DOMAIN t : k + 1 \in DOMAIN v /\ k + 1 # 1 /\ t[k] = v[k + 1]
  BY <1>1
<1>3. \A k \in DOMAIN v : k # 1 => k - 1 \in DOMAIN t /\ t[k - 1] = v[k]
  BY <1>1
<1>4. v[1].region \in DOMAIN regions /\ v[1].region \in Called(v)
  BY <1>1 DEF Call, Called
<1>5. v[1].region \notin Called(t)
  BY <1>1, <1>2 DEF Called
<1>6. Called(v) = {v[1].region} \cup Called(t)
  <2>1. ASSUME NEW i \in Called(v) PROVE i \in {v[1].region} \cup Called(t)
    <3>1. PICK k \in DOMAIN v : i = v[k].region
      BY DEF Called
    <3>2. k # 1 => k - 1 \in DOMAIN t /\ t[k - 1].region = i
      BY <1>3, <3>1
    <3> QED BY <3>1, <3>2 DEF Called
  <2>2. Called(t) \subseteq Called(v)
    BY <1>2 DEF Called
  <2> QED BY <1>4, <2>1, <2>2
<1>7. \A k, l \in DOMAIN t : t[k].region = t[l].region => k = l
  <2> SUFFICES ASSUME NEW k \in DOMAIN t, NEW l \in DOMAIN t, t[k].region = t[l].region PROVE k = l
    OBVIOUS
  <2>1. k + 1 = l + 1
    BY <1>2
  <2> QED BY <1>1, <2>1
<1> QED BY <1>4, <1>5, <1>6, <1>7 DEF t

\* Two lists of regions without one in common or one twice.
Apart(regions, c, t) ==
  /\ c \in Seq(DOMAIN regions) /\ t \in Seq(Call(regions))
  /\ \A k, l \in DOMAIN c : c[k] = c[l] => k = l
  /\ \A k, l \in DOMAIN t : t[k].region = t[l].region => k = l
  /\ \A k \in DOMAIN c : c[k] \notin Called(t)
CalledOnce(w, S) ==
  /\ \A k, l \in DOMAIN w : w[k].region = w[l].region => k = l
  /\ Called(w) = S

\* The children of a name just placed are called before what was to come.
LEMMA ChildrenCalled ==
  ASSUME NEW regions, NEW d \in Nat, NEW c, NEW t, Apart(regions, c, t)
  PROVE  CalledOnce(At(d, c) \o t, ToSet(c) \cup Called(t))
<1> DEFINE w == At(d, c) \o t
<1>0. c \in Seq(DOMAIN regions) /\ t \in Seq(Call(regions))
  BY DEF Apart
<1>1. /\ w \in Seq(Call(regions)) /\ Len(w) = Len(c) + Len(t)
      /\ \A k \in 1..Len(c) : w[k] = [region |-> c[k], depth |-> d]
      /\ \A k \in 1..Len(t) : w[Len(c) + k] = t[k]
  BY <1>0, CallsFacts DEF Joined
<1> HIDE DEF w
<1>2. /\ Len(c) \in Nat /\ Len(t) \in Nat /\ DOMAIN c = 1..Len(c) /\ DOMAIN t = 1..Len(t)
      /\ DOMAIN w = 1..Len(w)
  BY <1>0, <1>1
<1>3. ASSUME NEW k \in DOMAIN c PROVE k \in DOMAIN w /\ w[k].region = c[k]
  <2>1. k \in 1..Len(w)
    BY <1>1, <1>2
  <2>2. w[k] = [region |-> c[k], depth |-> d]
    BY <1>1, <1>2
  <2> QED BY <1>2, <2>1, <2>2
<1>4. \A k \in DOMAIN t : Len(c) + k \in DOMAIN w /\ w[Len(c) + k].region = t[k].region
  BY <1>1, <1>2
<1>5. ASSUME NEW k \in DOMAIN w
      PROVE  \/ k \in DOMAIN c
             \/ k > Len(c) /\ k - Len(c) \in DOMAIN t /\ k = Len(c) + (k - Len(c))
  <2>1. Len(w) = Len(c) + Len(t)
    BY <1>1
  <2> QED BY <1>2, <2>1
<1>6. ASSUME NEW k \in DOMAIN w, NEW l \in DOMAIN w, w[k].region = w[l].region PROVE k = l
  <2>1. CASE k \in DOMAIN c /\ l \in DOMAIN c
    <3>1. c[k] = c[l]
      BY <1>3, <1>6, <2>1
    <3> QED BY <2>1, <3>1 DEF Apart
  <2>2. CASE k \in DOMAIN c /\ l \notin DOMAIN c
    <3>1. l - Len(c) \in DOMAIN t /\ t[l - Len(c)].region = w[l].region
      BY <1>4, <1>5, <2>2
    <3>2. w[l].region \in Called(t) /\ w[k].region \notin Called(t)
      BY <1>3, <2>2, <3>1 DEF Called, Apart
    <3> QED BY <1>6, <3>2
  <2>3. CASE k \notin DOMAIN c /\ l \in DOMAIN c
    <3>1. k - Len(c) \in DOMAIN t /\ t[k - Len(c)].region = w[k].region
      BY <1>4, <1>5, <2>3
    <3>2. w[k].region \in Called(t) /\ w[l].region \notin Called(t)
      BY <1>3, <2>3, <3>1 DEF Called, Apart
    <3> QED BY <1>6, <3>2
  <2>4. CASE k \notin DOMAIN c /\ l \notin DOMAIN c
    <3>1. /\ k - Len(c) \in DOMAIN t /\ t[k - Len(c)].region = w[k].region
          /\ l - Len(c) \in DOMAIN t /\ t[l - Len(c)].region = w[l].region
      BY <1>4, <1>5, <2>4
    <3>2. k - Len(c) = l - Len(c)
      BY <1>6, <3>1 DEF Apart
    <3> QED BY <1>2, <1>5, <2>4, <3>2
  <2> QED BY <2>1, <2>2, <2>3, <2>4
<1>7. Called(w) = {c[k] : k \in DOMAIN c} \cup Called(t)
  <2>1. ASSUME NEW i \in Called(w) PROVE i \in {c[k] : k \in DOMAIN c} \cup Called(t)
    <3>1. PICK k \in DOMAIN w : i = w[k].region
      BY DEF Called
    <3>2. CASE k \in DOMAIN c
      BY <1>3, <3>1, <3>2
    <3>3. CASE k \notin DOMAIN c
      <4>1. k - Len(c) \in DOMAIN t /\ i = t[k - Len(c)].region
        BY <1>4, <1>5, <3>1, <3>3
      <4> QED BY <4>1 DEF Called
    <3> QED BY <3>2, <3>3
  <2>2. ASSUME NEW i \in {c[k] : k \in DOMAIN c} PROVE i \in Called(w)
    <3>1. PICK k \in DOMAIN c : i = c[k]
      BY <2>2
    <3> QED BY <1>3, <3>1 DEF Called
  <2>3. ASSUME NEW i \in Called(t) PROVE i \in Called(w)
    <3>1. PICK k \in DOMAIN t : i = t[k].region
      BY DEF Called
    <3> QED BY <1>4, <3>1 DEF Called
  <2> QED BY <2>1, <2>2, <2>3
<1> QED BY <1>6, <1>7 DEF CalledOnce, ToSet, w

\* A call keeps Visited: the region called joins P, the children of a new name are
\* those to come.
LEMMA PushVisited ==
  ASSUME NEW regions, regions \in Seq(RegionConfig), NEW st, NEW n \in Nat, CallState(regions, st, n),
         NEW P, Visited(regions, st, n, P)
  PROVE  \E Q : Visited(regions, PushWithChildren(regions, st), n + 1, Q)
<1> DEFINE v == st.visit
           o == st.out
           t == Tail(v)
           next == v[1]
           i == next.region
           name == regions[i].name
           new == PushWithChildren(regions, st)
           Q == P \cup {i}
<1>1. v \in Seq(Call(regions)) /\ o \in Seq(Row) /\ DOMAIN regions = 1..Len(regions) /\ Len(regions) \in Nat
  BY DEF CallState
<1>2. /\ P \subseteq DOMAIN regions
      /\ v # <<>> => Cardinality(P) = n
      /\ \A k \in DOMAIN v : v[k].region \notin P
      /\ \A k, l \in DOMAIN v : v[k].region = v[l].region => k = l
      /\ \A j \in DOMAIN regions :
           j \in P \cup Called(v) <=> IsRoot(regions, j) \/ regions[j].parent \in NamesIn(o)
      /\ \A j \in P : regions[j].name \in NamesIn(o)
      /\ NamesIn(o) \subseteq NamesIn(regions)
  BY DEF Visited
<1>3. CASE v = <<>> /\ new = st
  <2>1. Visited(regions, st, n + 1, P)
    BY <1>2, <1>3 DEF Visited
  <2> QED BY <1>3, <2>1
<1>4. ASSUME v # <<>>
      PROVE  /\ i \in DOMAIN regions /\ i \in Called(v) /\ i \notin P /\ i \notin Called(t)
             /\ Called(v) = {i} \cup Called(t)
             /\ \A k, l \in DOMAIN t : t[k].region = t[l].region => k = l
             /\ \A j \in Called(v) : j \notin P
             /\ Q \subseteq DOMAIN regions /\ Cardinality(Q) = n + 1
             /\ t \in Seq(Call(regions)) /\ next.depth \in Nat
  <2>1. /\ i \in DOMAIN regions /\ i \in Called(v) /\ i \notin Called(t)
        /\ Called(v) = {i} \cup Called(t)
        /\ \A k, l \in DOMAIN t : t[k].region = t[l].region => k = l
    BY <1>1, <1>2, <1>4, FirstCalled
  <2>2. \A j \in Called(v) : j \notin P
    BY <1>2 DEF Called
  <2> HIDE DEF i, v, t
  <2>3. i \notin P
    BY <2>1, <2>2
  <2>4. IsFiniteSet(P) /\ Cardinality(P) = n
    <3>1. IsFiniteSet(1..Len(regions))
      BY <1>1, FS_Interval
    <3> QED BY <1>1, <1>2, <1>4, <3>1, FS_Subset
  <2>5. Cardinality(Q) = n + 1
    BY <2>3, <2>4, FS_AddElement
  <2>6. t \in Seq(Call(regions)) /\ next \in Call(regions)
    BY <1>1, <1>4, TailFacts DEF t
  <2> QED BY <1>2, <2>1, <2>2, <2>3, <2>5, <2>6 DEF Call
<1>5. CASE v # <<>> /\ name \in NamesIn(o) /\ new = [visit |-> t, out |-> o]
  <2>1. new.visit = t /\ new.out = o
    BY <1>5
  <2> HIDE DEF new, v, o, t, name, i
  <2>2. \A k \in DOMAIN t : t[k].region \notin Q
    <3>1. \A k \in DOMAIN t : t[k].region \in Called(t)
      BY DEF Called
    <3> QED BY <1>4, <1>5, <3>1
  <2>3. Q \cup Called(t) = P \cup Called(v)
    BY <1>4, <1>5
  <2>4. \A j \in Q : regions[j].name \in NamesIn(o)
    BY <1>2, <1>5 DEF name
  <2> HIDE DEF Q
  <2>5. /\ Q \subseteq DOMAIN regions /\ Cardinality(Q) = n + 1
        /\ \A k, l \in DOMAIN t : t[k].region = t[l].region => k = l
    BY <1>4, <1>5
  <2>6. \A j \in DOMAIN regions :
          j \in Q \cup Called(t) <=> IsRoot(regions, j) \/ regions[j].parent \in NamesIn(o)
    BY <1>2, <2>3
  <2>7. Visited(regions, new, n + 1, Q)
    BY <1>2, <2>1, <2>2, <2>4, <2>5, <2>6 DEF Visited
  <2> QED BY <2>7 DEF new
<1>6. CASE /\ v # <<>> /\ name \notin NamesIn(o)
           /\ new = [visit |-> At(next.depth + 1, ChildrenOf(regions, name)) \o t,
                     out |-> Append(o, [name |-> name, depth |-> next.depth])]
  <2> DEFINE c == ChildrenOf(regions, name)
             C == {j \in DOMAIN regions : regions[j].parent = name}
             d == next.depth + 1
             w == At(d, c) \o t
             b == Append(o, [name |-> name, depth |-> next.depth])
  <2>1. new.visit = w /\ new.out = b
    <3>1. new = [visit |-> w, out |-> b]
      BY <1>6
    <3> HIDE DEF new, w, b
    <3> QED BY <3>1
  <2>2. NamesIn(b) = NamesIn(o) \cup {name}
    <3> DEFINE r == [name |-> name, depth |-> next.depth]
    <3>1. r.name = name
      OBVIOUS
    <3> HIDE DEF r, o, name
    <3>2. /\ Len(o) \in Nat /\ DOMAIN o = 1..Len(o) /\ DOMAIN Append(o, r) = 1..Len(o) + 1
          /\ Append(o, r)[Len(o) + 1] = r /\ \A k \in 1..Len(o) : Append(o, r)[k] = o[k]
      BY <1>1
    <3>3. \A k : k \in 1..Len(o) + 1 <=> k \in 1..Len(o) \/ k = Len(o) + 1
      BY <3>2
    <3>4. {Append(o, r)[k].name : k \in 1..Len(o) + 1} = {o[k].name : k \in 1..Len(o)} \cup {r.name}
      BY <3>2, <3>3
    <3> QED BY <3>1, <3>2, <3>4 DEF NamesIn, r
  <2>3. /\ c \in Seq(DOMAIN regions) /\ (\A k, l \in DOMAIN c : c[k] = c[l] => k = l)
        /\ {c[k] : k \in DOMAIN c} = C
    <3>1. Lists(c, C)
      BY ChildrenFacts
    <3> HIDE DEF c, C
    <3>2. c \in Seq(C) /\ Len(c) \in Nat /\ DOMAIN c = 1..Len(c) /\ \A k \in DOMAIN c : c[k] \in C
      BY <3>1 DEF Lists
    <3>3. C \subseteq DOMAIN regions
      BY DEF C
    <3>4. \A k, l \in DOMAIN c : c[k] = c[l] => k = l
      <4> SUFFICES ASSUME NEW k \in DOMAIN c, NEW l \in DOMAIN c, k < l PROVE c[k] # c[l]
        <5>1. \A k, l \in DOMAIN c : k = l \/ k < l \/ l < k
          BY <3>2
        <5> QED BY <5>1
      <4>1. c[k] < c[l] /\ c[k] \in Nat /\ c[l] \in Nat
        <5>1. c[k] \in 1..Len(regions) /\ c[l] \in 1..Len(regions)
          BY <1>1, <3>2, <3>3
        <5> QED BY <3>1, <3>2, <5>1 DEF Lists
      <4> QED BY <4>1
    <3>5. {c[k] : k \in DOMAIN c} = C
      BY <3>1, <3>2 DEF Lists
    <3> QED BY <3>2, <3>3, <3>4, <3>5
  <2> HIDE DEF new, v, o, t, name, i, b, next
  <2>4. ASSUME NEW j \in C PROVE j \notin P \cup Called(v) /\ j \in DOMAIN regions
    <3>1. regions[j].parent = regions[i].name /\ i \in DOMAIN regions
      BY <1>4, <1>6 DEF name
    <3>2. ~ IsRoot(regions, j)
      BY <3>1 DEF IsRoot
    <3> QED BY <1>2, <1>6, <3>2
  <2>5. C \cap P = {} /\ C \cap Called(t) = {} /\ i \notin C
    BY <1>4, <1>6, <2>4
  <2>6. /\ \A k, l \in DOMAIN w : w[k].region = w[l].region => k = l
        /\ Called(w) = C \cup Called(t)
    <3>1. \A k \in DOMAIN c : c[k] \notin Called(t)
      BY <2>3, <2>5
    <3>2. d \in Nat /\ t \in Seq(Call(regions)) /\ \A k, l \in DOMAIN t : t[k].region = t[l].region => k = l
      BY <1>4, <1>6
    <3> HIDE DEF c, d, C
    <3>3. CalledOnce(w, ToSet(c) \cup Called(t))
      <4>1. Apart(regions, c, t)
        BY <2>3, <3>1, <3>2 DEF Apart
      <4> QED BY <3>2, <4>1, ChildrenCalled
    <3> QED BY <2>3, <3>3 DEF CalledOnce, ToSet
  <2> HIDE DEF w
  <2>7. \A k \in DOMAIN w : w[k].region \notin Q
    <3>1. \A k \in DOMAIN w : w[k].region \in C \cup Called(t)
      BY <2>6 DEF Called
    <3> QED BY <1>4, <1>6, <2>5, <3>1
  <2>8. ASSUME NEW j \in DOMAIN regions
        PROVE  j \in Q \cup Called(w) <=> IsRoot(regions, j) \/ regions[j].parent \in NamesIn(b)
    <3>1. j \in Q \cup Called(w) <=> j \in P \cup Called(v) \/ j \in C
      BY <1>4, <1>6, <2>6
    <3>2. regions[j].parent \in NamesIn(b) <=> regions[j].parent \in NamesIn(o) \/ j \in C
      BY <2>2
    <3> QED BY <1>2, <3>1, <3>2
  <2>9. \A j \in Q : regions[j].name \in NamesIn(b)
    BY <1>2, <2>2 DEF name
  <2>10. NamesIn(b) \subseteq NamesIn(regions)
    BY <1>2, <1>4, <1>6, <2>2 DEF name, NamesIn
  <2> HIDE DEF Q
  <2>11. Q \subseteq DOMAIN regions /\ Cardinality(Q) = n + 1
    BY <1>4, <1>6
  <2>12. Visited(regions, new, n + 1, Q)
    BY <2>1, <2>6, <2>7, <2>8, <2>9, <2>10, <2>11 DEF Visited
  <2> QED BY <2>12 DEF new
<1>7. \/ v = <<>> /\ new = st
      \/ v # <<>> /\ name \in NamesIn(o) /\ new = [visit |-> t, out |-> o]
      \/ /\ v # <<>> /\ name \notin NamesIn(o)
         /\ new = [visit |-> At(next.depth + 1, ChildrenOf(regions, name)) \o t,
                   out |-> Append(o, [name |-> name, depth |-> next.depth])]
  BY PushCases
<1> QED BY <1>3, <1>5, <1>6, <1>7

\* Before the first call.
LEMMA BeginningFacts ==
  ASSUME NEW regions, regions \in Seq(RegionConfig)
  PROVE  /\ CallState(regions, Beginning(regions), 0)
         /\ Visited(regions, Beginning(regions), 0, {})
<1> DEFINE c == Roots(regions)
           U == {i \in DOMAIN regions : IsRoot(regions, i)}
           w == At(0, c)
           st == Beginning(regions)
<1>1. /\ c \in Seq(DOMAIN regions) /\ DOMAIN c = 1..Len(c) /\ Len(c) \in Nat
      /\ \A k, l \in DOMAIN c : c[k] = c[l] => k = l
      /\ \A i : i \in U <=> \E k \in DOMAIN c : c[k] = i
  <2>1. Lists(c, U) /\ DOMAIN regions \subseteq Nat
    <3>1. Lists(c, U)
      BY ChildrenFacts
    <3>2. DOMAIN regions = 1..Len(regions)
      OBVIOUS
    <3> QED BY <3>1, <3>2
  <2>2. U \subseteq DOMAIN regions
    OBVIOUS
  <2> HIDE DEF c, U
  <2>3. c \in Seq(U) /\ Len(c) \in Nat /\ DOMAIN c = 1..Len(c) /\ \A k \in DOMAIN c : c[k] \in U
    BY <2>1 DEF Lists
  <2>4. ASSUME NEW k \in DOMAIN c, NEW l \in DOMAIN c, k < l PROVE c[k] # c[l]
    <3>1. c[k] < c[l] /\ c[k] \in Nat /\ c[l] \in Nat
      BY <2>1, <2>2, <2>3, <2>4 DEF Lists
    <3> QED BY <3>1
  <2>5. \A k, l \in DOMAIN c : k = l \/ k < l \/ l < k
    BY <2>3
  <2>6. \A k, l \in DOMAIN c : c[k] = c[l] => k = l
    BY <2>4, <2>5
  <2>7. \A i : i \in U <=> \E k \in DOMAIN c : c[k] = i
    BY <2>1, <2>3 DEF Lists
  <2> QED BY <2>2, <2>3, <2>6, <2>7
<1>2. /\ w \in Seq(Call(regions)) /\ DOMAIN w = DOMAIN c
      /\ \A k \in DOMAIN c : w[k].region = c[k]
  <2> HIDE DEF c
  <2>1. /\ w \in Seq(Call(regions)) /\ Len(w) = Len(c)
        /\ \A k \in 1..Len(c) : w[k] = [region |-> c[k], depth |-> 0]
    BY <1>1, AtFacts
  <2>2. DOMAIN w = DOMAIN c /\ \A k \in DOMAIN c : w[k] = [region |-> c[k], depth |-> 0]
    BY <1>1, <2>1
  <2> HIDE DEF w
  <2>3. ASSUME NEW k \in DOMAIN c PROVE w[k].region = c[k]
    <3>1. w[k] = [region |-> c[k], depth |-> 0]
      BY <2>2
    <3> QED BY <3>1
  <2> QED BY <2>1, <2>2, <2>3
<1>3. st.visit = w /\ st.out = <<>> /\ st = [visit |-> st.visit, out |-> st.out]
  BY DEF Beginning
<1>4. <<>> \in Seq(Row) /\ Len(<<>>) = 0 /\ NamesIn(<<>>) = {}
  BY DEF NamesIn
<1> HIDE DEF c, w, st
<1>5. CallState(regions, st, 0)
  BY <1>2, <1>3, <1>4 DEF CallState
<1>6. Called(w) = U
  BY <1>1, <1>2 DEF Called
<1>7. Cardinality({}) = 0
  BY FS_EmptySet
<1>8. Visited(regions, st, 0, {})
  BY <1>1, <1>2, <1>3, <1>4, <1>6, <1>7 DEF Visited
<1> QED BY <1>5, <1>8 DEF st

\* The flattened tree has a row for some of the regions, and for each region that is a
\* root or has a parent among the rows (region.rs flatten_region_tree).
LEMMA FlattenFacts ==
  ASSUME NEW regions, regions \in Seq(RegionConfig)
  PROVE  LET back == FlattenRegionTree(regions)
         IN /\ back \in Seq(Row) /\ Len(back) <= Len(regions)
            /\ NamesIn(back) \subseteq NamesIn(regions)
            /\ \A i \in DOMAIN regions :
                 IsRoot(regions, i) \/ regions[i].parent \in NamesIn(back) => regions[i].name \in NamesIn(back)
<1> DEFINE N == Len(regions)
<1>1. N \in Nat /\ DOMAIN regions = 1..N
  OBVIOUS
<1>2. PICK f : /\ f[0] = Beginning(regions)
               /\ \A m \in 1..N : f[m] = PushWithChildren(regions, f[m - 1])
               /\ FlattenRegionTree(regions) = f[N].out
  BY <1>1, TheCalls
<1> DEFINE Good(m) == CallState(regions, f[m], m) /\ \E P : Visited(regions, f[m], m, P)
           T == {m \in 0..N : ~Good(m)}
<1> HIDE DEF N
<1>3. Good(0)
  BY <1>2, BeginningFacts
<1>4. ASSUME NEW m \in 0..N, m # 0, Good(m - 1) PROVE Good(m)
  <2>1. m - 1 \in Nat /\ (m - 1) + 1 = m /\ m \in 1..N
    BY <1>1, <1>4
  <2>2. PICK P : Visited(regions, f[m - 1], m - 1, P)
    BY <1>4
  <2>3. \E Q : Visited(regions, PushWithChildren(regions, f[m - 1]), (m - 1) + 1, Q)
    BY <1>4, <2>1, <2>2, PushVisited
  <2>4. CallState(regions, PushWithChildren(regions, f[m - 1]), (m - 1) + 1)
    BY <1>4, <2>1, PushTyped
  <2> QED BY <1>2, <2>1, <2>3, <2>4
<1>5. T = {}
  <2> SUFFICES ASSUME T # {} PROVE FALSE
    OBVIOUS
  <2> HIDE DEF Good
  <2>2. PICK m \in T : \A j \in T : m <= j
    <3>1. T \in SUBSET Nat
      BY <1>1
    <3> HIDE DEF T
    <3> QED BY <3>1, HasMin
  <2>3. m \in 0..N /\ ~Good(m) /\ m # 0
    BY <1>3
  <2>4. m - 1 \in 0..N /\ m - 1 \notin T
    BY <1>1, <2>2, <2>3
  <2> QED BY <1>4, <2>3, <2>4
<1>6. Good(N)
  <2> HIDE DEF Good
  <2> QED BY <1>1, <1>5
<1> DEFINE st == f[N]
           back == st.out
<1>7. CallState(regions, st, N)
  BY <1>6
<1>8. PICK P : Visited(regions, st, N, P)
  BY <1>6
<1> HIDE DEF st
<1>9. st.visit = <<>>
  <2> SUFFICES ASSUME st.visit # <<>> PROVE FALSE
    OBVIOUS
  <2>1. st.visit \in Seq(Call(regions))
    BY <1>7 DEF CallState
  <2>2. 1 \in DOMAIN st.visit /\ st.visit[1].region \in DOMAIN regions
    <3> DEFINE v == st.visit
    <3> HIDE DEF v
    <3>1. v \in Seq(Call(regions)) /\ v # <<>>
      BY <2>1 DEF v
    <3>2. DOMAIN v = 1..Len(v) /\ 1 \in 1..Len(v) /\ v[1] \in Call(regions)
      BY <3>1, TailFacts
    <3>3. v[1].region \in DOMAIN regions
      BY <3>2 DEF Call
    <3> QED BY <3>2, <3>3 DEF v
  <2>3. P \subseteq 1..N /\ Cardinality(P) = N /\ st.visit[1].region \notin P
    BY <1>1, <1>8, <2>2 DEF Visited
  <2>4. IsFiniteSet(1..N) /\ Cardinality(1..N) = N
    <3>0. 1 \in Int /\ N \in Int
      BY <1>1
    <3>1. IsFiniteSet(1..N) /\ Cardinality(1..N) = IF 1 > N THEN 0 ELSE N - 1 + 1
      BY <3>0, FS_Interval
    <3> QED BY <1>1, <3>1
  <2>5. P = 1..N
    BY <2>3, <2>4, FS_Subset
  <2> QED BY <1>1, <2>2, <2>3, <2>5
<1>10. back \in Seq(Row) /\ Len(back) <= N
  BY <1>7 DEF CallState
<1>11. Called(st.visit) = {}
  BY <1>9 DEF Called
<1>12. NamesIn(back) \subseteq NamesIn(regions)
  BY <1>8 DEF Visited
<1>13. ASSUME NEW i \in DOMAIN regions, IsRoot(regions, i) \/ regions[i].parent \in NamesIn(back)
       PROVE  regions[i].name \in NamesIn(back)
  BY <1>8, <1>11, <1>13 DEF Visited
<1> QED BY <1>2, <1>10, <1>12, <1>13 DEF st, N

-----------------------------------------------------------------------------
(* Outlines and the regions saved for them.                                *)

LEMMA RowFacts ==
  ASSUME NEW o \in Seq(Row)
  PROVE  /\ Len(o) \in Nat /\ DOMAIN o = 1..Len(o)
         /\ \A i \in DOMAIN o : o[i] \in Row /\ o[i].depth \in Nat /\ o[i].name \in Names \cup {Blank}
                              /\ o[i] = [name |-> o[i].name, depth |-> o[i].depth]
<1>1. Len(o) \in Nat /\ DOMAIN o = 1..Len(o) /\ \A i \in DOMAIN o : o[i] \in Row
  OBVIOUS
<1>2. ASSUME NEW r \in Row
      PROVE  r.depth \in Nat /\ r.name \in Names \cup {Blank} /\ r = [name |-> r.name, depth |-> r.depth]
  BY DEF Row
<1> QED BY <1>1, <1>2

\* The parent of a row is the nearest row above that is one level shallower.
LEMMA ParentFacts ==
  ASSUME NEW o \in Seq(Row), NEW i \in DOMAIN o
  PROVE  \/ /\ \A j \in 1..(i - 1) : o[j].depth # o[i].depth - 1
            /\ ParentIn(o, i) = None
         \/ \E j \in 1..(i - 1) :
              /\ o[j].depth = o[i].depth - 1 /\ ParentIn(o, i) = o[j].name
              /\ \A k \in 1..(i - 1) : o[k].depth = o[i].depth - 1 => k <= j
<1> DEFINE above == {j \in 1..(i - 1) : o[j].depth = o[i].depth - 1}
           m == CHOOSE j \in above : \A k \in above : k <= j
<1>1. i \in Nat /\ i - 1 \in Nat
  BY RowFacts
<1>2. ParentIn(o, i) = IF above = {} THEN None ELSE o[m].name
  BY DEF ParentIn
<1>3. CASE above = {}
  BY <1>2, <1>3
<1>4. CASE above # {}
  <2>1. above \in SUBSET (1..(i - 1))
    OBVIOUS
  <2>2. \E j \in above : \A k \in above : k <= j
    <3> HIDE DEF above
    <3> QED BY <1>1, <1>4, <2>1, HasMax
  <2>3. m \in above /\ \A k \in above : k <= m
    <3> HIDE DEF above
    <3> QED BY <2>2
  <2> HIDE DEF m
  <2> QED BY <1>2, <1>4, <2>3
<1> QED BY <1>3, <1>4

LEMMA SavedFacts ==
  ASSUME NEW o \in Seq(Row)
  PROVE  LET R == RegionsFromOutline(o)
         IN /\ R \in Seq(RegionConfig) /\ Len(R) = Len(o) /\ DOMAIN R = DOMAIN o
            /\ \A i \in DOMAIN o : R[i].name = o[i].name /\ R[i].parent = ParentIn(o, i)
            /\ NamesIn(R) = NamesIn(o)
<1> DEFINE r(i) == [name |-> o[i].name, parent |-> ParentIn(o, i)]
           R == RegionsFromOutline(o)
<1>1. Len(o) \in Nat /\ DOMAIN o = 1..Len(o)
  BY RowFacts
<1>2. ASSUME NEW i \in DOMAIN o PROVE r(i) \in RegionConfig
  <2>1. o[i].name \in Names \cup {Blank}
    BY RowFacts
  <2>2. ParentIn(o, i) \in Names \cup {Blank, None}
    <3>1. CASE ParentIn(o, i) = None
      BY <3>1
    <3>2. CASE \E j \in 1..(i - 1) : ParentIn(o, i) = o[j].name
      <4>1. PICK j \in 1..(i - 1) : ParentIn(o, i) = o[j].name
        BY <3>2
      <4>2. j \in DOMAIN o
        BY <1>1
      <4> QED BY <4>1, <4>2, RowFacts
    <3> QED BY <3>1, <3>2, ParentFacts
  <2> QED BY <2>1, <2>2 DEF RegionConfig
<1>3. R = [i \in DOMAIN o |-> r(i)]
  BY DEF RegionsFromOutline
<1>4. \A i : r(i).name = o[i].name /\ r(i).parent = ParentIn(o, i)
  OBVIOUS
<1> HIDE DEF r, R
<1>5. R \in Seq(RegionConfig) /\ Len(R) = Len(o) /\ DOMAIN R = DOMAIN o /\ \A i \in DOMAIN o : R[i] = r(i)
  BY <1>1, <1>2, <1>3
<1>6. \A i \in DOMAIN o : R[i].name = o[i].name /\ R[i].parent = ParentIn(o, i)
  BY <1>4, <1>5
<1>7. NamesIn(R) = NamesIn(o)
  BY <1>5, <1>6 DEF NamesIn
<1> QED BY <1>5, <1>6, <1>7 DEF R

\* A row without a parent is saved as a root, since None is no name.
LEMMA RootFacts ==
  ASSUME NEW o \in Seq(Row), NEW i \in DOMAIN o
  PROVE  IsRoot(RegionsFromOutline(o), i) <=> ParentIn(o, i) = None
<1> DEFINE R == RegionsFromOutline(o)
<1>1. /\ DOMAIN R = DOMAIN o
      /\ \A j \in DOMAIN o : R[j].name = o[j].name /\ R[j].parent = ParentIn(o, j)
  BY SavedFacts
<1> HIDE DEF R
<1>2. \A j \in DOMAIN o : o[j].name # None
  BY RowFacts, NoneAssumption
<1>3. CASE ParentIn(o, i) = None
  BY <1>1, <1>2, <1>3 DEF IsRoot, R
<1>4. CASE ParentIn(o, i) # None
  <2>1. PICK j \in 1..(i - 1) : ParentIn(o, i) = o[j].name
    BY <1>4, ParentFacts
  <2>2. j \in DOMAIN o
    BY RowFacts
  <2>3. ~ IsRoot(R, i)
    BY <1>1, <2>1, <2>2 DEF IsRoot
  <2> QED BY <1>4, <2>3 DEF R
<1> QED BY <1>3, <1>4

\* No name of an outline is lost: each row's parent is a row above it, down to a root.
LEMMA NamesSaved ==
  ASSUME NEW o \in Seq(Row)
  PROVE  NamesIn(FlattenRegionTree(RegionsFromOutline(o))) = NamesIn(o)
<1> DEFINE R == RegionsFromOutline(o)
           back == FlattenRegionTree(R)
           T == {i \in DOMAIN o : o[i].name \notin NamesIn(back)}
<1>1. /\ R \in Seq(RegionConfig) /\ DOMAIN R = DOMAIN o /\ NamesIn(R) = NamesIn(o)
      /\ \A i \in DOMAIN o : R[i].name = o[i].name /\ R[i].parent = ParentIn(o, i)
  BY SavedFacts
<1>2. \A i \in DOMAIN o : IsRoot(R, i) <=> ParentIn(o, i) = None
  BY RootFacts
<1> HIDE DEF R
<1>3. /\ NamesIn(back) \subseteq NamesIn(R)
      /\ \A i \in DOMAIN R : IsRoot(R, i) \/ R[i].parent \in NamesIn(back) => R[i].name \in NamesIn(back)
  BY <1>1, FlattenFacts
<1> HIDE DEF back
<1>4. T = {}
  <2> SUFFICES ASSUME T # {} PROVE FALSE
    OBVIOUS
  <2>1. DOMAIN o = 1..Len(o) /\ Len(o) \in Nat
    BY RowFacts
  <2>2. PICK i \in T : \A j \in T : i <= j
    <3>1. T \in SUBSET Nat
      BY <2>1
    <3> HIDE DEF T
    <3> QED BY <3>1, HasMin
  <2>3. i \in DOMAIN o /\ ParentIn(o, i) # None /\ ParentIn(o, i) \notin NamesIn(back)
    BY <1>1, <1>2, <1>3, <2>2
  <2>4. PICK j \in 1..(i - 1) : ParentIn(o, i) = o[j].name
    BY <2>3, ParentFacts
  <2>5. j \in DOMAIN o /\ ~ (i <= j)
    BY <2>1, <2>3
  <2> QED BY <2>2, <2>3, <2>4, <2>5
<1>5. NamesIn(o) \subseteq NamesIn(back)
  BY <1>4 DEF NamesIn
<1> QED BY <1>1, <1>3, <1>5 DEF back, R

-----------------------------------------------------------------------------
(* Outlines without a level skipped.                                       *)

\* Row m is the nearest row above row j that is shallower.
Over(o, m, j) ==
  /\ m \in 1..(j - 1) /\ o[m].depth < o[j].depth
  /\ \A k \in (m + 1)..(j - 1) : o[k].depth >= o[j].depth

LEMMA OverUnique ==
  ASSUME NEW o \in Seq(Row), NEW j \in DOMAIN o, NEW m, NEW l, Over(o, m, j), Over(o, l, j)
  PROVE  m = l
<1>1. DOMAIN o = 1..Len(o) /\ Len(o) \in Nat /\ \A i \in DOMAIN o : o[i].depth \in Nat
  BY RowFacts
<1>2. m \in 1..(j - 1) /\ l \in 1..(j - 1) /\ j \in Nat
  BY <1>1 DEF Over
<1>3. ~ (m < l)
  <2>1. m < l => l \in (m + 1)..(j - 1) /\ l \in DOMAIN o
    BY <1>1, <1>2
  <2> QED BY <1>1, <2>1 DEF Over
<1>4. ~ (l < m)
  <2>1. l < m => m \in (l + 1)..(j - 1) /\ m \in DOMAIN o
    BY <1>1, <1>2
  <2> QED BY <1>1, <2>1 DEF Over
<1> QED BY <1>2, <1>3, <1>4

\* A row that is not at the top has one, and it is one level shallower.
LEMMA OverExists ==
  ASSUME NEW o \in Seq(Row), WellNested(o), NEW j \in DOMAIN o, o[j].depth # 0
  PROVE  \E m : Over(o, m, j) /\ o[m].depth = o[j].depth - 1
<1>1. DOMAIN o = 1..Len(o) /\ Len(o) \in Nat /\ \A i \in DOMAIN o : o[i].depth \in Nat
  BY RowFacts
<1>2. \A i \in DOMAIN o : o[i].depth <= IF i = 1 THEN 0 ELSE o[i - 1].depth + 1
  BY DEF WellNested
<1> DEFINE S == {k \in 1..(j - 1) : o[k].depth < o[j].depth}
<1>3. j \in Nat /\ j # 1 /\ j - 1 \in Nat /\ 1 \in DOMAIN o /\ 1 \in 1..(j - 1) /\ o[1].depth = 0 /\ o[j].depth > 0
  <2>1. j \in 1..Len(o) /\ 1 \in DOMAIN o
    BY <1>1
  <2>2. o[1].depth <= 0
    BY <1>2, <2>1
  <2>3. o[1].depth = 0 /\ o[j].depth > 0
    BY <1>1, <2>1, <2>2
  <2> QED BY <2>1, <2>3
<1>4. S # {} /\ S \in SUBSET (1..(j - 1))
  BY <1>3
<1>5. PICK m \in S : \A k \in S : k <= m
  <2> HIDE DEF S
  <2> QED BY <1>3, <1>4, HasMax
<1>6. m \in 1..(j - 1) /\ m \in DOMAIN o /\ o[m].depth < o[j].depth
  BY <1>1
<1>7. ASSUME NEW k \in (m + 1)..(j - 1) PROVE o[k].depth >= o[j].depth
  <2>1. k \in 1..(j - 1) /\ k \in DOMAIN o /\ ~ (k <= m)
    BY <1>1, <1>3, <1>6
  <2>2. k \notin S
    BY <1>5, <2>1
  <2> QED BY <1>1, <2>1, <2>2
<1>8. m + 1 \in DOMAIN o /\ m + 1 # 1 /\ (m + 1) - 1 = m /\ (m + 1 = j \/ m + 1 \in (m + 1)..(j - 1))
  BY <1>1, <1>3, <1>6
<1>9. o[m + 1].depth <= o[m].depth + 1 /\ o[m + 1].depth >= o[j].depth
  <2>1. o[m + 1].depth <= o[m].depth + 1
    BY <1>2, <1>8
  <2>2. o[m + 1].depth >= o[j].depth
    <3>1. o[j].depth >= o[j].depth
      BY <1>1
    <3> QED BY <1>7, <1>8, <3>1
  <2> QED BY <2>1, <2>2
<1>10. o[m].depth = o[j].depth - 1
  BY <1>1, <1>6, <1>8, <1>9
<1> QED BY <1>6, <1>7, <1>10 DEF Over

\* In a well nested outline that row is the parent.
LEMMA NestedParent ==
  ASSUME NEW o \in Seq(Row), WellNested(o), NEW j \in DOMAIN o
  PROVE  /\ o[j].depth = 0 => ParentIn(o, j) = None
         /\ \A m : Over(o, m, j) => /\ m \in DOMAIN o /\ o[m].depth = o[j].depth - 1
                                   /\ ParentIn(o, j) = o[m].name
<1>1. DOMAIN o = 1..Len(o) /\ Len(o) \in Nat /\ \A i \in DOMAIN o : o[i].depth \in Nat
  BY RowFacts
<1>2. j \in Nat /\ \A k \in 1..(j - 1) : k \in DOMAIN o
  BY <1>1
<1>3. ASSUME o[j].depth = 0 PROVE ParentIn(o, j) = None
  <2>1. \A k \in 1..(j - 1) : o[k].depth # o[j].depth - 1
    BY <1>1, <1>2, <1>3
  <2> QED BY <2>1, ParentFacts
<1>4. ASSUME NEW m, Over(o, m, j)
      PROVE  m \in DOMAIN o /\ o[m].depth = o[j].depth - 1 /\ ParentIn(o, j) = o[m].name
  <2>1. m \in 1..(j - 1) /\ m \in DOMAIN o /\ o[m].depth < o[j].depth
    BY <1>2, <1>4 DEF Over
  <2>2. o[j].depth # 0
    BY <1>1, <2>1
  <2>3. PICK l : Over(o, l, j) /\ o[l].depth = o[j].depth - 1
    BY <2>2, OverExists
  <2>4. o[m].depth = o[j].depth - 1
    BY <1>4, <2>3, OverUnique
  <2>5. PICK k \in 1..(j - 1) : /\ o[k].depth = o[j].depth - 1 /\ ParentIn(o, j) = o[k].name
                                /\ \A i \in 1..(j - 1) : o[i].depth = o[j].depth - 1 => i <= k
    BY <2>1, <2>4, ParentFacts
  <2>6. ~ (m < k)
    <3>1. m < k => k \in (m + 1)..(j - 1) /\ k \in DOMAIN o
      BY <1>1, <1>2, <2>1
    <3>2. m < k => o[k].depth >= o[j].depth
      BY <1>4, <3>1 DEF Over
    <3> QED BY <1>1, <2>5, <3>1, <3>2
  <2>7. m <= k
    BY <2>1, <2>4, <2>5
  <2>8. m = k
    BY <1>2, <2>1, <2>6, <2>7
  <2> QED BY <2>1, <2>4, <2>5, <2>8
<1> QED BY <1>3, <1>4

\* With distinct names: the regions saved with the name of row m for parent are the
\* rows it is over, and the roots are the rows at the top.
LEMMA NestedChildren ==
  ASSUME NEW o \in Seq(Row), WellNested(o), Distinct(o)
  PROVE  /\ \A j \in DOMAIN o : ParentIn(o, j) = None <=> o[j].depth = 0
         /\ \A m, j \in DOMAIN o : ParentIn(o, j) = o[m].name <=> Over(o, m, j)
<1>1. \A i \in DOMAIN o : o[i].name # None
  BY RowFacts, NoneAssumption
<1>2. ASSUME NEW j \in DOMAIN o, o[j].depth # 0
      PROVE  \E m \in DOMAIN o : Over(o, m, j) /\ ParentIn(o, j) = o[m].name
  BY <1>2, OverExists, NestedParent
<1>3. \A j \in DOMAIN o : ParentIn(o, j) = None <=> o[j].depth = 0
  BY <1>1, <1>2, NestedParent
<1>4. ASSUME NEW m \in DOMAIN o, NEW j \in DOMAIN o
      PROVE  ParentIn(o, j) = o[m].name <=> Over(o, m, j)
  <2>1. ASSUME ParentIn(o, j) = o[m].name PROVE Over(o, m, j)
    <3>1. o[j].depth # 0
      BY <1>1, <1>3, <2>1
    <3>2. PICK l \in DOMAIN o : Over(o, l, j) /\ ParentIn(o, j) = o[l].name
      BY <1>2, <3>1
    <3>3. l = m
      BY <2>1, <3>2 DEF Distinct
    <3> QED BY <3>2, <3>3
  <2> QED BY <2>1, NestedParent
<1> QED BY <1>3, <1>4

\* The rows below row n that no row between them and row n is over: their calls are
\* to come when the first n rows are placed.
Waiting(o, n) ==
  {j \in (n + 1)..Len(o) : \A k \in (n + 1)..(j - 1) : o[k].depth >= o[j].depth}

CallsWait(o, v, n) ==
  /\ \A k \in DOMAIN v : v[k].region \in Waiting(o, n) /\ v[k].depth = o[v[k].region].depth
  /\ \A k, l \in DOMAIN v : k < l => v[k].region < v[l].region
  /\ \A j \in Waiting(o, n) : \E k \in DOMAIN v : v[k].region = j

ShownSoFar(o, st, n) ==
  /\ Len(st.out) = n /\ \A k \in 1..n : st.out[k] = o[k]
  /\ CallsWait(o, st.visit, n)

\* Placing row n + 1 lets the rows it is over wait as well, and they come before the
\* others that wait.
LEMMA WaitingFacts ==
  ASSUME NEW o \in Seq(Row), NEW n \in Nat, n < Len(o)
  PROVE  /\ n + 1 \in Waiting(o, n) /\ \A j \in Waiting(o, n) : n + 1 <= j
         /\ \A j \in DOMAIN o : j \in Waiting(o, n + 1) <=>
                                 (j \in Waiting(o, n) /\ j # n + 1) \/ Over(o, n + 1, j)
         /\ \A i \in DOMAIN o, j \in Waiting(o, n) : Over(o, n + 1, i) /\ j # n + 1 => i < j
<1>1. DOMAIN o = 1..Len(o) /\ Len(o) \in Nat /\ \A i \in DOMAIN o : o[i].depth \in Nat
  BY RowFacts
<1>2. n + 1 \in DOMAIN o /\ n + 1 \in Nat /\ Waiting(o, n) \subseteq DOMAIN o
  BY <1>1 DEF Waiting
<1>3. n + 1 \in Waiting(o, n) /\ \A j \in Waiting(o, n) : n + 1 <= j
  BY <1>1 DEF Waiting
<1>4. ASSUME NEW j \in Waiting(o, n), j # n + 1 PROVE o[n + 1].depth >= o[j].depth /\ j \in (n + 2)..Len(o)
  <2>1. j \in (n + 2)..Len(o) /\ n + 1 \in (n + 1)..(j - 1)
    BY <1>1, <1>4 DEF Waiting
  <2> QED BY <2>1 DEF Waiting
<1>5. ASSUME NEW j \in DOMAIN o
      PROVE  j \in Waiting(o, n + 1) <=> (j \in Waiting(o, n) /\ j # n + 1) \/ Over(o, n + 1, j)
  <2>1. ASSUME j \in Waiting(o, n), j # n + 1 PROVE j \in Waiting(o, n + 1)
    <3>1. j \in (n + 2)..Len(o)
      BY <1>4, <2>1
    <3>2. \A k \in (n + 2)..(j - 1) : k \in (n + 1)..(j - 1)
      BY <1>1
    <3> QED BY <2>1, <3>1, <3>2 DEF Waiting
  <2>2. ASSUME Over(o, n + 1, j) PROVE j \in Waiting(o, n + 1)
    <3>1. j \in (n + 2)..Len(o)
      BY <1>1, <2>2 DEF Over
    <3> QED BY <2>2, <3>1 DEF Waiting, Over
  <2>3. ASSUME j \in Waiting(o, n + 1), ~ Over(o, n + 1, j) PROVE j \in Waiting(o, n) /\ j # n + 1
    <3>1. j \in (n + 2)..Len(o) /\ \A k \in (n + 2)..(j - 1) : o[k].depth >= o[j].depth
      BY <2>3 DEF Waiting
    <3>2. j \in (n + 1)..Len(o) /\ j # n + 1 /\ n + 1 \in 1..(j - 1)
      BY <1>1, <3>1
    <3>3. o[n + 1].depth >= o[j].depth
      BY <1>1, <1>2, <2>3, <3>1, <3>2 DEF Over
    <3>4. ASSUME NEW k \in (n + 1)..(j - 1) PROVE o[k].depth >= o[j].depth
      <4>1. k = n + 1 \/ k \in (n + 2)..(j - 1)
        BY <1>1, <3>1
      <4> QED BY <3>1, <3>3, <4>1
    <3> QED BY <3>2, <3>4 DEF Waiting
  <2> QED BY <2>1, <2>2, <2>3
<1>6. ASSUME NEW i \in DOMAIN o, NEW j \in Waiting(o, n), Over(o, n + 1, i), j # n + 1 PROVE i < j
  <2>1. o[n + 1].depth < o[i].depth /\ o[n + 1].depth >= o[j].depth /\ j \in (n + 2)..Len(o)
    BY <1>4, <1>6 DEF Over
  <2>2. i # j
    BY <1>1, <1>2, <2>1
  <2>3. ~ (j < i)
    <3>1. j < i => j \in ((n + 1) + 1)..(i - 1) /\ j \in DOMAIN o
      BY <1>1, <2>1
    <3>2. j < i => o[j].depth >= o[i].depth
      BY <1>6, <3>1 DEF Over
    <3> QED BY <1>1, <1>2, <2>1, <3>1, <3>2
  <2> QED BY <1>1, <2>1, <2>2, <2>3
<1> QED BY <1>3, <1>5, <1>6

\* The rows that row m is over, in their order.
ChildRows(o, m, c) ==
  /\ c \in Seq(DOMAIN o)
  /\ \A k \in DOMAIN c : Over(o, m, c[k]) /\ o[c[k]].depth = o[m].depth + 1
  /\ \A k, l \in DOMAIN c : k < l => c[k] < c[l]
  /\ \A j \in DOMAIN o : Over(o, m, j) => \E k \in DOMAIN c : c[k] = j

\* What waits after a row was placed: its children and, behind them, the others.
LEMMA WaitingCalls ==
  ASSUME NEW o \in Seq(Row), NEW n \in Nat, n < Len(o),
         NEW regions, DOMAIN regions = DOMAIN o,
         NEW v, v \in Seq(Call(regions)), v # <<>>, v[1].region = n + 1, CallsWait(o, v, n),
         NEW c, ChildRows(o, n + 1, c)
  PROVE  CallsWait(o, At(o[n + 1].depth + 1, c) \o Tail(v), n + 1)
<1> DEFINE d == o[n + 1].depth + 1
           w == At(d, c) \o Tail(v)
<1>0. /\ \A k \in DOMAIN v : v[k].region \in Waiting(o, n) /\ v[k].depth = o[v[k].region].depth
      /\ \A k, l \in DOMAIN v : k < l => v[k].region < v[l].region
      /\ \A j \in Waiting(o, n) : \E k \in DOMAIN v : v[k].region = j
      /\ c \in Seq(DOMAIN regions)
      /\ \A k \in DOMAIN c : Over(o, n + 1, c[k]) /\ o[c[k]].depth = d
      /\ \A k, l \in DOMAIN c : k < l => c[k] < c[l]
      /\ \A j \in DOMAIN o : Over(o, n + 1, j) => \E k \in DOMAIN c : c[k] = j
  BY DEF CallsWait, ChildRows
<1> DEFINE t == Tail(v)
<1>1. DOMAIN o = 1..Len(o) /\ Len(o) \in Nat /\ \A i \in DOMAIN o : o[i].depth \in Nat
  BY RowFacts
<1>2. /\ Len(v) \in Nat /\ DOMAIN v = 1..Len(v) /\ 1 \in DOMAIN v
      /\ t \in Seq(Call(regions)) /\ Len(t) = Len(v) - 1 /\ DOMAIN t = 1..Len(t)
      /\ \A k \in 1..Len(t) : t[k] = v[k + 1]
  BY TailFacts
<1>3. /\ w \in Seq(Call(regions)) /\ Len(w) = Len(c) + Len(t)
      /\ \A k \in 1..Len(c) : w[k] = [region |-> c[k], depth |-> d]
      /\ \A k \in 1..Len(t) : w[Len(c) + k] = t[k]
  <2>1. d \in Nat
    BY <1>1
  <2>2. c \in Seq(DOMAIN regions) /\ t \in Seq(Call(regions)) /\ w = At(d, c) \o t
    BY <1>0, <1>2
  <2> HIDE DEF d, t, w
  <2>3. Joined(regions, d, c, t, w)
    BY <2>1, <2>2, CallsFacts
  <2> QED BY <2>3 DEF Joined
<1> HIDE DEF t, w, d
<1>4. Len(c) \in Nat /\ Len(t) \in Nat /\ DOMAIN c = 1..Len(c) /\ DOMAIN w = 1..Len(w)
  BY <1>0, <1>2, <1>3
<1>5. ASSUME NEW k \in DOMAIN c
      PROVE  k \in DOMAIN w /\ w[k].region = c[k] /\ w[k].depth = d /\ c[k] \in DOMAIN o
  <2>1. k \in 1..Len(w) /\ c[k] \in DOMAIN regions
    BY <1>0, <1>3, <1>4
  <2>2. w[k] = [region |-> c[k], depth |-> d]
    BY <1>3, <1>4
  <2>3. \A a, r : a = [region |-> r, depth |-> d] => a.region = r /\ a.depth = d
    OBVIOUS
  <2>4. w[k].region = c[k] /\ w[k].depth = d
    BY <2>2, <2>3
  <2> QED BY <1>4, <2>1, <2>4
<1>6. ASSUME NEW k \in DOMAIN v, k # 1
      PROVE  /\ Len(c) + (k - 1) \in DOMAIN w /\ w[Len(c) + (k - 1)] = v[k]
             /\ v[k].region # n + 1
  <2>1. k - 1 \in 1..Len(t) /\ (k - 1) + 1 = k /\ 1 < k
    BY <1>2, <1>6
  <2>2. v[1].region < v[k].region
    BY <1>0, <1>2, <2>1
  <2>3. v[k].region \in Nat
    BY <1>0, <1>1 DEF Waiting
  <2>4. v[k].region # n + 1
    BY <2>2, <2>3
  <2>5. Len(c) + (k - 1) \in DOMAIN w
    BY <1>3, <1>4, <2>1
  <2>6. w[Len(c) + (k - 1)] = v[k]
    BY <1>2, <1>3, <2>1
  <2> QED BY <2>4, <2>5, <2>6
<1>7. ASSUME NEW k \in DOMAIN w
      PROVE  \/ k \in DOMAIN c
             \/ /\ k > Len(c) /\ k \notin DOMAIN c /\ (k - Len(c)) + 1 \in DOMAIN v
                /\ (k - Len(c)) + 1 # 1 /\ w[k] = v[(k - Len(c)) + 1]
  <2>1. Len(w) = Len(c) + Len(t)
    BY <1>3
  <2>2. CASE k > Len(c)
    <3> DEFINE i == (k - Len(c)) + 1
    <3>1. i \in DOMAIN v /\ i # 1 /\ Len(c) + (i - 1) = k
      BY <1>2, <1>4, <2>1, <2>2
    <3> HIDE DEF i
    <3>2. w[k] = v[i]
      BY <1>6, <3>1
    <3> QED BY <1>4, <2>2, <3>1, <3>2 DEF i
  <2> QED BY <1>4, <2>1, <2>2
<1>8. ASSUME NEW k \in DOMAIN w
      PROVE  w[k].region \in Waiting(o, n + 1) /\ w[k].depth = o[w[k].region].depth
  <2>1. CASE k \in DOMAIN c
    BY <1>0, <1>5, <2>1, WaitingFacts
  <2>2. CASE k \notin DOMAIN c
    <3>1. PICK i \in DOMAIN v : i # 1 /\ w[k] = v[i]
      BY <1>7, <2>2
    <3>2. v[i].region \in Waiting(o, n) /\ v[i].region # n + 1
      BY <1>0, <1>6, <3>1
    <3>3. v[i].region \in DOMAIN o
      BY <1>1, <3>2 DEF Waiting
    <3> QED BY <1>0, <3>1, <3>2, <3>3, WaitingFacts
  <2> QED BY <2>1, <2>2
<1>9. ASSUME NEW k \in DOMAIN w, NEW l \in DOMAIN w, k < l PROVE w[k].region < w[l].region
  <2>1. CASE l \in DOMAIN c
    <3>1. k \in DOMAIN c
      BY <1>4, <1>9, <2>1
    <3> QED BY <1>0, <1>5, <1>9, <2>1, <3>1
  <2>2. CASE k \in DOMAIN c /\ l \notin DOMAIN c
    <3>1. PICK i \in DOMAIN v : i # 1 /\ w[l] = v[i]
      BY <1>7, <2>2
    <3>2. v[i].region \in Waiting(o, n) /\ v[i].region # n + 1
      BY <1>0, <1>6, <3>1
    <3>3. c[k] \in DOMAIN o /\ Over(o, n + 1, c[k]) /\ w[k].region = c[k]
      BY <1>0, <1>5, <2>2
    <3>4. c[k] < v[i].region
      BY <3>2, <3>3, WaitingFacts
    <3> QED BY <3>1, <3>3, <3>4
  <2>3. CASE k \notin DOMAIN c /\ l \notin DOMAIN c
    <3> DEFINE i == (k - Len(c)) + 1
               j == (l - Len(c)) + 1
    <3>1. i \in DOMAIN v /\ w[k] = v[i] /\ j \in DOMAIN v /\ w[l] = v[j]
      BY <1>7, <2>3
    <3>2. i < j
      BY <1>4, <1>9
    <3> HIDE DEF i, j
    <3> QED BY <1>0, <3>1, <3>2
  <2> QED BY <2>1, <2>2, <2>3
<1>10. ASSUME NEW j \in Waiting(o, n + 1) PROVE \E k \in DOMAIN w : w[k].region = j
  <2>1. j \in DOMAIN o
    BY <1>1 DEF Waiting
  <2>2. CASE Over(o, n + 1, j)
    <3>1. PICK k \in DOMAIN c : c[k] = j
      BY <1>0, <2>1, <2>2
    <3> QED BY <1>5, <3>1
  <2>3. CASE j \in Waiting(o, n) /\ j # n + 1
    <3>1. PICK k \in DOMAIN v : v[k].region = j
      BY <1>0, <2>3
    <3>2. k # 1
      BY <2>3, <3>1
    <3> QED BY <1>6, <3>1, <3>2
  <2> QED BY <2>1, <2>2, <2>3, WaitingFacts
<1> QED BY <1>8, <1>9, <1>10 DEF CallsWait, w, d

\* One call places the next row.
LEMMA NextRowPlaced ==
  ASSUME NEW o \in Seq(Row), WellNested(o), Distinct(o), NEW n \in Nat, n < Len(o),
         NEW st, CallState(RegionsFromOutline(o), st, n), ShownSoFar(o, st, n)
  PROVE  ShownSoFar(o, PushWithChildren(RegionsFromOutline(o), st), n + 1)
<1> DEFINE R == RegionsFromOutline(o)
           v == st.visit
           b == st.out
           r == o[n + 1]
           c == ChildrenOf(R, r.name)
           C == {j \in DOMAIN R : R[j].parent = r.name}
           d == r.depth + 1
           w == At(d, c) \o Tail(v)
           new == PushWithChildren(R, st)
<1>1. DOMAIN o = 1..Len(o) /\ Len(o) \in Nat /\ n + 1 \in DOMAIN o
  BY RowFacts
<1>2. /\ R \in Seq(RegionConfig) /\ DOMAIN R = DOMAIN o
      /\ \A i \in DOMAIN o : R[i].name = o[i].name /\ R[i].parent = ParentIn(o, i)
  BY SavedFacts
<1>3. r \in Row /\ r.depth \in Nat /\ d \in Nat /\ r = [name |-> r.name, depth |-> r.depth]
  BY <1>1, RowFacts
<1>4. /\ v \in Seq(Call(R)) /\ b \in Seq(Row) /\ Len(b) = n /\ (\A k \in 1..n : b[k] = o[k])
      /\ \A k \in DOMAIN v : v[k].region \in Waiting(o, n) /\ v[k].depth = o[v[k].region].depth
      /\ \A k, l \in DOMAIN v : k < l => v[k].region < v[l].region
      /\ \A j \in Waiting(o, n) : \E k \in DOMAIN v : v[k].region = j
  BY DEF CallState, ShownSoFar, CallsWait
<1> HIDE DEF R, r, v, b
<1>5. v # <<>> /\ v[1].region = n + 1 /\ v[1].depth = r.depth
  <2>1. PICK k \in DOMAIN v : v[k].region = n + 1
    BY <1>4, WaitingFacts
  <2>2. v # <<>>
    BY <1>4, <2>1
  <2>3. DOMAIN v = 1..Len(v) /\ 1 \in DOMAIN v
    BY <1>4, <2>2, TailFacts
  <2>4. v[1].region \in Waiting(o, n) /\ n + 1 <= v[1].region
    <3>1. v[1].region \in Waiting(o, n)
      BY <1>4, <2>3
    <3>2. \A j \in Waiting(o, n) : n + 1 <= j
      BY WaitingFacts
    <3> QED BY <3>1, <3>2
  <2>5. v[1].region \in Nat
    BY <1>1, <2>4 DEF Waiting
  <2>6. k # 1 => v[1].region < n + 1
    BY <1>4, <2>1, <2>3
  <2>7. v[1].region = n + 1
    BY <2>1, <2>4, <2>5, <2>6
  <2> QED BY <1>4, <2>2, <2>3, <2>7 DEF r
<1>6. R[v[1].region].name = r.name /\ r.name \notin NamesIn(b)
  <2>1. R[v[1].region].name = r.name
    BY <1>1, <1>2, <1>5 DEF r
  <2>2. ASSUME NEW k \in DOMAIN b PROVE b[k].name # r.name
    <3>1. k \in 1..n /\ k \in DOMAIN o /\ k # n + 1
      BY <1>1, <1>4
    <3> QED BY <1>1, <1>4, <3>1 DEF Distinct, r
  <2> QED BY <2>1, <2>2 DEF NamesIn
<1>7. new = [visit |-> w, out |-> Append(b, r)]
  <2>1. LET next == v[1]
            name == R[next.region].name
        IN \/ v = <<>> /\ new = st
           \/ v # <<>> /\ name \in NamesIn(b) /\ new = [visit |-> Tail(v), out |-> b]
           \/ /\ v # <<>> /\ name \notin NamesIn(b)
              /\ new = [visit |-> At(next.depth + 1, ChildrenOf(R, name)) \o Tail(v),
                        out |-> Append(b, [name |-> name, depth |-> next.depth])]
    BY <1>2, PushCases DEF R, v, b
  <2> HIDE DEF new
  <2> QED BY <1>3, <1>5, <1>6, <2>1
<1>8. new.visit = w /\ new.out = Append(b, r)
  <2> HIDE DEF new, w
  <2> QED BY <1>7
<1>9. Lists(c, C)
  BY <1>2, ChildrenFacts
<1>10. \A j \in DOMAIN o : j \in C <=> Over(o, n + 1, j)
  BY <1>1, <1>2, NestedChildren DEF r
<1>11. /\ c \in Seq(DOMAIN R) /\ (\A k \in DOMAIN c : Over(o, n + 1, c[k]) /\ o[c[k]].depth = d)
       /\ (\A k, l \in DOMAIN c : k < l => c[k] < c[l])
       /\ \A j \in DOMAIN o : Over(o, n + 1, j) => \E k \in DOMAIN c : c[k] = j
  <2>1. C \subseteq DOMAIN R
    OBVIOUS
  <2> HIDE DEF c, C
  <2>2. c \in Seq(C) /\ DOMAIN c = 1..Len(c) /\ \A k \in DOMAIN c : c[k] \in C
    BY <1>9 DEF Lists
  <2>3. c \in Seq(DOMAIN R)
    BY <2>1, <2>2
  <2>4. ASSUME NEW k \in DOMAIN c PROVE Over(o, n + 1, c[k]) /\ o[c[k]].depth = d
    <3>1. c[k] \in DOMAIN o /\ Over(o, n + 1, c[k])
      BY <1>2, <1>10, <2>1, <2>2
    <3>2. o[n + 1].depth = o[c[k]].depth - 1 /\ o[c[k]].depth \in Nat
      BY <3>1, NestedParent, RowFacts
    <3> QED BY <1>3, <3>1, <3>2 DEF r
  <2> QED BY <1>9, <1>10, <2>2, <2>3, <2>4 DEF Lists
<1> HIDE DEF c, C
<1>12. CallsWait(o, w, n + 1)
  <2>1. CallsWait(o, v, n)
    BY DEF ShownSoFar, v
  <2>2. ChildRows(o, n + 1, c)
    BY <1>2, <1>11 DEF ChildRows, r
  <2>3. CallsWait(o, At(o[n + 1].depth + 1, c) \o Tail(v), n + 1)
    BY <1>2, <1>4, <1>5, <2>1, <2>2, WaitingCalls
  <2> QED BY <2>3 DEF r
<1> HIDE DEF w, new
<1>13. Len(Append(b, r)) = n + 1 /\ \A k \in 1..(n + 1) : Append(b, r)[k] = o[k]
  BY <1>3, <1>4 DEF r
<1>14. ShownSoFar(o, new, n + 1)
  BY <1>8, <1>12, <1>13 DEF ShownSoFar
<1> QED BY <1>14 DEF new, R

LEMMA ShownBeginning ==
  ASSUME NEW o \in Seq(Row), WellNested(o), Distinct(o)
  PROVE  ShownSoFar(o, Beginning(RegionsFromOutline(o)), 0)
<1> DEFINE R == RegionsFromOutline(o)
           c == Roots(R)
           U == {i \in DOMAIN R : IsRoot(R, i)}
           w == At(0, c)
           st == Beginning(R)
<1>1. DOMAIN o = 1..Len(o) /\ Len(o) \in Nat /\ \A i \in DOMAIN o : o[i].depth \in Nat
  BY RowFacts
<1>2. R \in Seq(RegionConfig) /\ DOMAIN R = DOMAIN o
  BY SavedFacts
<1>3. ASSUME NEW i \in DOMAIN o PROVE IsRoot(R, i) <=> i \in Waiting(o, 0)
  <2>1. IsRoot(R, i) <=> o[i].depth = 0
    BY RootFacts, NestedChildren
  <2>2. o[i].depth = 0 => i \in Waiting(o, 0)
    <3>1. i \in (0 + 1)..Len(o) /\ \A k \in (0 + 1)..(i - 1) : k \in DOMAIN o
      BY <1>1
    <3> QED BY <1>1, <3>1 DEF Waiting
  <2>3. ASSUME o[i].depth # 0 PROVE i \notin Waiting(o, 0)
    <3>1. PICK m : Over(o, m, i)
      BY <2>3, OverExists
    <3>2. m \in (0 + 1)..(i - 1) /\ m \in DOMAIN o /\ ~ (o[m].depth >= o[i].depth)
      BY <1>1, <3>1 DEF Over
    <3> QED BY <3>2 DEF Waiting
  <2> QED BY <2>1, <2>2, <2>3
<1>4. ASSUME NEW i \in Waiting(o, 0) PROVE o[i].depth = 0
  <2>1. i \in DOMAIN o /\ \A k \in 1..(i - 1) : o[k].depth >= o[i].depth
    BY <1>1 DEF Waiting
  <2>2. \A m : ~ Over(o, m, i)
    BY <1>1, <2>1 DEF Over
  <2> QED BY <2>1, <2>2, OverExists
<1> HIDE DEF R
<1>5. U = Waiting(o, 0) /\ U \subseteq DOMAIN R
  <2>1. Waiting(o, 0) \subseteq DOMAIN o
    BY <1>1 DEF Waiting
  <2>2. \A i : i \in U <=> i \in DOMAIN o /\ IsRoot(R, i)
    BY <1>2
  <2> HIDE DEF U
  <2>3. \A i : i \in U <=> i \in Waiting(o, 0)
    BY <1>3, <2>1, <2>2
  <2> QED BY <1>2, <2>1, <2>3
<1>6. Lists(c, U)
  BY <1>2, ChildrenFacts
<1>7. st.visit = w /\ st.out = <<>>
  BY DEF Beginning
<1> HIDE DEF R, c, U
<1>8. c \in Seq(U) /\ c \in Seq(DOMAIN R) /\ Len(c) \in Nat /\ DOMAIN c = 1..Len(c) /\ \A k \in DOMAIN c : c[k] \in U
  <2>1. c \in Seq(U)
    BY <1>6 DEF Lists
  <2>2. Len(c) \in Nat /\ DOMAIN c = 1..Len(c) /\ \A k \in DOMAIN c : c[k] \in U
    BY <2>1
  <2>3. c \in Seq(DOMAIN R)
    BY <1>5, <2>1, <2>2
  <2> QED BY <2>1, <2>2, <2>3
<1>9. w \in Seq(Call(R)) /\ Len(w) = Len(c) /\ \A k \in 1..Len(c) : w[k] = [region |-> c[k], depth |-> 0]
  BY <1>8, AtFacts
<1> HIDE DEF w, st
<1>10. ASSUME NEW k \in DOMAIN c PROVE w[k].region = c[k] /\ w[k].depth = 0
  <2>1. w[k] = [region |-> c[k], depth |-> 0]
    BY <1>8, <1>9
  <2> QED BY <2>1
<1>11. DOMAIN w = DOMAIN c
  BY <1>8, <1>9
<1>12. \A k \in DOMAIN w : w[k].region \in Waiting(o, 0) /\ w[k].depth = o[w[k].region].depth
  BY <1>4, <1>5, <1>8, <1>10, <1>11
<1>13. \A k, l \in DOMAIN w : k < l => w[k].region < w[l].region
  BY <1>6, <1>8, <1>10, <1>11 DEF Lists
<1>14. \A j \in Waiting(o, 0) : \E k \in DOMAIN w : w[k].region = j
  BY <1>5, <1>6, <1>8, <1>10, <1>11 DEF Lists
<1>15. Len(<<>>) = 0 /\ 1..0 = {}
  OBVIOUS
<1>16. ShownSoFar(o, st, 0)
  BY <1>7, <1>12, <1>13, <1>14, <1>15 DEF ShownSoFar, CallsWait
<1> QED BY <1>16 DEF st, R

\* A well nested outline of distinct names is read back row by row.
LEMMA FlattenShown ==
  ASSUME NEW o \in Seq(Row), WellNested(o), Distinct(o)
  PROVE  FlattenRegionTree(RegionsFromOutline(o)) = o
<1> DEFINE R == RegionsFromOutline(o)
           N == Len(o)
<1>1. N \in Nat /\ DOMAIN o = 1..N
  BY RowFacts
<1>2. R \in Seq(RegionConfig) /\ Len(R) = N
  BY SavedFacts
<1> HIDE DEF R, N
<1>3. PICK f : /\ f[0] = Beginning(R)
               /\ \A m \in 1..N : f[m] = PushWithChildren(R, f[m - 1])
               /\ FlattenRegionTree(R) = f[N].out
  BY <1>1, <1>2, TheCalls
<1> DEFINE Good(m) == CallState(R, f[m], m) /\ ShownSoFar(o, f[m], m)
           T == {m \in 0..N : ~Good(m)}
<1>4. Good(0)
  BY <1>2, <1>3, BeginningFacts, ShownBeginning DEF R
<1>5. ASSUME NEW m \in 0..N, m # 0, Good(m - 1) PROVE Good(m)
  <2>1. m - 1 \in Nat /\ (m - 1) + 1 = m /\ m \in 1..N /\ m - 1 < Len(o)
    BY <1>1, <1>5 DEF N
  <2>2. ShownSoFar(o, PushWithChildren(R, f[m - 1]), (m - 1) + 1)
    BY <1>5, <2>1, NextRowPlaced DEF R
  <2>3. CallState(R, PushWithChildren(R, f[m - 1]), (m - 1) + 1)
    BY <1>2, <1>5, <2>1, PushTyped
  <2> QED BY <1>3, <2>1, <2>2, <2>3
<1>6. T = {}
  <2> SUFFICES ASSUME T # {} PROVE FALSE
    OBVIOUS
  <2> HIDE DEF Good
  <2>2. PICK m \in T : \A j \in T : m <= j
    <3>1. T \in SUBSET Nat
      BY <1>1
    <3> HIDE DEF T
    <3> QED BY <3>1, HasMin
  <2>3. m \in 0..N /\ ~Good(m) /\ m # 0
    BY <1>4
  <2>4. m - 1 \in 0..N /\ m - 1 \notin T
    BY <1>1, <2>2, <2>3
  <2> QED BY <1>5, <2>3, <2>4
<1>7. Good(N)
  <2> HIDE DEF Good
  <2> QED BY <1>1, <1>6
<1> DEFINE back == f[N].out
<1>8. back \in Seq(Row) /\ Len(back) = N /\ \A k \in 1..N : back[k] = o[k]
  BY <1>7 DEF CallState, ShownSoFar
<1> HIDE DEF back
<1>9. back = o
  BY <1>1, <1>8, SeqEqual DEF N
<1> QED BY <1>3, <1>9 DEF back, R

-----------------------------------------------------------------------------
(* The invariant.                                                          *)

Settings(c) ==
  /\ c = [field \in Fields |-> c[field]]
  /\ c.regions \in Seq(RegionConfig) /\ Len(c.regions) <= MaxRegions
  /\ c.connection \in ConnectionConfig \cup {None}
Complete(c) == Settings(c) /\ c.connection \in ConnectionConfig

EditorOK ==
  /\ outline \in Seq(Row) /\ Len(outline) <= MaxRegions
  /\ typing \in {None, "add", "rename"}
  /\ selected = 1 \/ selected \in DOMAIN outline
  /\ typing # None => selected \in DOMAIN outline

\* A file is absent, cannot be parsed or is complete, and so is what was read of it;
\* the wizard has a connection from the section on that asks for one.
FilesOK ==
  /\ at \in {"off", "menu", "general", "regions", "connection", "mqtt", "summary"}
  /\ file \in {None, Unreadable} \/ Complete(file)
  /\ daemon = None \/ Complete(daemon)
  /\ existing = None \/ Complete(existing)
  /\ Settings(work)
  /\ at = "off" => existing = None
  /\ at = "menu" => existing # None
  /\ existing # None \/ at \in {"mqtt", "summary"} => work.connection \in ConnectionConfig

\* d is c, but for the managed repeaters.
Alike(c, d) == \A field \in Fields \ {"managed"} : d[field] = c[field]

\* What was not asked is as it was when the wizard began; so are the file and what the
\* daemon knows, but for the managed repeaters, if the two agreed then.
AsItWas ==
  existing # None =>
    /\ agreed => Alike(existing, file) /\ (daemon # None => Alike(existing, daemon))
    /\ \A field \in Fields \ visited : work[field] = existing[field]

WizardInv == EditorOK /\ FilesOK /\ AsItWas

\* d is c with another value of one field.
Put(d, c, f, value) ==
  d = [g \in Fields |-> d[g]] /\ d[f] = value /\ \A g \in Fields : g # f => d[g] = c[g]

LEMMA PutFacts ==
  ASSUME NEW c, c = [field \in Fields |-> c[field]], NEW value
  PROVE  /\ Put([c EXCEPT !.label = value], c, "label", value)
         /\ Put([c EXCEPT !.regions = value], c, "regions", value)
         /\ Put([c EXCEPT !.connection = value], c, "connection", value)
         /\ Put([c EXCEPT !.observer = value], c, "observer", value)
         /\ Put([c EXCEPT !.brokers = value], c, "brokers", value)
         /\ Put([c EXCEPT !.managed = value], c, "managed", value)
         /\ Put([c EXCEPT !.capacity = value], c, "capacity", value)
<1>1. DOMAIN c = Fields
  OBVIOUS
<1> QED BY <1>1 DEF Fields, Put

LEMMA FieldFacts ==
  ASSUME NEW c, c = [field \in Fields |-> c[field]]
  PROVE  c.regions = c["regions"] /\ c.connection = c["connection"]
  BY DEF Fields

\* Settings stay so when another field than the regions changes, or those to regions.
LEMMA PutSettings ==
  ASSUME NEW c, Settings(c), NEW d, NEW f \in Fields, NEW value, Put(d, c, f, value),
         f = "regions" => value \in Seq(RegionConfig) /\ Len(value) <= MaxRegions,
         f = "connection" => value \in ConnectionConfig
  PROVE  /\ Settings(d)
         /\ f # "connection" => d.connection = c.connection
         /\ f = "connection" => d.connection = value
<1>1. {"regions", "connection"} \subseteq Fields
  BY DEF Fields
<1>2. d.regions = d["regions"] /\ d.connection = d["connection"]
  BY FieldFacts DEF Put
<1>3. c.regions = c["regions"] /\ c.connection = c["connection"]
  BY FieldFacts DEF Settings
<1>4. d["regions"] \in Seq(RegionConfig) /\ Len(d["regions"]) <= MaxRegions
  BY <1>1, <1>3 DEF Put, Settings
<1>5. d["connection"] \in ConnectionConfig \cup {None}
  BY <1>1, <1>3 DEF Put, Settings
<1>6. Settings(d)
  BY <1>2, <1>4, <1>5 DEF Settings, Put
<1> QED BY <1>1, <1>2, <1>3, <1>6 DEF Put

LEMMA DefaultsFacts == Settings(Defaults)
<1>1. Defaults = [field \in Fields |-> Defaults[field]]
  BY DEF Defaults, Fields
<1>2. Defaults.regions = <<>> /\ Defaults.connection = None /\ <<>> \in Seq(RegionConfig) /\ Len(<<>>) = 0 /\ 0 <= MaxRegions
  BY WizardAssumption DEF Defaults
<1> QED BY <1>1, <1>2 DEF Settings

LEMMA ReadableFacts ==
  ASSUME NEW c \in Files, c # None, c # Unreadable
  PROVE  Complete(c)
  BY FilesAssumption DEF Readable, Complete, Settings

LEMMA RemoveAtFacts ==
  ASSUME NEW D, NEW s \in Seq(D), NEW i \in 1..Len(s)
  PROVE  /\ RemoveAt(s, i) \in Seq(D) /\ Len(RemoveAt(s, i)) = Len(s) - 1
         /\ \A k \in 1..(Len(s) - 1) : RemoveAt(s, i)[k] = s[IF k < i THEN k ELSE k + 1]
<1> DEFINE a == SubSeq(s, 1, i - 1)
           b == SubSeq(s, i + 1, Len(s))
<1>1. Len(s) \in Nat /\ i \in Nat /\ 1 <= i /\ i <= Len(s)
  OBVIOUS
<1>2. a \in Seq(D) /\ Len(a) = i - 1 /\ \A k \in 1..(i - 1) : a[k] = s[k]
  BY <1>1
<1>3. b \in Seq(D) /\ Len(b) = Len(s) - i /\ \A k \in 1..(Len(s) - i) : b[k] = s[i + k]
  BY <1>1
<1>4. RemoveAt(s, i) = a \o b
  BY DEF RemoveAt
<1> HIDE DEF a, b
<1>5. a \o b \in Seq(D) /\ Len(a \o b) = Len(s) - 1
  <2>1. a \o b \in Seq(D)
    BY <1>2, <1>3, ConcatProperties
  <2>2. Len(a \o b) = Len(a) + Len(b)
    BY <1>2, <1>3, ConcatProperties
  <2> QED BY <1>1, <1>2, <1>3, <2>1, <2>2
<1>6. ASSUME NEW k \in 1..(Len(s) - 1) PROVE (a \o b)[k] = s[IF k < i THEN k ELSE k + 1]
  <2>1. CASE k < i
    BY <1>1, <1>2, <1>3, <2>1
  <2>2. CASE ~ (k < i)
    <3>1. k - (i - 1) \in 1..(Len(s) - i) /\ k = Len(a) + (k - (i - 1))
      BY <1>1, <1>2, <2>2
    <3>2. (a \o b)[k] = b[k - (i - 1)]
      BY <1>2, <1>3, <3>1
    <3>3. b[k - (i - 1)] = s[i + (k - (i - 1))] /\ i + (k - (i - 1)) = k + 1
      BY <1>1, <1>3, <3>1
    <3> QED BY <2>2, <3>2, <3>3
  <2> QED BY <2>1, <2>2
<1> QED BY <1>4, <1>5, <1>6

LEMMA InsertAtFacts ==
  ASSUME NEW D, NEW s \in Seq(D), NEW i \in 1..(Len(s) + 1), NEW e \in D
  PROVE  InsertAt(s, i, e) \in Seq(D) /\ Len(InsertAt(s, i, e)) = Len(s) + 1
<1> DEFINE a == SubSeq(s, 1, i - 1)
           b == SubSeq(s, i, Len(s))
<1>1. Len(s) \in Nat /\ i \in Nat /\ 1 <= i /\ i <= Len(s) + 1
  OBVIOUS
<1>2. a \in Seq(D) /\ Len(a) = i - 1
  BY <1>1
<1>3. b \in Seq(D) /\ Len(b) = Len(s) - i + 1
  BY <1>1
<1>4. InsertAt(s, i, e) = a \o <<e>> \o b
  BY DEF InsertAt
<1> HIDE DEF a, b
<1>5. <<e>> \in Seq(D) /\ Len(<<e>>) = 1
  OBVIOUS
<1> DEFINE c == a \o <<e>>
<1>6. c \in Seq(D) /\ Len(c) = i
  <2>1. c \in Seq(D) /\ Len(c) = Len(a) + Len(<<e>>)
    BY <1>2, <1>5, ConcatProperties
  <2> QED BY <1>1, <1>2, <1>5, <2>1
<1> HIDE DEF c
<1>7. c \o b \in Seq(D) /\ Len(c \o b) = Len(c) + Len(b)
  BY <1>3, <1>6, ConcatProperties
<1> QED BY <1>1, <1>3, <1>4, <1>6, <1>7 DEF c

\* The outline with the rows of a subtree one level up, before its first row goes.
Promoted(o, i) ==
  [j \in DOMAIN o |-> IF j \in Subtree(o, i) THEN [o[j] EXCEPT !.depth = @ - 1] ELSE o[j]]

LEMMA PromotedFacts ==
  ASSUME NEW o \in Seq(Row), NEW i \in DOMAIN o
  PROVE  LET p == Promoted(o, i)
         IN /\ p \in Seq(Row) /\ Len(p) = Len(o)
            /\ \A j \in DOMAIN o :
                 /\ p[j].name = o[j].name
                 /\ p[j].depth = IF j \in Subtree(o, i) THEN o[j].depth - 1 ELSE o[j].depth
            /\ DeleteOutlineEntry(o, i) = RemoveAt(p, i)
<1> DEFINE r(j) == IF j \in Subtree(o, i) THEN [o[j] EXCEPT !.depth = @ - 1] ELSE o[j]
           p == Promoted(o, i)
<1>1. Len(o) \in Nat /\ DOMAIN o = 1..Len(o)
  BY RowFacts
<1>2. ASSUME NEW j \in DOMAIN o
      PROVE  /\ r(j) \in Row /\ r(j).name = o[j].name
             /\ r(j).depth = IF j \in Subtree(o, i) THEN o[j].depth - 1 ELSE o[j].depth
  <2>1. o[j] \in Row /\ o[j].depth \in Nat /\ o[i].depth \in Nat
    BY RowFacts
  <2>2. j \in Subtree(o, i) => o[j].depth > o[i].depth
    <3>1. j \in Subtree(o, i) => j \in (i + 1)..j
      BY <1>1 DEF Subtree
    <3> QED BY <3>1 DEF Subtree
  <2>3. j \in Subtree(o, i) => o[j].depth - 1 \in Nat
    BY <2>1, <2>2
  <2> DEFINE a == o[j]
             d == o[j].depth - 1
  <2>4. r(j) = IF j \in Subtree(o, i) THEN [a EXCEPT !.depth = d] ELSE a
    OBVIOUS
  <2>5. a \in Row /\ (j \in Subtree(o, i) => d \in Nat)
    BY <2>1, <2>3
  <2> HIDE DEF a, d, r
  <2>6. d \in Nat => /\ [a EXCEPT !.depth = d] \in Row /\ [a EXCEPT !.depth = d].name = a.name
                     /\ [a EXCEPT !.depth = d].depth = d
    BY <2>5 DEF Row
  <2>7. r(j) \in Row /\ r(j).name = a.name /\ r(j).depth = IF j \in Subtree(o, i) THEN d ELSE a.depth
    BY <2>4, <2>5, <2>6
  <2> QED BY <2>7 DEF a, d
<1>3. p = [j \in DOMAIN o |-> r(j)]
  BY DEF Promoted
<1>4. DeleteOutlineEntry(o, i) = RemoveAt(p, i)
  BY DEF DeleteOutlineEntry, Promoted
<1> HIDE DEF r, p
<1>5. p \in Seq(Row) /\ Len(p) = Len(o) /\ \A j \in DOMAIN o : p[j] = r(j)
  BY <1>1, <1>2, <1>3
<1> QED BY <1>2, <1>4, <1>5 DEF p

LEMMA DeletedFacts ==
  ASSUME NEW o \in Seq(Row), NEW i \in DOMAIN o
  PROVE  DeleteOutlineEntry(o, i) \in Seq(Row) /\ Len(DeleteOutlineEntry(o, i)) = Len(o) - 1
<1> DEFINE p == Promoted(o, i)
<1>1. p \in Seq(Row) /\ Len(p) = Len(o) /\ DeleteOutlineEntry(o, i) = RemoveAt(p, i)
  BY PromotedFacts
<1>2. i \in 1..Len(p)
  BY <1>1, RowFacts
<1> HIDE DEF p
<1> QED BY <1>1, <1>2, RemoveAtFacts

\* The keys that change the outline or the cursor.
LEMMA KeysKeepEditor ==
  ASSUME EditorOK, WizardAssumption,
         Up \/ Down \/ Indent(1) \/ Indent(-1) \/ Reorder(1) \/ Reorder(-1) \/ Rename
  PROVE  EditorOK'
<1>1. /\ outline \in Seq(Row) /\ Len(outline) <= MaxRegions /\ Len(outline) \in Nat
      /\ DOMAIN outline = 1..Len(outline)
      /\ selected = 1 \/ selected \in DOMAIN outline
      /\ selected \in Nat
  BY RowFacts DEF EditorOK
<1>2. outline # <<>> => selected \in DOMAIN outline
  <2>1. outline # <<>> => 1 \in DOMAIN outline
    BY <1>1, EmptySeq
  <2> QED BY <1>1, <2>1
<1>3. CASE Up
  BY <1>1, <1>3 DEF EditorOK, Up, Ready
<1>4. CASE Down
  BY <1>1, <1>4 DEF EditorOK, Down, Ready, Rows
<1>5. ASSUME NEW delta \in {1, -1}, Indent(delta) PROVE EditorOK'
  <2> DEFINE d == ClampIndent(outline, selected, delta)
             q == [outline EXCEPT ![selected].depth = d]
  <2>1. selected \in DOMAIN outline /\ outline' = q /\ typing = None /\ UNCHANGED <<selected, typing>>
    BY <1>2, <1>5 DEF Indent, Ready
  <2>2. outline[selected] \in Row /\ outline[selected].depth \in Nat
    BY <2>1, RowFacts DEF EditorOK
  <2>3. d \in Nat
    <3>1. selected # 1 => outline[selected - 1].depth \in Nat
      <4>1. selected # 1 => selected - 1 \in DOMAIN outline
        BY <1>1, <2>1
      <4> QED BY <4>1, RowFacts DEF EditorOK
    <3>2. CASE delta = 1
      <4> DEFINE limit == IF selected = 1 THEN 0 ELSE outline[selected - 1].depth + 1
      <4>1. limit \in Nat
        BY <3>1
      <4>2. d = IF outline[selected].depth + 1 < limit THEN outline[selected].depth + 1 ELSE limit
        BY <3>2 DEF ClampIndent
      <4> HIDE DEF limit, d
      <4> QED BY <2>2, <4>1, <4>2
    <3>3. CASE delta = -1
      <4>1. d = IF outline[selected].depth = 0 THEN 0 ELSE outline[selected].depth - 1
        BY <3>3 DEF ClampIndent
      <4> HIDE DEF d
      <4> QED BY <2>2, <4>1
    <3> QED BY <1>5, <3>2, <3>3
  <2> DEFINE r == [outline[selected] EXCEPT !.depth = d]
  <2>4. q = [outline EXCEPT ![selected] = r]
    OBVIOUS
  <2>5. r \in Row
    <3> DEFINE a == outline[selected]
    <3> HIDE DEF a, d
    <3>1. a \in Row
      BY <2>2 DEF a
    <3>2. [a EXCEPT !.depth = d] \in Row
      BY <2>3, <3>1 DEF Row
    <3> QED BY <3>2 DEF a
  <2> HIDE DEF d, q, r
  <2>6. q \in Seq(Row) /\ Len(q) = Len(outline) /\ DOMAIN q = DOMAIN outline
    BY <1>1, <2>1, <2>4, <2>5
  <2> QED BY <1>1, <2>1, <2>6 DEF EditorOK
<1>6. ASSUME NEW by \in {1, -1}, Reorder(by) PROVE EditorOK'
  <2> DEFINE j == selected + by
             q == SwapRows(outline, selected, j)
  <2>1. j \in DOMAIN outline /\ outline' = q /\ selected' = j /\ typing = None /\ UNCHANGED typing
    BY <1>6 DEF Reorder, Ready, Rows
  <2>2. selected \in DOMAIN outline
    BY <1>1, <2>1
  <2>3. outline[selected] \in Row /\ outline[j] \in Row
    BY <2>1, <2>2, RowFacts DEF EditorOK
  <2> HIDE DEF j
  <2>4. q \in Seq(Row) /\ Len(q) = Len(outline) /\ DOMAIN q = DOMAIN outline
    BY <1>1, <2>1, <2>2, <2>3 DEF SwapRows
  <2> HIDE DEF q
  <2> QED BY <1>1, <2>1, <2>4 DEF EditorOK
<1>7. CASE Rename
  BY <1>1, <1>2, <1>7 DEF EditorOK, Rename, Ready
<1> QED BY <1>3, <1>4, <1>5, <1>6, <1>7

\* The keys that add and delete rows, and what is typed into one.
LEMMA RowsKeepEditor ==
  ASSUME EditorOK, WizardAssumption, Add \/ Type \/ Delete
  PROVE  EditorOK'
<1>1. /\ outline \in Seq(Row) /\ Len(outline) <= MaxRegions /\ Len(outline) \in Nat
      /\ DOMAIN outline = 1..Len(outline)
      /\ selected = 1 \/ selected \in DOMAIN outline
      /\ selected \in Nat /\ MaxRegions \in Nat
      /\ typing # None => selected \in DOMAIN outline
  BY RowFacts DEF EditorOK, WizardAssumption
<1>2. outline # <<>> => selected \in DOMAIN outline
  <2>1. outline # <<>> => 1 \in DOMAIN outline
    BY <1>1, EmptySeq
  <2> QED BY <1>1, <2>1
<1>3. CASE Add
  <2> DEFINE depth == IF outline = <<>> THEN 0 ELSE outline[selected].depth
             row   == IF outline = <<>> THEN 1 ELSE selected + 1
             q == InsertAt(outline, row, [name |-> Blank, depth |-> depth])
  <2>1. Len(outline) < MaxRegions /\ outline' = q /\ selected' = row /\ typing' = "add"
    BY <1>3 DEF Add
  <2>2. row \in 1..(Len(outline) + 1)
    BY <1>1, <1>2
  <2>3. [name |-> Blank, depth |-> depth] \in Row
    <3>1. depth \in Nat
      BY <1>2, RowFacts DEF EditorOK
    <3> HIDE DEF depth
    <3> QED BY <3>1 DEF Row
  <2> HIDE DEF row, depth
  <2>4. q \in Seq(Row) /\ Len(q) = Len(outline) + 1
    BY <1>1, <2>2, <2>3, InsertAtFacts
  <2> HIDE DEF q
  <2>5. DOMAIN q = 1..(Len(outline) + 1)
    BY <2>4
  <2>6. Len(q) <= MaxRegions
    BY <1>1, <2>1, <2>4
  <2> QED BY <2>1, <2>2, <2>4, <2>5, <2>6 DEF EditorOK
<1>4. CASE Type
  <2>1. selected \in DOMAIN outline /\ typing' = None
    BY <1>1, <1>4 DEF Type
  <2>2. CASE \E name \in Names \cup {Blank} :
               outline' = [outline EXCEPT ![selected].name = name] /\ UNCHANGED selected
    <3>1. PICK name \in Names \cup {Blank} :
               outline' = [outline EXCEPT ![selected].name = name] /\ UNCHANGED selected
      BY <2>2
    <3> DEFINE a == outline[selected]
               r == [a EXCEPT !.name = name]
               q == [outline EXCEPT ![selected] = r]
    <3>2. outline' = q
      BY <3>1
    <3>3. a \in Row
      BY <2>1, RowFacts DEF EditorOK
    <3> HIDE DEF a
    <3>4. r \in Row
      BY <3>3 DEF Row
    <3> HIDE DEF r
    <3>5. q \in Seq(Row) /\ Len(q) = Len(outline) /\ DOMAIN q = DOMAIN outline
      BY <1>1, <2>1, <3>4
    <3> HIDE DEF q
    <3> QED BY <1>1, <2>1, <3>1, <3>2, <3>5 DEF EditorOK
  <2>3. CASE outline' = RemoveAt(outline, selected) /\ selected' = IF selected = 1 THEN 1 ELSE selected - 1
    <3> DEFINE q == RemoveAt(outline, selected)
    <3>1. selected \in 1..Len(outline)
      BY <1>1, <2>1
    <3>2. q \in Seq(Row) /\ Len(q) = Len(outline) - 1
      BY <1>1, <3>1, RemoveAtFacts
    <3> HIDE DEF q
    <3>3. outline' = q /\ DOMAIN q = 1..(Len(outline) - 1)
      BY <2>3, <3>2 DEF q
    <3>4. selected' = 1 \/ selected' \in DOMAIN q
      BY <1>1, <2>3, <3>1, <3>3
    <3>5. Len(q) <= MaxRegions
      BY <1>1, <3>2
    <3> QED BY <2>1, <3>2, <3>3, <3>4, <3>5 DEF EditorOK
  <2>4. CASE UNCHANGED <<outline, selected>>
    BY <1>1, <2>1, <2>4 DEF EditorOK
  <2> QED BY <1>4, <2>2, <2>3, <2>4 DEF Type
<1>5. CASE Delete
  <2> DEFINE q == DeleteOutlineEntry(outline, selected)
  <2>1. /\ outline' = q /\ typing = None /\ UNCHANGED typing
        /\ selected' = IF selected <= Len(q) THEN selected ELSE IF q = <<>> THEN 1 ELSE Len(q)
    BY <1>5 DEF Delete, Ready
  <2>2. selected \in DOMAIN outline
    BY <1>2, <1>5 DEF Delete
  <2>3. q \in Seq(Row) /\ Len(q) = Len(outline) - 1
    BY <1>1, <2>2, DeletedFacts
  <2> HIDE DEF q
  <2>4. DOMAIN q = 1..Len(q) /\ Len(q) \in Nat /\ (q # <<>> => Len(q) # 0)
    BY <2>3, EmptySeq
  <2>5. selected' = 1 \/ selected' \in DOMAIN q
    BY <1>1, <2>1, <2>2, <2>4
  <2>6. Len(q) <= MaxRegions
    BY <1>1, <2>3
  <2> QED BY <2>1, <2>3, <2>5, <2>6 DEF EditorOK
<1> QED BY <1>3, <1>4, <1>5

LEMMA EditorStep ==
  ASSUME EditorOK, FilesOK, WizardAssumption, [WizardNext]_wizardVars
  PROVE  EditorOK'
<1>1. CASE UNCHANGED editor
  BY <1>1 DEF EditorOK, editor
<1>2. CASE outline' = <<>> /\ selected' = 1 /\ typing' = None
  <2>1. <<>> \in Seq(Row) /\ Len(<<>>) = 0 /\ 0 <= MaxRegions
    BY WizardAssumption
  <2> QED BY <1>2, <2>1 DEF EditorOK
<1>3. CASE AskGeneral
  <2> DEFINE q == FlattenRegionTree(work.regions)
  <2>1. outline' = q /\ selected' = 1 /\ typing' = None
    BY <1>3 DEF AskGeneral, OutlineFromRegions
  <2>2. /\ work.regions \in Seq(RegionConfig) /\ Len(work.regions) <= MaxRegions /\ Len(work.regions) \in Nat
        /\ MaxRegions \in Nat
    BY WizardAssumption DEF FilesOK, Settings
  <2>3. q \in Seq(Row) /\ Len(q) <= Len(work.regions) /\ Len(q) \in Nat
    BY <2>2, FlattenFacts
  <2> HIDE DEF q
  <2>4. Len(q) <= MaxRegions
    BY <2>2, <2>3
  <2> QED BY <2>1, <2>3, <2>4 DEF EditorOK
<1>4. CASE StartWizard \/ Choose \/ AskConnection \/ AddBroker \/ BrokersDone \/ DaemonRestarts
           \/ \E r \in Repeaters : DaemonSaves(r)
  BY <1>1, <1>4 DEF StartWizard, Choose, AskConnection, AddBroker, BrokersDone, DaemonRestarts, DaemonSaves
<1>5. CASE Save \/ Leave \/ CloseEditor
  BY <1>2, <1>5 DEF Save, Leave, CloseEditor, Closed
<1>6. CASE UNCHANGED wizardVars
  BY <1>1, <1>6 DEF wizardVars
<1> QED BY <1>3, <1>4, <1>5, <1>6, KeysKeepEditor, RowsKeepEditor DEF WizardNext

\* What is asked for a connection is one; old values are kept only from one.
LEMMA AskFacts ==
  ASSUME NEW old, old = None \/ old \in ConnectionConfig, NEW found \in Found,
         NEW connection \in AskSerial(old, found) \cup AskTcp(old) \cup AskBle(old, found)
  PROVE  connection \in ConnectionConfig
<1> DEFINE V == {"typed", "found", "default"} \cup {c.connection.value : c \in Readable}
<1>1. ASSUME NEW kind \in {"tcp", "serial", "ble"} PROVE Offered(old, kind) \subseteq V
  <2>1. old \in ConnectionConfig => old.value \in V
    BY DEF ConnectionConfig
  <2> HIDE DEF V
  <2>2. "default" \in V
    BY DEF V
  <2> QED BY <2>1, <2>2 DEF Offered
<1>2. PICK kind \in {"tcp", "serial", "ble"}, values \in SUBSET V : connection \in Via(kind, values)
  <2>1. {"typed", "found", "default"} \subseteq V /\ found \subseteq V
    BY DEF Found
  <2> HIDE DEF V
  <2> QED BY <1>1, <2>1 DEF AskSerial, AskTcp, AskBle
<1> HIDE DEF V
<1>3. connection \in [kind : {"tcp", "serial", "ble"}, value : V]
  BY <1>2 DEF Via
<1> QED BY <1>3 DEF ConnectionConfig, V

\* A configuration stays complete when a field that names no region is put.
LEMMA PutComplete ==
  ASSUME NEW c, Complete(c), NEW d, NEW f \in {"managed", "capacity"}, NEW value, Put(d, c, f, value)
  PROVE  Complete(d)
<1>1. Settings(c) /\ c.connection \in ConnectionConfig /\ f \in Fields /\ f # "regions" /\ f # "connection"
  BY DEF Complete, Fields
<1>2. Settings(d) /\ d.connection = c.connection
  BY <1>1, PutSettings
<1> QED BY <1>1, <1>2 DEF Complete

LEMMA SectionsKeepFiles ==
  ASSUME FilesOK, EditorOK, WizardAssumption, AskGeneral \/ AskConnection \/ AddBroker \/ CloseEditor
  PROVE  FilesOK'
<1>1. /\ Settings(work) /\ work = [f \in Fields |-> work[f]]
      /\ existing # None \/ at \in {"mqtt", "summary"} => work.connection \in ConnectionConfig
  BY DEF FilesOK, Settings
<1>2. {"label", "regions", "connection", "observer", "brokers"} \subseteq Fields
  BY DEF Fields
<1>3. CASE AskGeneral
  <2>1. PICK label : work' = [work EXCEPT !.label = label]
    BY <1>3 DEF AskGeneral
  <2>2. Put(work', work, "label", label)
    BY <1>1, <2>1, PutFacts
  <2>3. Settings(work') /\ work'.connection = work.connection
    BY <1>1, <1>2, <2>2, PutSettings
  <2>4. at = "general" /\ at' = "regions" /\ UNCHANGED <<file, daemon, existing>>
    BY <1>3 DEF AskGeneral
  <2> QED BY <2>3, <2>4 DEF FilesOK
<1>4. CASE AskConnection
  <2>1. PICK found \in Found, observer \in BOOLEAN :
          \E connection \in AskSerial(work.connection, found) \cup AskTcp(work.connection)
                            \cup AskBle(work.connection, found) :
            work' = [work EXCEPT !.connection = connection, !.observer = observer]
    BY <1>4 DEF AskConnection
  <2>2. PICK connection \in AskSerial(work.connection, found) \cup AskTcp(work.connection)
                            \cup AskBle(work.connection, found) :
          work' = [work EXCEPT !.connection = connection, !.observer = observer]
    BY <2>1
  <2> DEFINE mid == [work EXCEPT !.connection = connection]
  <2>3. work' = [mid EXCEPT !.observer = observer]
    BY <2>2
  <2>4. Put(mid, work, "connection", connection)
    BY <1>1, PutFacts
  <2> HIDE DEF mid
  <2>5. connection \in ConnectionConfig
    BY <2>2, AskFacts DEF FilesOK, Settings
  <2>6. Settings(mid) /\ mid.connection = connection
    BY <1>1, <1>2, <2>4, <2>5, PutSettings
  <2>7. Put(work', mid, "observer", observer)
    BY <2>3, <2>6, PutFacts DEF Settings
  <2>8. Settings(work') /\ work'.connection = connection
    BY <1>2, <2>6, <2>7, PutSettings
  <2>9. at = "connection" /\ at' = After("connection") /\ UNCHANGED <<file, daemon, existing>>
    BY <1>4 DEF AskConnection
  <2>10. at' = IF existing # None THEN "menu" ELSE "mqtt"
    BY <2>9 DEF After
  <2> QED BY <2>8, <2>5, <2>9, <2>10 DEF FilesOK
<1>5. CASE AddBroker
  <2>1. PICK b : work' = [work EXCEPT !.brokers = Append(@, b)]
    BY <1>5 DEF AddBroker
  <2>2. Put(work', work, "brokers", Append(work.brokers, b))
    BY <1>1, <2>1, PutFacts
  <2>3. Settings(work') /\ work'.connection = work.connection
    BY <1>1, <1>2, <2>2, PutSettings
  <2>4. UNCHANGED <<at, file, daemon, existing>>
    BY <1>5 DEF AddBroker
  <2> QED BY <2>3, <2>4 DEF FilesOK
<1>6. CASE CloseEditor
  <2>1. at = "regions" /\ at' = After("general") /\ UNCHANGED <<file, daemon, existing>>
    BY <1>6 DEF CloseEditor, Ready
  <2>2. at' = IF existing # None THEN "menu" ELSE "connection"
    BY <2>1 DEF After
  <2>3. Settings(work') /\ work'.connection = work.connection
    <3>1. CASE UNCHANGED work
      BY <1>1, <3>1
    <3>2. CASE work' = [work EXCEPT !.regions = RegionsFromOutline(outline)]
      <4> DEFINE R == RegionsFromOutline(outline)
      <4>1. R \in Seq(RegionConfig) /\ Len(R) <= MaxRegions
        BY SavedFacts DEF EditorOK
      <4> HIDE DEF R
      <4>2. Put(work', work, "regions", R)
        BY <1>1, <3>2, PutFacts DEF R
      <4> QED BY <1>1, <1>2, <4>1, <4>2, PutSettings
    <3> QED BY <1>6, <3>1, <3>2 DEF CloseEditor
  <2> QED BY <2>1, <2>2, <2>3 DEF FilesOK
<1> QED BY <1>3, <1>4, <1>5, <1>6

LEMMA FilesStep ==
  ASSUME FilesOK, EditorOK, WizardAssumption, [WizardNext]_wizardVars
  PROVE  FilesOK'
<1>1. CASE UNCHANGED <<file, daemon, at, existing, work>>
  BY <1>1 DEF FilesOK
<1>2. CASE StartWizard
  <2>1. /\ existing' = IF file \in {None, Unreadable} THEN None ELSE file
        /\ work' = IF existing' = None THEN Defaults ELSE existing'
        /\ at' = IF existing' = None THEN "general" ELSE "menu"
        /\ UNCHANGED <<file, daemon>>
    BY <1>2 DEF StartWizard
  <2>2. existing' = None \/ Complete(existing')
    BY <2>1 DEF FilesOK
  <2>3. Settings(work') /\ (existing' # None => work'.connection \in ConnectionConfig)
    BY <2>1, <2>2, DefaultsFacts DEF Complete
  <2> QED BY <2>1, <2>2, <2>3 DEF FilesOK
<1>3. CASE Choose
  BY <1>3 DEF FilesOK, Choose
<1>4. CASE BrokersDone
  <2>1. at' = After("mqtt") /\ at = "mqtt" /\ UNCHANGED <<file, daemon, existing, work>>
    BY <1>4 DEF BrokersDone
  <2>2. at' = IF existing # None THEN "menu" ELSE "summary"
    BY <2>1 DEF After
  <2> QED BY <2>1, <2>2 DEF FilesOK
<1>5. CASE Save
  <2>1. at = "summary" /\ file' = Assemble(work) /\ Closed /\ UNCHANGED daemon
    BY <1>5 DEF Save
  <2>2. Complete(work)
    BY <2>1 DEF FilesOK, Complete
  <2>3. Put(file', work, "capacity", "default")
    BY <2>1, <2>2, PutFacts DEF Assemble, Complete, Settings
  <2>4. Complete(file')
    BY <2>2, <2>3, PutComplete
  <2>5. at' = "off" /\ existing' = None /\ Settings(work')
    BY <2>1, DefaultsFacts DEF Closed
  <2> QED BY <2>1, <2>4, <2>5 DEF FilesOK
<1>6. CASE Leave
  <2>1. at' = "off" /\ existing' = None /\ Settings(work') /\ UNCHANGED <<file, daemon>>
    BY <1>6, DefaultsFacts DEF Leave, Closed
  <2> QED BY <2>1 DEF FilesOK
<1>7. ASSUME NEW r \in Repeaters, DaemonSaves(r) PROVE FilesOK'
  <2> DEFINE m == IF r \in daemon.managed THEN daemon.managed \ {r} ELSE daemon.managed \cup {r}
  <2>1. /\ daemon # None /\ daemon' = [daemon EXCEPT !.managed = m] /\ file' = daemon'
        /\ UNCHANGED <<at, existing, work>>
    BY <1>7 DEF DaemonSaves
  <2>2. Complete(daemon)
    BY <2>1 DEF FilesOK
  <2> HIDE DEF m
  <2>3. Put(daemon', daemon, "managed", m)
    BY <2>1, <2>2, PutFacts DEF Complete, Settings
  <2>4. Complete(daemon')
    BY <2>2, <2>3, PutComplete
  <2> QED BY <2>1, <2>4 DEF FilesOK
<1>8. CASE DaemonRestarts
  <2>1. file \notin {None, Unreadable} /\ daemon' = file /\ UNCHANGED <<file, at, existing, work>>
    BY <1>8 DEF DaemonRestarts
  <2> QED BY <2>1 DEF FilesOK
<1>9. CASE Up \/ Down \/ Indent(1) \/ Indent(-1) \/ Reorder(1) \/ Reorder(-1) \/ Add \/ Rename \/ Type \/ Delete
  BY <1>1, <1>9 DEF Up, Down, Indent, Reorder, Add, Rename, Type, Delete, Keep
<1>10. CASE UNCHANGED wizardVars
  BY <1>1, <1>10 DEF wizardVars
<1> QED BY <1>2, <1>3, <1>4, <1>5, <1>6, <1>7, <1>8, <1>9, <1>10, SectionsKeepFiles DEF WizardNext

LEMMA AsItWasStep ==
  ASSUME AsItWas, FilesOK, WizardAssumption, [WizardNext]_wizardVars
  PROVE  AsItWas'
<1>1. /\ Settings(work) /\ work = [f \in Fields |-> work[f]]
      /\ existing # None => at # "off"
  BY DEF FilesOK, Settings
<1>2. ASSUME NEW f, NEW value, Put(work', work, f, value), f \in visited', visited \subseteq visited',
             UNCHANGED <<file, daemon, existing, agreed>>
      PROVE  AsItWas'
  BY <1>2 DEF AsItWas, Put
<1>3. CASE UNCHANGED <<file, daemon, existing, work, visited, agreed>>
  BY <1>3 DEF AsItWas
<1>4. CASE StartWizard
  <2>1. /\ existing' # None => existing' = file
        /\ agreed' => (existing' # None /\ daemon # None => Alike(daemon, existing'))
        /\ UNCHANGED <<file, daemon>>
    BY <1>4 DEF StartWizard, Agree, Alike
  <2>2. existing' # None => work' = existing' /\ Alike(existing', file')
    BY <1>4, <2>1 DEF StartWizard, Alike
  <2> QED BY <2>1, <2>2 DEF AsItWas, Alike
<1>5. CASE AskGeneral
  <2>1. PICK label : work' = [work EXCEPT !.label = label]
    BY <1>5 DEF AskGeneral
  <2>2. Put(work', work, "label", label)
    BY <1>1, <2>1, PutFacts
  <2> QED BY <1>2, <1>5, <2>2 DEF AskGeneral
<1>6. CASE AskConnection
  <2>1. PICK connection, observer : work' = [work EXCEPT !.connection = connection, !.observer = observer]
    BY <1>6 DEF AskConnection
  <2> DEFINE mid == [work EXCEPT !.connection = connection]
  <2>2. work' = [mid EXCEPT !.observer = observer]
    BY <2>1
  <2>3. Put(mid, work, "connection", connection)
    BY <1>1, PutFacts
  <2> HIDE DEF mid
  <2>4. Put(work', mid, "observer", observer)
    BY <2>2, <2>3, PutFacts DEF Put
  <2>5. visited' = visited \cup {"connection", "observer"} /\ UNCHANGED <<file, daemon, existing, agreed>>
    BY <1>6 DEF AskConnection
  <2>6. \A f \in Fields \ visited' : work'[f] = work[f]
    BY <2>3, <2>4, <2>5 DEF Put
  <2> QED BY <2>5, <2>6 DEF AsItWas
<1>7. CASE AddBroker
  <2>1. PICK b : work' = [work EXCEPT !.brokers = Append(@, b)]
    BY <1>7 DEF AddBroker
  <2>2. Put(work', work, "brokers", Append(work.brokers, b))
    BY <1>1, <2>1, PutFacts
  <2> QED BY <1>2, <1>7, <2>2 DEF AddBroker
<1>8. CASE CloseEditor
  <2>1. CASE UNCHANGED <<work, visited>>
    BY <1>3, <1>8, <2>1 DEF CloseEditor
  <2>2. CASE work' = [work EXCEPT !.regions = RegionsFromOutline(outline)] /\ visited' = visited \cup {"regions"}
    <3>1. Put(work', work, "regions", RegionsFromOutline(outline))
      BY <1>1, <2>2, PutFacts
    <3> QED BY <1>2, <1>8, <2>2, <3>1 DEF CloseEditor
  <2> QED BY <1>8, <2>1, <2>2 DEF CloseEditor
<1>9. CASE Save \/ Leave
  BY <1>9 DEF Save, Leave, Closed, AsItWas
<1>10. ASSUME NEW r \in Repeaters, DaemonSaves(r) PROVE AsItWas'
  <2> DEFINE m == IF r \in daemon.managed THEN daemon.managed \ {r} ELSE daemon.managed \cup {r}
  <2>1. /\ daemon # None /\ daemon' = [daemon EXCEPT !.managed = m] /\ file' = daemon'
        /\ UNCHANGED <<existing, work, visited, agreed>>
    BY <1>10 DEF DaemonSaves
  <2>2. daemon = [f \in Fields |-> daemon[f]]
    BY <2>1 DEF FilesOK, Complete, Settings
  <2> HIDE DEF m
  <2>3. Put(daemon', daemon, "managed", m)
    BY <2>1, <2>2, PutFacts
  <2>4. Alike(existing, daemon) => Alike(existing, daemon')
    BY <2>3 DEF Put, Alike
  <2>5. existing # None /\ agreed => Alike(existing, daemon)
    BY <2>1 DEF AsItWas
  <2> QED BY <2>1, <2>4, <2>5 DEF AsItWas, Alike
<1>14. CASE DaemonRestarts
  <2>1. daemon' = file /\ UNCHANGED <<file, existing, work, visited, agreed>>
    BY <1>14 DEF DaemonRestarts
  <2> QED BY <2>1 DEF AsItWas
<1>11. CASE Choose \/ BrokersDone
  BY <1>3, <1>11 DEF Choose, BrokersDone
<1>12. CASE Up \/ Down \/ Indent(1) \/ Indent(-1) \/ Reorder(1) \/ Reorder(-1) \/ Add \/ Rename \/ Type \/ Delete
  BY <1>3, <1>12 DEF Up, Down, Indent, Reorder, Add, Rename, Type, Delete, Keep
<1>13. CASE UNCHANGED wizardVars
  BY <1>3, <1>13 DEF wizardVars
<1> QED BY <1>4, <1>5, <1>6, <1>7, <1>8, <1>9, <1>10, <1>11, <1>12, <1>13, <1>14 DEF WizardNext

LEMMA WizardBegins ==
  ASSUME WizardInit, WizardAssumption
  PROVE  WizardInv
<1>1. file \in {None, Unreadable} \/ Complete(file)
  BY ReadableFacts DEF WizardInit
<1>2. daemon = None \/ Complete(daemon)
  <2>1. daemon = None \/ (daemon = file /\ file # Unreadable)
    BY DEF WizardInit
  <2>2. file = None => daemon = None
    BY <2>1
  <2> QED BY <1>1, <2>1, <2>2
<1>3. EditorOK
  <2>1. <<>> \in Seq(Row) /\ Len(<<>>) = 0 /\ 0 <= MaxRegions
    BY WizardAssumption
  <2> QED BY <2>1 DEF WizardInit, EditorOK
<1>4. Settings(work)
  BY DefaultsFacts DEF WizardInit
<1>5. FilesOK
  BY <1>1, <1>2, <1>4 DEF WizardInit, FilesOK
<1>6. AsItWas
  BY DEF WizardInit, AsItWas
<1> QED BY <1>3, <1>5, <1>6 DEF WizardInv

\* The editor's index, the files and what was not asked stay as the keys, the sections
\* and the daemon's saves leave them (wizard.rs run, edit_region_tree).
THEOREM WizardInvariance == WizardSpec => []WizardInv
<1>1. WizardInit => WizardInv
  BY WizardBegins, WizardAssumption
<1>2. WizardInv /\ [WizardNext]_wizardVars => WizardInv'
  BY EditorStep, FilesStep, AsItWasStep, WizardAssumption DEF WizardInv
<1> QED BY <1>1, <1>2, PTL DEF WizardSpec

\* The editor's index stays on the outline, and the summary has a connection to show
\* (wizard.rs edit_region_tree, run).
THEOREM WizardTypes == WizardSpec => []WizardTypeOK
<1>1. WizardInv => WizardTypeOK
  BY NoneAssumption DEF WizardInv, EditorOK, FilesOK, WizardTypeOK
<1> QED BY <1>1, WizardInvariance, PTL

\* What Enter saves is the tree on the screen, whatever keys came before (wizard.rs
\* regions_from_outline, region.rs flatten_region_tree).
THEOREM WizardSavesShown == WizardSpec => []SavedAsShown
<1>1. WizardInv => SavedAsShown
  <2> SUFFICES ASSUME WizardInv PROVE SavedAsShown
    OBVIOUS
  <2>1. outline \in Seq(Row)
    BY DEF WizardInv, EditorOK
  <2> DEFINE back == FlattenRegionTree(RegionsFromOutline(outline))
  <2>2. NamesIn(back) = NamesIn(outline)
    BY <2>1, NamesSaved
  <2>3. Distinct(outline) /\ WellNested(outline) => back = outline
    BY <2>1, FlattenShown
  <2> QED BY <2>2, <2>3 DEF SavedAsShown, NamesIn
<1> QED BY <1>1, WizardInvariance, PTL

-----------------------------------------------------------------------------
(* Deleting a row.                                                         *)

\* Where a row is when row i was deleted.
After1(i, j) == IF j < i THEN j ELSE j - 1
Before1(i, j) == IF j < i THEN j ELSE j + 1

LEMMA ShiftFacts ==
  ASSUME NEW o \in Seq(Row), NEW i \in DOMAIN o
  PROVE  LET p == Promoted(o, i)
             q == DeleteOutlineEntry(o, i)
         IN /\ q \in Seq(Row) /\ DOMAIN q = 1..(Len(o) - 1)
            /\ \A j \in DOMAIN q : /\ Before1(i, j) \in DOMAIN o /\ Before1(i, j) # i
                                 /\ q[j] = p[Before1(i, j)] /\ After1(i, Before1(i, j)) = j
            /\ \A j \in DOMAIN o : j # i => /\ After1(i, j) \in DOMAIN q /\ Before1(i, After1(i, j)) = j
                                         /\ q[After1(i, j)] = p[j]
<1> DEFINE p == Promoted(o, i)
           q == DeleteOutlineEntry(o, i)
<1>1. Len(o) \in Nat /\ DOMAIN o = 1..Len(o) /\ i \in 1..Len(o)
  BY RowFacts
<1>2. p \in Seq(Row) /\ Len(p) = Len(o) /\ q = RemoveAt(p, i)
  BY PromotedFacts
<1> HIDE DEF p, q
<1>3. /\ q \in Seq(Row) /\ Len(q) = Len(o) - 1
      /\ \A k \in 1..(Len(o) - 1) : q[k] = p[IF k < i THEN k ELSE k + 1]
  <2>1. i \in 1..Len(p)
    BY <1>1, <1>2
  <2> QED BY <1>2, <2>1, RemoveAtFacts
<1>4. DOMAIN q = 1..(Len(o) - 1)
  BY <1>1, <1>3
<1>5. \A j \in DOMAIN q : /\ Before1(i, j) \in DOMAIN o /\ Before1(i, j) # i
                         /\ q[j] = p[Before1(i, j)] /\ After1(i, Before1(i, j)) = j
  BY <1>1, <1>3, <1>4 DEF Before1, After1
<1>6. \A j \in DOMAIN o : j # i => After1(i, j) \in DOMAIN q /\ Before1(i, After1(i, j)) = j
  BY <1>1, <1>4 DEF Before1, After1
<1> QED BY <1>3, <1>4, <1>5, <1>6 DEF p, q

\* A row is the nearest shallower one in the new outline when it was so in the one
\* with the subtree moved up, row i left out.
LEMMA OverShifted ==
  ASSUME NEW o \in Seq(Row), NEW i \in DOMAIN o,
         NEW m \in DOMAIN o, NEW j \in DOMAIN o, m # i, j # i, m < j,
         Promoted(o, i)[m].depth < Promoted(o, i)[j].depth,
         \A k \in (m + 1)..(j - 1) : k # i => Promoted(o, i)[k].depth >= Promoted(o, i)[j].depth
  PROVE  Over(DeleteOutlineEntry(o, i), After1(i, m), After1(i, j))
<1> DEFINE p == Promoted(o, i)
           q == DeleteOutlineEntry(o, i)
           a == After1(i, m)
           b == After1(i, j)
<1>1. Len(o) \in Nat /\ DOMAIN o = 1..Len(o) /\ i \in 1..Len(o) /\ m \in 1..Len(o) /\ j \in 1..Len(o)
  BY RowFacts
<1>2. /\ DOMAIN q = 1..(Len(o) - 1) /\ a \in DOMAIN q /\ b \in DOMAIN q
      /\ q[a] = p[m] /\ q[b] = p[j]
      /\ \A k \in DOMAIN q : Before1(i, k) \in DOMAIN o /\ Before1(i, k) # i /\ q[k] = p[Before1(i, k)]
  BY ShiftFacts
<1>3. p[m].depth < p[j].depth /\ \A k \in (m + 1)..(j - 1) : k # i => p[k].depth >= p[j].depth
  OBVIOUS
<1> HIDE DEF p, q
<1>4. a < b /\ a \in 1..(b - 1)
  BY <1>1, <1>2 DEF After1
<1>5. ASSUME NEW k \in (a + 1)..(b - 1) PROVE q[k].depth >= q[b].depth
  <2>1. k \in DOMAIN q
    BY <1>1, <1>2, <1>4
  <2>2. Before1(i, k) \in (m + 1)..(j - 1)
    BY <1>1, <1>2 DEF After1, Before1
  <2> QED BY <1>2, <1>3, <2>1, <2>2
<1>6. Over(q, a, b)
  <2> HIDE DEF a, b
  <2> QED BY <1>2, <1>3, <1>4, <1>5 DEF Over
<1> QED BY <1>6 DEF q

LEMMA SubtreeFacts ==
  ASSUME NEW o \in Seq(Row), NEW i \in DOMAIN o, NEW j \in DOMAIN o
  PROVE  /\ j \in Subtree(o, i) <=> i < j /\ \A k \in (i + 1)..j : o[k].depth > o[i].depth
         /\ j \in Subtree(o, i) => o[j].depth > o[i].depth
         /\ j \in Subtree(o, i) => \A k \in (i + 1)..j : k \in DOMAIN o /\ k \in Subtree(o, i)
<1>1. Len(o) \in Nat /\ DOMAIN o = 1..Len(o) /\ i \in 1..Len(o) /\ j \in 1..Len(o)
  BY RowFacts
<1>2. j \in Subtree(o, i) <=> i < j /\ \A k \in (i + 1)..j : o[k].depth > o[i].depth
  BY <1>1 DEF Subtree
<1>3. j \in Subtree(o, i) => o[j].depth > o[i].depth
  <2>1. i < j => j \in (i + 1)..j
    BY <1>1
  <2> QED BY <1>2, <2>1
<1>4. ASSUME j \in Subtree(o, i), NEW k \in (i + 1)..j PROVE k \in DOMAIN o /\ k \in Subtree(o, i)
  <2>1. k \in (i + 1)..Len(o) /\ \A l \in (i + 1)..k : l \in (i + 1)..j
    BY <1>1
  <2> QED BY <1>1, <1>2, <1>4, <2>1 DEF Subtree
<1> QED BY <1>2, <1>3, <1>4

\* The depths of the rows of a subtree moved up.
LEMMA MovedFacts ==
  ASSUME NEW o \in Seq(Row), NEW s \in DOMAIN o, NEW j \in DOMAIN o
  PROVE  /\ o[j].depth \in Nat /\ o[s].depth \in Nat /\ Promoted(o, s)[j].depth \in Int
         /\ j \in Subtree(o, s) => /\ s < j /\ o[j].depth > o[s].depth
                                   /\ Promoted(o, s)[j].depth = o[j].depth - 1
         /\ j \notin Subtree(o, s) => Promoted(o, s)[j].depth = o[j].depth
<1>1. o[j].depth \in Nat /\ o[s].depth \in Nat
  BY RowFacts
<1>2. Promoted(o, s)[j].depth = IF j \in Subtree(o, s) THEN o[j].depth - 1 ELSE o[j].depth
  BY PromotedFacts
<1>3. j \in Subtree(o, s) => s < j /\ o[j].depth > o[s].depth
  BY SubtreeFacts
<1> QED BY <1>1, <1>2, <1>3

\* No level is skipped when a row goes.
LEMMA DeletedNested ==
  ASSUME NEW o \in Seq(Row), NEW s \in DOMAIN o, WellNested(o)
  PROVE  WellNested(DeleteOutlineEntry(o, s))
<1> DEFINE q == DeleteOutlineEntry(o, s)
           d(j) == o[j].depth
           D(j) == Promoted(o, s)[j].depth
           S == Subtree(o, s)
<1>1. Len(o) \in Nat /\ DOMAIN o = 1..Len(o) /\ s \in 1..Len(o)
  BY RowFacts
<1>2. \A j \in DOMAIN o : /\ d(j) \in Nat /\ D(j) \in Int
                          /\ j \in S => s < j /\ d(j) > d(s) /\ D(j) = d(j) - 1
                          /\ j \notin S => D(j) = d(j)
  BY MovedFacts
<1>3. \A j \in DOMAIN o : /\ j \in S <=> s < j /\ \A k \in (s + 1)..j : d(k) > d(s)
                          /\ j \in S => \A k \in (s + 1)..j : k \in S
  BY SubtreeFacts
<1>4. \A j \in DOMAIN o : d(j) <= IF j = 1 THEN 0 ELSE d(j - 1) + 1
  BY DEF WellNested
<1>5. /\ DOMAIN q = 1..(Len(o) - 1)
      /\ \A j \in DOMAIN q : /\ Before1(s, j) \in DOMAIN o /\ Before1(s, j) # s
                             /\ q[j].depth = D(Before1(s, j))
  <2>1. /\ DOMAIN q = 1..(Len(o) - 1)
        /\ \A j \in DOMAIN q : /\ Before1(s, j) \in DOMAIN o /\ Before1(s, j) # s
                               /\ q[j] = Promoted(o, s)[Before1(s, j)]
    BY ShiftFacts
  <2> HIDE DEF q
  <2> QED BY <2>1
<1> HIDE DEF q, d, D, S
<1>6. ASSUME NEW i \in DOMAIN q PROVE q[i].depth <= IF i = 1 THEN 0 ELSE q[i - 1].depth + 1
  <2> DEFINE j == Before1(s, i)
  <2>1. j \in DOMAIN o /\ j # s /\ q[i].depth = D(j) /\ j = (IF i < s THEN i ELSE i + 1)
    BY <1>5 DEF Before1
  <2>2. i \in Nat /\ 1 <= i
    BY <1>1, <1>5
  <2> HIDE DEF j
  <2>3. CASE i = 1 /\ j = 1
    <3>1. j \notin S
      BY <1>1, <1>2, <2>1, <2>3
    <3>2. d(j) <= 0 /\ D(j) = d(j)
      BY <1>2, <1>4, <2>1, <2>3, <3>1
    <3> QED BY <2>1, <2>3, <3>2
  <2>4. CASE i = 1 /\ j = 2
    <3>1. s = 1 /\ 1 \in DOMAIN o /\ 2 \in DOMAIN o
      BY <1>1, <2>1, <2>4
    <3>2. d(1) <= 0 /\ d(2) <= d(1) + 1
      BY <1>4, <3>1
    <3>3. 2 \notin S => ~ (d(2) > d(1))
      <4>1. \A k \in (s + 1)..2 : k = 2
        BY <3>1
      <4> QED BY <1>3, <3>1, <4>1
    <3>4. D(2) <= 0
      BY <1>2, <3>1, <3>2, <3>3
    <3> QED BY <2>1, <2>4, <3>4
  <2>5. CASE i # 1
    <3> DEFINE l == Before1(s, i - 1)
    <3>1. i - 1 \in DOMAIN q
      BY <1>1, <1>5, <2>5
    <3>2. l \in DOMAIN o /\ l # s /\ q[i - 1].depth = D(l) /\ l = (IF i - 1 < s THEN i - 1 ELSE i)
      BY <1>5, <2>2, <3>1 DEF Before1
    <3> HIDE DEF l
    <3>3. D(j) <= D(l) + 1
      <4>1. CASE j = l + 1
        <5>1. d(j) <= d(l) + 1
          BY <1>1, <1>4, <2>1, <3>2, <4>1
        <5>2. CASE l \in S /\ j \notin S
          <6>1. d(j) <= d(s)
            <7>1. \A k \in (s + 1)..l : k \in S /\ k \in DOMAIN o
              BY <1>1, <1>3, <3>2, <5>2
            <7>2. \A k \in (s + 1)..j : k = j \/ k \in (s + 1)..l
              BY <1>1, <2>1, <3>2, <4>1
            <7>3. s < j
              BY <1>1, <1>2, <2>1, <3>2, <4>1, <5>2
            <7>4. d(j) > d(s) => \A k \in (s + 1)..j : d(k) > d(s)
              BY <1>2, <7>1, <7>2
            <7>5. ~ (d(j) > d(s))
              BY <1>3, <2>1, <5>2, <7>3, <7>4
            <7> QED BY <1>1, <1>2, <2>1, <7>5
          <6> QED BY <1>1, <1>2, <2>1, <3>2, <5>2, <6>1
        <5>3. CASE ~ (l \in S /\ j \notin S)
          BY <1>2, <2>1, <3>2, <5>1, <5>3
        <5> QED BY <5>2, <5>3
      <4>2. CASE j # l + 1
        <5>1. l = s - 1 /\ j = s + 1 /\ l \in Nat /\ 1 <= l
          BY <1>1, <2>1, <2>2, <3>2, <4>2
        <5>2. d(j) <= d(s) + 1 /\ d(s) <= d(l) + 1
          <6>1. j - 1 = s /\ j # 1 /\ s - 1 = l /\ s # 1
            BY <1>1, <5>1
          <6> QED BY <1>1, <1>4, <2>1, <6>1
        <5>3. D(l) = d(l)
          BY <1>1, <1>2, <3>2, <5>1
        <5>4. j \notin S => d(j) <= d(s)
          <6>1. s < j /\ \A k \in (s + 1)..j : k = j
            BY <1>1, <5>1
          <6> QED BY <1>1, <1>2, <1>3, <2>1, <6>1
        <5> QED BY <1>1, <1>2, <2>1, <3>2, <5>2, <5>3, <5>4
      <4> QED BY <4>1, <4>2
    <3> QED BY <2>1, <2>5, <3>2, <3>3
  <2>6. i = 1 => j \in {1, 2}
    BY <1>1, <2>1
  <2> QED BY <2>3, <2>4, <2>5, <2>6
<1> QED BY <1>6 DEF WellNested, q

\* A row whose parent stays keeps it.
LEMMA StillOver ==
  ASSUME NEW o \in Seq(Row), NEW s \in DOMAIN o, NEW m \in DOMAIN o, NEW j \in DOMAIN o,
         m # s, j # s, Over(o, m, j)
  PROVE  Over(DeleteOutlineEntry(o, s), After1(s, m), After1(s, j))
<1> DEFINE d(k) == o[k].depth
           D(k) == Promoted(o, s)[k].depth
           S == Subtree(o, s)
<1>1. /\ Len(o) \in Nat /\ DOMAIN o = 1..Len(o)
      /\ s \in 1..Len(o) /\ m \in 1..Len(o) /\ j \in 1..Len(o)
  BY RowFacts
<1>2. /\ d(s) \in Nat
      /\ \A k \in DOMAIN o : /\ d(k) \in Nat /\ D(k) \in Int
                             /\ k \in S => s < k /\ d(k) > d(s) /\ D(k) = d(k) - 1
                             /\ k \notin S => D(k) = d(k)
  BY MovedFacts
<1>3. \A k \in DOMAIN o : /\ k \in S <=> s < k /\ \A l \in (s + 1)..k : d(l) > d(s)
                          /\ k \in S => \A l \in (s + 1)..k : l \in S
  BY SubtreeFacts
<1>4. m < j /\ d(m) < d(j) /\ \A k \in (m + 1)..(j - 1) : d(k) >= d(j)
  BY <1>1 DEF Over
<1> HIDE DEF d, D, S
<1>5. CASE j \in S
  <2>1. ~ (m < s)
    <3>1. m < s => s \in (m + 1)..(j - 1)
      BY <1>1, <1>2, <1>5
    <3> QED BY <1>2, <1>4, <1>5, <3>1
  <2>2. m \in (s + 1)..j /\ \A k \in (m + 1)..(j - 1) : k \in (s + 1)..j /\ k \in DOMAIN o
    BY <1>1, <1>4, <2>1
  <2>3. m \in S /\ \A k \in (m + 1)..(j - 1) : k \in S /\ k \in DOMAIN o
    BY <1>3, <1>5, <2>2
  <2>4. D(m) < D(j)
    BY <1>2, <1>4, <1>5, <2>3
  <2>5. \A k \in (m + 1)..(j - 1) : D(k) >= D(j)
    BY <1>2, <1>4, <1>5, <2>3
  <2> QED BY <1>4, <2>4, <2>5, OverShifted DEF D
<1>6. CASE j \notin S
  <2>1. D(m) < D(j)
    BY <1>2, <1>4, <1>6
  <2>2. ASSUME NEW k \in (m + 1)..(j - 1), k # s PROVE D(k) >= D(j)
    <3>1. k \in DOMAIN o /\ d(k) >= d(j)
      BY <1>1, <1>4
    <3>2. CASE k \in S /\ m < s
      <4>1. s \in (m + 1)..(j - 1)
        BY <1>1, <1>2, <3>1, <3>2
      <4>2. d(s) >= d(j)
        BY <1>4, <4>1
      <4>3. /\ d(s) \in Nat /\ d(k) \in Nat /\ d(j) \in Nat
            /\ d(k) > d(s) /\ D(k) = d(k) - 1 /\ D(j) = d(j)
        BY <1>2, <1>6, <3>1, <3>2
      <4> QED BY <4>2, <4>3
    <3>3. CASE k \in S /\ ~ (m < s)
      <4>1. s < j /\ m \in (s + 1)..k /\ m \in S
        BY <1>1, <1>2, <1>3, <3>1, <3>3
      <4>2. PICK l \in (s + 1)..j : ~ (d(l) > d(s))
        BY <1>3, <1>6, <4>1
      <4>3. l \in DOMAIN o /\ ~ (l \in (s + 1)..k)
        <5>1. l \in DOMAIN o
          BY <1>1
        <5>2. l \in (s + 1)..k => l \in S
          BY <1>3, <3>1, <3>3
        <5> QED BY <1>2, <4>2, <5>1, <5>2
      <4>4. l = j \/ l \in (m + 1)..(j - 1)
        <5>1. l \in Nat /\ s < l /\ l <= j
          BY <1>1
        <5>2. k \in Nat /\ m < k /\ k < l
          BY <1>1, <4>3, <5>1
        <5> QED BY <1>1, <5>1, <5>2
      <4>5. d(l) >= d(j) /\ d(m) > d(s)
        BY <1>2, <1>4, <4>1, <4>4
      <4> QED BY <1>2, <1>4, <4>2, <4>3, <4>5
    <3>4. CASE k \notin S
      BY <1>2, <1>6, <3>1, <3>4
    <3> QED BY <3>2, <3>3, <3>4
  <2> QED BY <1>4, <2>1, <2>2, OverShifted DEF D
<1> QED BY <1>5, <1>6

\* A child of the row that goes is given to that row's parent, or moves to the top.
LEMMA Adopted ==
  ASSUME NEW o \in Seq(Row), NEW s \in DOMAIN o, NEW j \in DOMAIN o,
         Over(o, s, j), o[s].depth = o[j].depth - 1
  PROVE  /\ j # s /\ Promoted(o, s)[j].depth = o[s].depth
         /\ \A l \in DOMAIN o : Over(o, l, s) =>
              Over(DeleteOutlineEntry(o, s), After1(s, l), After1(s, j))
<1> DEFINE d(k) == o[k].depth
           D(k) == Promoted(o, s)[k].depth
           S == Subtree(o, s)
<1>1. Len(o) \in Nat /\ DOMAIN o = 1..Len(o) /\ s \in 1..Len(o) /\ j \in 1..Len(o)
  BY RowFacts
<1>2. /\ d(s) \in Nat
      /\ \A k \in DOMAIN o : /\ d(k) \in Nat /\ D(k) \in Int
                             /\ k \in S => s < k /\ d(k) > d(s) /\ D(k) = d(k) - 1
                             /\ k \notin S => D(k) = d(k)
  BY MovedFacts
<1>3. \A k \in DOMAIN o : /\ k \in S <=> s < k /\ \A l \in (s + 1)..k : d(l) > d(s)
                          /\ k \in S => \A l \in (s + 1)..k : l \in S
  BY SubtreeFacts
<1>4. s < j /\ d(s) = d(j) - 1 /\ \A k \in (s + 1)..(j - 1) : d(k) >= d(j)
  BY <1>1 DEF Over
<1>5. \A l \in DOMAIN o : Over(o, l, s) => /\ l < s /\ d(l) < d(s)
                                           /\ \A k \in (l + 1)..(s - 1) : d(k) >= d(s)
  BY <1>1 DEF Over
<1> HIDE DEF d, D, S
<1>6. j \in S
  <2>1. \A k \in (s + 1)..j : k \in DOMAIN o /\ (k = j \/ k \in (s + 1)..(j - 1))
    BY <1>1
  <2>2. \A k \in (s + 1)..j : d(k) > d(s)
    BY <1>2, <1>4, <2>1
  <2> QED BY <1>3, <1>4, <2>2
<1>7. j # s /\ D(j) = d(s)
  BY <1>1, <1>2, <1>4, <1>6
<1>8. ASSUME NEW l \in DOMAIN o, Over(o, l, s)
      PROVE  Over(DeleteOutlineEntry(o, s), After1(s, l), After1(s, j))
  <2>1. l < s /\ d(l) < d(s) /\ \A k \in (l + 1)..(s - 1) : d(k) >= d(s)
    BY <1>5, <1>8
  <2>2. l # s /\ l < j /\ D(l) < D(j)
    BY <1>1, <1>2, <1>4, <1>7, <2>1
  <2>3. ASSUME NEW k \in (l + 1)..(j - 1), k # s PROVE D(k) >= D(j)
    <3>1. k \in DOMAIN o
      BY <1>1
    <3>2. CASE k < s
      <4>1. k \in (l + 1)..(s - 1) /\ k \notin S
        BY <1>1, <1>2, <3>1, <3>2
      <4> QED BY <1>2, <1>7, <2>1, <3>1, <4>1
    <3>3. CASE s < k
      <4>1. k \in (s + 1)..(j - 1) /\ k \in (s + 1)..j
        BY <1>1, <3>3
      <4>2. k \in S /\ d(k) >= d(j)
        BY <1>3, <1>4, <1>6, <4>1
      <4> QED BY <1>2, <1>4, <1>7, <3>1, <4>2
    <3> QED BY <1>1, <2>3, <3>1, <3>2, <3>3
  <2> QED BY <1>7, <2>2, <2>3, OverShifted DEF D
<1> QED BY <1>7, <1>8 DEF d, D

\* The names below the row that goes, and above it, stay where they were, and differ.
LEMMA DeletedNames ==
  ASSUME NEW o \in Seq(Row), NEW s \in DOMAIN o, Distinct(o)
  PROVE  LET q == DeleteOutlineEntry(o, s)
         IN /\ Distinct(q)
            /\ \A i \in DOMAIN q : q[i].name = o[Before1(s, i)].name /\ Before1(s, i) \in DOMAIN o \ {s}
            /\ \A j \in DOMAIN o : j # s => q[After1(s, j)].name = o[j].name
<1> DEFINE q == DeleteOutlineEntry(o, s)
           p == Promoted(o, s)
<1>1. \A j \in DOMAIN o : p[j].name = o[j].name
  BY PromotedFacts
<1>2. /\ \A i \in DOMAIN q : /\ Before1(s, i) \in DOMAIN o /\ Before1(s, i) # s
                             /\ q[i] = p[Before1(s, i)] /\ After1(s, Before1(s, i)) = i
      /\ \A j \in DOMAIN o : j # s => q[After1(s, j)] = p[j]
  BY ShiftFacts
<1> HIDE DEF p, q
<1>3. \A i \in DOMAIN q : q[i].name = o[Before1(s, i)].name /\ Before1(s, i) \in DOMAIN o \ {s}
  BY <1>1, <1>2
<1>4. \A j \in DOMAIN o : j # s => q[After1(s, j)].name = o[j].name
  BY <1>1, <1>2
<1>5. ASSUME NEW i \in DOMAIN q, NEW k \in DOMAIN q, i # k PROVE q[i].name # q[k].name
  <2>1. Before1(s, i) # Before1(s, k)
    BY <1>2, <1>5
  <2> QED BY <1>3, <2>1 DEF Distinct
<1> QED BY <1>3, <1>4, <1>5 DEF q, Distinct

\* The parent of a row that stays: its own, or that of the row that goes.
LEMMA DeletedParents ==
  ASSUME NEW o \in Seq(Row), NEW s \in DOMAIN o, Distinct(o), WellNested(o),
         NEW i \in DOMAIN DeleteOutlineEntry(o, s)
  PROVE  ParentIn(DeleteOutlineEntry(o, s), i) =
           IF ParentIn(o, Before1(s, i)) = o[s].name THEN ParentIn(o, s) ELSE ParentIn(o, Before1(s, i))
<1> DEFINE q == DeleteOutlineEntry(o, s)
           j == Before1(s, i)
<1>1. /\ q \in Seq(Row) /\ WellNested(q)
      /\ j \in DOMAIN o /\ j # s /\ After1(s, j) = i
      /\ q[i] = Promoted(o, s)[j]
  BY ShiftFacts, DeletedNested
<1>2. \A k \in DOMAIN o : k # s => q[After1(s, k)].name = o[k].name
  BY DeletedNames
<1>3. o[s].name # None
  BY RowFacts, NoneAssumption
<1>4. i \in DOMAIN q
  OBVIOUS
<1> HIDE DEF q, j
<1>5. CASE o[j].depth = 0
  <2>1. ParentIn(o, j) = None
    BY <1>1, <1>5, NestedParent
  <2>2. j \notin Subtree(o, s)
    BY <1>1, <1>5, MovedFacts
  <2>3. q[i].depth = 0
    BY <1>1, <1>5, <2>2, MovedFacts
  <2>4. ParentIn(q, i) = None
    BY <1>1, <1>4, <2>3, NestedParent
  <2> QED BY <1>3, <2>1, <2>4 DEF q, j
<1>6. CASE o[j].depth # 0
  <2>1. PICK m : Over(o, m, j) /\ o[m].depth = o[j].depth - 1
    BY <1>1, <1>6, OverExists
  <2>2. m \in DOMAIN o /\ ParentIn(o, j) = o[m].name
    BY <1>1, <2>1, NestedParent
  <2>3. CASE m # s
    <3>1. Over(q, After1(s, m), i)
      BY <1>1, <2>1, <2>2, <2>3, StillOver DEF q
    <3>2. ParentIn(q, i) = q[After1(s, m)].name
      BY <1>1, <1>4, <3>1, NestedParent
    <3>3. ParentIn(q, i) = o[m].name
      BY <1>2, <2>2, <2>3, <3>2
    <3>4. o[m].name # o[s].name
      BY <2>2, <2>3 DEF Distinct
    <3> QED BY <2>2, <3>3, <3>4 DEF q, j
  <2>4. CASE m = s
    <3>1. /\ Promoted(o, s)[j].depth = o[s].depth
          /\ \A l \in DOMAIN o : Over(o, l, s) => Over(q, After1(s, l), i)
      BY <1>1, <2>1, <2>4, Adopted DEF q
    <3>2. CASE o[s].depth = 0
      <4>1. ParentIn(o, s) = None
        BY <3>2, NestedParent
      <4>2. ParentIn(q, i) = None
        BY <1>1, <1>4, <3>1, <3>2, NestedParent
      <4> QED BY <2>2, <2>4, <4>1, <4>2 DEF q, j
    <3>3. CASE o[s].depth # 0
      <4>1. PICK l : Over(o, l, s)
        BY <3>3, OverExists
      <4>2. l \in DOMAIN o /\ ParentIn(o, s) = o[l].name
        BY <4>1, NestedParent
      <4>3. l # s
        BY <4>1, <4>2, RowFacts DEF Over
      <4>4. ParentIn(q, i) = q[After1(s, l)].name
        BY <1>1, <1>4, <3>1, <4>1, <4>2, NestedParent
      <4>5. ParentIn(q, i) = o[l].name
        BY <1>2, <4>2, <4>3, <4>4
      <4> QED BY <2>2, <2>4, <4>2, <4>5 DEF q, j
    <3> QED BY <3>2, <3>3
  <2> QED BY <2>3, <2>4
<1> QED BY <1>5, <1>6

\* Where names are distinct, a name has the parent of its row.
LEMMA NamedParent ==
  ASSUME NEW o \in Seq(Row), Distinct(o), NEW i \in DOMAIN o
  PROVE  ParentOf(o, o[i].name) = ParentIn(o, i)
<1>1. (CHOOSE k \in DOMAIN o : o[k].name = o[i].name) = i
  BY DEF Distinct
<1> QED BY <1>1 DEF ParentOf

\* Deleting a region gives its children to its own parent and leaves every other
\* region where it is (wizard.rs delete_outline_entry).
THEOREM WizardDeletes == WizardSpec => DeletePromotes
<1>1. WizardInv /\ [WizardNext]_wizardVars =>
        [Delete /\ Distinct(outline) /\ WellNested(outline) =>
           LET gone == outline[selected].name
           IN \A i \in DOMAIN outline' :
                LET name == outline'[i].name
                    was  == ParentOf(outline, name)
                IN ParentOf(outline', name) = IF was = gone THEN ParentOf(outline, gone) ELSE was
        ]_wizardVars
  <2> SUFFICES ASSUME WizardInv, Delete, Distinct(outline), WellNested(outline),
                      NEW i \in DOMAIN outline'
               PROVE  LET gone == outline[selected].name
                          name == outline'[i].name
                          was  == ParentOf(outline, name)
                      IN ParentOf(outline', name) = IF was = gone THEN ParentOf(outline, gone) ELSE was
    OBVIOUS
  <2> DEFINE o == outline
             s == selected
             q == DeleteOutlineEntry(o, s)
             j == Before1(s, i)
  <2>1. o \in Seq(Row) /\ s \in DOMAIN o /\ outline' = q
    BY DEF WizardInv, EditorOK, Delete, Ready
  <2>2. i \in DOMAIN q
    BY <2>1
  <2>3. q \in Seq(Row) /\ Distinct(q) /\ j \in DOMAIN o /\ q[i].name = o[j].name
    <3>1. q \in Seq(Row)
      BY <2>1, DeletedFacts
    <3>2. Distinct(q) /\ \A k \in DOMAIN q : q[k].name = o[Before1(s, k)].name /\ Before1(s, k) \in DOMAIN o \ {s}
      BY <2>1, DeletedNames
    <3> QED BY <2>2, <3>1, <3>2
  <2>4. ParentOf(q, q[i].name) = ParentIn(q, i)
    <3> HIDE DEF q
    <3> QED BY <2>2, <2>3, NamedParent
  <2>5. ParentOf(o, o[j].name) = ParentIn(o, j) /\ ParentOf(o, o[s].name) = ParentIn(o, s)
    BY <2>1, <2>3, NamedParent
  <2>6. ParentIn(q, i) = IF ParentIn(o, j) = o[s].name THEN ParentIn(o, s) ELSE ParentIn(o, j)
    BY <2>1, <2>2, DeletedParents
  <2> HIDE DEF q, j
  <2> QED BY <2>1, <2>3, <2>4, <2>5, <2>6
<1> QED BY <1>1, WizardInvariance, PTL DEF WizardSpec, DeletePromotes

\* A save leaves what was not asked as the wizard found it; where the daemon knew that
\* file, nothing of what it saved meanwhile is lost but the managed repeaters
\* (wizard.rs run, main.rs save_and_report).
THEOREM WizardKeepsUnasked == WizardSpec => SaveKeepsUnasked
<1>1. WizardInv /\ [WizardNext]_wizardVars =>
        [Save /\ existing # None =>
           \A field \in DOMAIN file' \ (visited \cup {"capacity"}) :
             /\ file'[field] = existing[field]
             /\ agreed /\ field # "managed" => file'[field] = file[field]]_wizardVars
  <2> SUFFICES ASSUME WizardInv, Save, existing # None,
                      NEW field \in DOMAIN file' \ (visited \cup {"capacity"})
               PROVE  /\ file'[field] = existing[field]
                      /\ agreed /\ field # "managed" => file'[field] = file[field]
    OBVIOUS
  <2>1. Put(file', work, "capacity", "default")
    BY PutFacts DEF Save, Assemble, WizardInv, FilesOK, Settings
  <2>2. field \in Fields /\ file'[field] = work[field]
    <3>1. DOMAIN file' = Fields
      BY <2>1 DEF Put
    <3> QED BY <2>1, <3>1 DEF Put
  <2>3. work[field] = existing[field] /\ (agreed /\ field # "managed" => file[field] = existing[field])
    BY <2>2 DEF WizardInv, AsItWas, Alike
  <2> QED BY <2>2, <2>3
<1> QED BY <1>1, WizardInvariance, PTL DEF WizardSpec, SaveKeepsUnasked
=============================================================================
