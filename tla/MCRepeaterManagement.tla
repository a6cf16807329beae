---------------------- MODULE MCRepeaterManagement ----------------------
(* Three scenarios in one run.  "passes": two connections with the node    *)
(* changed in between, and entries with complete keys that users write.    *)
(* "commands": one connection and one command, of any repeater, while the  *)
(* node changes by itself.  "file": one connection to a quiet node, two    *)
(* commands, and an edit, a reload and a restart, or two reloads.  In the  *)
(* last two only commands write entries.  Keys are interchangeable.        *)
EXTENDS RepeaterManagement, TLC

VARIABLE scenario

NodeSymmetry == Permutations(Nodes)

MCInit ==
  /\ Init
  /\ scenario \in {"passes", "commands", "file"}
  /\ scenario # "passes" => \A n \in Nodes : config.entry[n] = NoEntry
  /\ scenario = "file" => nodeContacts = Nodes /\ ~config.observer

OneReload == budget'.reload >= MaxReloads - 1

Passes == OneReload /\ budget'.command = MaxCommands /\ budget'.restart = MaxRestarts

OneConnection == budget'.connect >= MaxConnects - 1

OneCommand ==
  /\ OneReload /\ OneConnection
  /\ budget'.command >= MaxCommands - 1
  /\ budget'.edit = MaxEdits /\ budget'.restart = MaxRestarts

\* The node hears nobody and adds nobody; what the user edits is removed.
QuietNode ==
  /\ OneConnection
  /\ OneReload \/ (budget'.edit = MaxEdits /\ budget'.restart = MaxRestarts)
  /\ UNCHANGED discovered
  /\ \E n \in Nodes : nodeContacts' \in {nodeContacts, nodeContacts \ {n}}
  /\ budget'.edit # budget.edit =>
       disk'.observer = disk.observer /\ \A n \in Nodes : disk'.entry[n] \in {disk.entry[n], NoEntry}

MCNext ==
  /\ Next
  /\ CASE scenario = "passes" -> Passes
       [] scenario = "commands" -> OneCommand
       [] scenario = "file" -> QuietNode
  /\ UNCHANGED scenario

MCSpec == MCInit /\ [][MCNext]_<<vars, scenario>>
=============================================================================
