------------------------------ MODULE MCWizard ------------------------------
(* Instance for TLC: no file, one that cannot be read, and files whose       *)
(* regions are a tree, a tree out of order with a cycle beside it, and two   *)
(* of one name.  The graph is the sum of two: the editor, opened on nothing,  *)
(* and everything else, with an editor closed at once, one broker, and few of *)
(* the connections.                                                          *)
EXTENDS Wizard

CONSTANTS x, y, z, r1

VARIABLE scenario

Region(n, p) == [name |-> n, parent |-> p]
Trees == {<<Region(x, None), Region(y, x)>>,
          <<Region(y, x), Region(x, None), Region(z, z)>>,
          <<Region(x, None), Region(x, x)>>}
ConfigOf(tree) ==
  [label |-> "old", regions |-> tree, connection |-> [kind |-> "tcp", value |-> "old"], observer |-> FALSE,
   brokers |-> <<>>, managed |-> {}, other |-> "old", capacity |-> "old"]
AFiles == {None, Unreadable} \cup {ConfigOf(t) : t \in Trees}

MCInit ==
  /\ WizardInit /\ scenario \in {"editor", "sections"}
  /\ scenario = "editor" => file = None

MCNext ==
  /\ WizardNext /\ UNCHANGED scenario
  /\ IF scenario = "editor"
     THEN /\ at' \in {"menu", "general", "regions"}
          /\ at = "regions" => at' = "regions"
          /\ work'.label # "typed"
     ELSE /\ at = "regions" => at' # "regions"
          /\ work'.connection # None =>
               work'.connection \in Via("tcp", {"old"}) \cup Via("serial", {"found"})
          /\ \A i \in DOMAIN work'.brokers :
               work'.brokers[i].name = x /\ work'.brokers[i].auth # "none"

MCSpec == MCInit /\ [][MCNext]_<<wizardVars, scenario>>
=============================================================================
