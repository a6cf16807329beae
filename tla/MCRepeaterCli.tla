---------------------------- MODULE MCRepeaterCli ----------------------------
(* Instance for TLC: a contact with a password, one without, and a repeater   *)
(* that was only overheard.  The state graph is the sum of two: a user who   *)
(* opens two popups, the second of the first repeater again or of the third, *)
(* and the command line next to one popup of the first, which stays open and *)
(* whose answers all come unless the login fails.                            *)
EXTENDS RepeaterCli

CONSTANTS a, b, c

VARIABLE scenario

ACommands ==
  [do : {"manage", "unmanage", "remove", "telemetry"}, on : {a}]
  \cup [do : {"manage"}, on : {c}]
  \cup [do : {"add"}, on : {c}, manage : {TRUE}, key : KeyForms]

MCInit ==
  /\ CliInit
  /\ scenario \in {"popups", "command line"} /\ tiers \in (IF scenario = "popups" THEN {{}} ELSE {{}, {a}})

AllAnswered == mesh.at \in Category \ {"telemetry"} /\ mesh.out = <<>> /\ mesh'.out # <<>>
               => Head(mesh'.out).ok

MCNext ==
  /\ CliNext
  /\ IF scenario = "popups" THEN UNCHANGED <<cli, changes>> /\ (popup' # None => popup'.on \in {a, IF popup'.id = 1 THEN b ELSE c})
     ELSE UNCHANGED cut /\ (popup # None => popup' # None) /\ (popup' # None => popup'.on = a)
          /\ strays' = {} /\ AllAnswered
  /\ UNCHANGED scenario

MCSpec == MCInit /\ [][MCNext]_<<vars, scenario>>
=============================================================================
