-------------------------- MODULE MCBrokerReload --------------------------
(* Instances of BrokerReload for TLC. *)
EXTENDS BrokerReload, TLC

NameSymmetry == Permutations(Names) \cup Permutations(Settings)
=============================================================================
