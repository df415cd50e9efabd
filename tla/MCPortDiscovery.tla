-------------------------- MODULE MCPortDiscovery --------------------------
(***************************************************************************)
(* Instances of PortDiscovery for TLC.                                      *)
(***************************************************************************)
EXTENDS PortDiscovery, TLC

CONSTANTS r1, c1, c2, c3, g1, g2, g3

\* Every controller and every orchestrator is for the same robot.
IdShared == [x \in Controllers \cup Orchestrators |-> r1]

\* Orchestrators with a name for an id, and with an id that does not fit an int.
IdStrange ==
    [x \in Controllers \cup Orchestrators |->
       CASE x = g2 -> "not_a_number" [] x = g3 -> "too_large" [] OTHER -> r1]

Symmetry == Permutations(Controllers) \cup Permutations(Orchestrators)
=============================================================================
