------------------------- MODULE MCHyperVManagement -------------------------
(***************************************************************************)
(* Instances of HyperVManagement for TLC.                                  *)
(***************************************************************************)
EXTENDS HyperVManagement

CONSTANTS w1, w2, r1, v1, v2, u1

OneMachine == [j \in Jobs |-> v1]
TwoMachines == [j \in Jobs |-> IF j = w2 THEN v2 ELSE v1]
OneUser == [j \in Jobs |-> u1]

=============================================================================
