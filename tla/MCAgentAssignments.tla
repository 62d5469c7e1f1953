------------------------- MODULE MCAgentAssignments -------------------------
(***************************************************************************)
(* Instances of AgentAssignments for TLC.                                  *)
(***************************************************************************)
EXTENDS AgentAssignments

CONSTANTS a1, a2, u1, u2, x1, v1, v2, o1

OneMachine == [j \in Jobs |-> v1]
TwoMachines == [j \in Jobs |-> IF j = a2 THEN v2 ELSE v1]
OneOperator == [j \in Jobs |-> o1]
Rising == [j \in Updates |-> IF j = u1 THEN 2 ELSE 3]

\* The operator keeps the permission, a suspended Tenant withdraws as much, and
\* no request arrives late.
KeptPermissions ==
  \/ (\E j \in Jobs : CreateLifecycleJob(j)) /\ UNCHANGED agentVars
  \/ (\E a \in Actors : WithdrawIdentityOperations(a)) /\ UNCHANGED agentVars
  \/ SuspendTenant /\ UNCHANGED agentVars
  \/ ReactivateTenant /\ UNCHANGED agentVars
  \/ Gateway(request, TRUE) /\ UNCHANGED agentVars
  \/ Agent
  \/ ExchangeLost
  \/ \E j \in Lifecycle : Updater(j)
  \/ ServiceCrashes
  \/ HostRestarts

UpdateSpec == Init /\ [][KeptPermissions]_vars

=============================================================================
