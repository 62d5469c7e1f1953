--------------------------- MODULE HgsPunctuality ---------------------------
(***************************************************************************)
(* HGS provisioning, and what becomes of an offer.  The portal withdraws   *)
(* it when it has expired, after half an hour or a day at most; the service*)
(* of the node begins a cycle every fifteen seconds.  This module adds the *)
(* knowledge of which Agents have had a chance to take what they were      *)
(* offered: a whole cycle that nothing interrupted.                        *)
(***************************************************************************)
EXTENDS HgsProvisioning

VARIABLE chance  \* per node, of the cycle it has had since its jobs changed or
                 \* something interrupted it: "none", "begun" with its poll, "had"

punctualVars == <<vars, chance>>

\* The worker polls; it sleeps again.  A restart of the host ends its cycle.
Passed(n) ==
  IF \/ \E j \in Jobs : NodeOf(j) = n /\ job'[j] # job[j]
     \/ host'[n].boot # host[n].boot
  THEN "none"
  ELSE IF chance[n] = "none" /\ pc[n] # "polling" /\ pc'[n] = "polling" THEN "begun"
  ELSE IF chance[n] = "begun" /\ pc'[n] = "idle" THEN "had"
  ELSE chance[n]

\* A cycle with a lost exchange, a stop of the service or an update of the Agent
\* is no chance.
PunctualInit == Init /\ chance = [n \in Nodes |-> "none"]
PunctualNext ==
  \/ Calm /\ chance' = [n \in Nodes |-> Passed(n)]
  \/ Interruption /\ chance' = [n \in Nodes |-> "none"]
PunctualSpec == PunctualInit /\ [][PunctualNext]_punctualVars

-----------------------------------------------------------------------------
\* An offer does not outlast a whole undisturbed cycle of an Agent that has
\* nothing to reconcile: it is claimed, reported or withdrawn, whatever the
\* cycles before left on the Agent's disk - a prepared or claiming journal, a
\* receipt, a fence - but for a journal whose replacement was interrupted.
OffersTaken ==
  \A j \in Jobs :
    /\ job[j].status = "offered"
    /\ chance[NodeOf(j)] = "had"
    /\ j \in Inspections \/ OpenFence(NodeOf(j)) = NoJob
    => NodeOf(j) \in torn

=============================================================================
