-------------------------- MODULE AgentAssignments --------------------------
(***************************************************************************)
(* Power actions, updates and removals from the portal (AssignmentPortal)  *)
(* over the link to the Agent's service (AssignmentAgent) and its updater  *)
(* (AgentUpdater).                                                         *)
(***************************************************************************)
EXTENDS AgentUpdater

vars == <<portalVars, linkVars, agentVars>>

Init ==
  /\ job = [j \in Jobs |-> NoRow]
  /\ created = <<>>
  /\ tenantActive = TRUE
  /\ permitted = Actors \X Permissions
  /\ request = NoRequest
  /\ reply = NoReply
  /\ late = {}
  /\ service = "running"
  /\ pc = "idle"
  /\ work = NoFile
  /\ pendingLifecycle = NoFile
  /\ pendingAction = NoFile
  /\ transition = FALSE
  /\ ran = [j \in Jobs |-> 0]
  /\ updater = [j \in Jobs |-> "none"]
  /\ version = FirstVersion
  /\ registered = FirstVersion
  /\ backup = 0
  /\ source = [j \in Updates |-> 0]

User ==
  \/ \E j \in Jobs : CreateHyperVActionJob(j) \/ CreateLifecycleJob(j)
  \/ \E a \in Actors : WithdrawIdentityOperations(a)
  \/ \E a \in Actors, p \in {PermissionFor(j) : j \in Jobs} :
       ChangeMembership(a, p)
  \/ SuspendTenant
  \/ ReactivateTenant

Gateway(m, live) ==
  \/ AnswerCycle(m, live)
  \/ LifecycleArtifact(m, live)
  \/ RecordHyperVActionResult(m, live)
  \/ RecordLifecycleResult(m, live)

\* The main thread, as long as its exchanges come to an end.
Agent ==
  \/ BeginCycle
  \/ LifecycleReported
  \/ ActionReported
  \/ ReceiveNothing
  \/ PassOverLifecycle
  \/ AcceptLifecycle
  \/ ReceiveBinary
  \/ LaunchUpdater
  \/ AcceptAction
  \/ ActionAccepted
  \/ ExecuteAction
  \/ ConfirmAction
  \/ ActionFinished
  \/ ExchangeRefused
  \/ ServiceRuns
  \/ ServiceStops

Updater(j) ==
  \/ CheckUpdate(j)
  \/ CheckFails(j)
  \/ StopService(j)
  \/ SeeStopped(j)
  \/ StopRefused(j)
  \/ StopTimesOut(j)
  \/ ReplaceBinary(j)
  \/ SetDisplayVersion(j)
  \/ RecordSuccess(j)
  \/ StartService(j)
  \/ SeeRunning(j)
  \/ UpdateFails(j)
  \/ RestoreBinary(j)
  \/ ResetDisplayVersion(j)
  \/ RecordFailure(j)
  \/ RestartService(j)
  \/ RestartFails(j)
  \/ RemoveRegistration(j)
  \/ ReportUninstalled(j)
  \/ ReportUninstalledFails(j)
  \/ RemoveFails(j)

\* What happens while no process is killed.
Steady ==
  \/ User /\ UNCHANGED agentVars
  \/ Gateway(request, TRUE) /\ UNCHANGED agentVars
  \/ \E m \in late : Gateway(m, FALSE) /\ UNCHANGED agentVars
  \/ Agent
  \/ ExchangeLost
  \/ \E j \in Lifecycle : Updater(j)

Next ==
  \/ Steady
  \/ ServiceCrashes
  \/ HostRestarts

Spec == Init /\ [][Next]_vars

TypeOK ==
  /\ job \in [Jobs -> Rows]
  /\ created \in Seq(Jobs)
  /\ tenantActive \in BOOLEAN
  /\ permitted \subseteq Actors \X Permissions
  /\ request \in Requests \cup {NoRequest}
  /\ reply \in Replies
  /\ late \subseteq Requests
  /\ service \in ServiceStates
  /\ pc \in Places
  /\ work \in Works
  /\ pendingLifecycle \in Files
  /\ pendingAction \in Files
  /\ transition \in BOOLEAN
  /\ ran \in [Jobs -> Nat]
  /\ updater \in [Jobs -> UpdaterStates]
  /\ version \in Nat \ {0}
  /\ registered \in Nat
  /\ backup \in Nat
  /\ source \in [Updates -> Nat]

-----------------------------------------------------------------------------
(* Safety. *)

\* The same promises as those of the management channel, by other means: no
\* job is carried out twice or without the portal's knowledge, whatever is
\* lost or restarted, though there is no journal; running work is recalled by
\* nobody, and what was cancelled was never carried out.
StageOf(status) ==
  CASE status = "absent" -> "absent"
    [] status \in OfferableStatuses -> "waiting"
    [] status = "running" -> "granted"
    [] status \in Finals -> "settled"
    [] status = "cancelled" -> "withdrawn"

Promise == INSTANCE ManagedOperation
             WITH stage <- [j \in Jobs |-> StageOf(job[j].status)],
                  executed <- ran

ImplementsManagedOperation == Promise!Spec

\* "The durable marker prevents another offer" (withdraw_identity_operations):
\* once authority_revoked_at is set, the Agent gets hold of the job no more,
\* though a delivered job is still accepted when the Agent held it then.
InHand(j) ==
  work.job = j \/ (reply.type = "assignment" /\ reply.job = j)

NotOfferedAfterWithdrawal ==
  [][\A j \in Jobs : job[j].revoked /\ ~InHand(j) => ~InHand(j)']_vars

\* From its checks until it is done or has rolled back, an update can restore
\* the very binary it replaces, however many updates were killed halfway.
RollbackPossible ==
  \A j \in Updates :
     /\ updater[j] \in {"checked", "stopping", "stopped"} => backup = version
     /\ updater[j] \in {"replaced", "registered", "recorded", "starting",
                        "rolling back"} => backup \notin {0, Version[j]}

\* ADR-0006, step 6: "The restarted Agent reports success.  A failed
\* replacement restores and restarts the previous binary before reporting
\* failure" - so an update the portal shows as succeeded is installed.
SuccessIsInstalled ==
  \A j \in Updates : job[j].status = "succeeded" => version >= Version[j]

\* The outcome stored on the host is the one the portal has or will take: a
\* late answer and the stored file never tell two stories about one action.
StoredOutcomeConsistent ==
  pendingAction # NoFile =>
    job[pendingAction.job].status \in {"running", pendingAction.result}

-----------------------------------------------------------------------------
(* Liveness.  The main thread runs its loop, the gateway answers what the   *)
(* Agent waits for, updaters and the Service Control Manager proceed.       *)
(* Exchanges and processes may fail, but not for ever.                      *)

Fairness ==
  /\ WF_vars(Agent)
  /\ WF_vars(Gateway(request, TRUE) /\ UNCHANGED agentVars)
  /\ \A j \in Lifecycle : WF_vars(Updater(j))
  /\ <>[][Steady /\ (ExchangeLost => Agent)]_vars

FairSpec == Spec /\ Fairness

ServiceReturns == []<>(service = "running")

\* What was carried out and stored is settled in the end, though the Tenant
\* may be suspended and the requester's authority withdrawn for good.
StoredOutcomesSettle ==
  ServiceReturns =>
    \A j \in VMActions :
       pendingAction.job = j ~> \/ job[j].status \in Finals
                                \/ pendingLifecycle # NoFile

\* A power action does not stay in the queue: it is delivered or withdrawn,
\* unless a lifecycle job goes first or a stored result holds the Agent up.
QueuedActionsMove ==
  ServiceReturns =>
    \A j \in VMActions :
       job[j].status = "queued" ~>
         \/ job[j].status # "queued"
         \/ \E k \in Lifecycle : job[k].status = "delivered"
         \/ pendingAction # NoFile \/ pendingLifecycle # NoFile

\* ADR-0008: "A terminal result that cannot be returned immediately is stored
\* locally and retried through the next authenticated Agent cycle" - so that
\* sooner or later it is returned.
StoredOutcomesReturned ==
  ServiceReturns => (pendingAction # NoFile ~> pendingAction = NoFile)

=============================================================================
