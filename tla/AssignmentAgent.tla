-------------------------- MODULE AssignmentAgent --------------------------
(***************************************************************************)
(* The main thread of the Windows Agent's service (windows_service.cpp):   *)
(* its inventory and telemetry cycles, which report stored results, fetch  *)
(* assignments and carry them out (windows_transport.cpp).  A power action *)
(* is executed here (hyperv_pack.cpp); for an update or a removal a fixed  *)
(* updater is launched, a process of its own (AgentUpdater).               *)
(*                                                                         *)
(* What survives the service is on disk: two result files, the binary and  *)
(* its registration.                                                       *)
(***************************************************************************)
EXTENDS AssignmentPortal

CONSTANTS
  Version,        \* Version[j]: target_version of update j
  FirstVersion,   \* the version installed at the start
  LateBound       \* how many abandoned requests may be on their way

ASSUME VersionAssumption ==
  /\ FirstVersion \in Nat \ {0}
  /\ Version \in [Updates -> Nat \ {0}]
ASSUME LateAssumption == LateBound \in Nat

VARIABLES
  service,          \* what the Service Control Manager shows
  pc,               \* where the main thread is in its cycle
  work,             \* the assignment it holds, and its outcome once known
  pendingLifecycle, \* lifecycle-result.json
  pendingAction,    \* hyperv-action-result.json
  transition,       \* lifecycle_transition_started, of this process
  ran,              \* how often a job was carried out: calls or launches
  updater,          \* where each lifecycle job's updater process is
  version,          \* version of the installed ipms-agent.exe
  registered,       \* DisplayVersion; 0 when the Agent is not registered
  backup,           \* version of ipms-agent.exe.rollback; 0 for none
  source            \* source_version of an update's process

cycleVars == <<pc, work, pendingLifecycle, pendingAction, transition>>
installVars == <<version, registered, backup, source>>
agentVars == <<service, cycleVars, ran, updater, installVars>>

-----------------------------------------------------------------------------
(* Data. *)

File(j, result) == [job |-> j, result |-> result]
NoFile == File(NoJob, "none")
Files == [job : Jobs, result : Finals] \cup {NoFile}
Works == [job : Jobs, result : {"none"} \cup Finals] \cup {NoFile}

ServiceStates == {"stopped", "starting", "running", "stopping"}
Reporting == {"reporting lifecycle", "reporting action"}
Exchanging == Reporting \cup {"cycling", "downloading", "accepting"}
Places == {"idle", "executing", "confirming", "finishing"} \cup Exchanging

\* A process executes the installed binary.
Process == service # "stopped"

-----------------------------------------------------------------------------
(* Exchanges. *)

Send(action, j, result) ==
  /\ request' = Message(action, j, result)
  /\ reply' = NoReply
  /\ UNCHANGED late

HangUp == request' = NoRequest /\ reply' = NoReply /\ UNCHANGED late

\* The answer never arrives; the request may, and may be processed later.
Abandoned ==
  IF /\ request.action \in {"cycle", "result"}
     /\ reply = NoReply
     /\ Cardinality(late) < LateBound
  THEN late \cup {request} ELSE late
GiveUp ==
  /\ request' = NoRequest
  /\ reply' = NoReply
  /\ late' = Abandoned

EndCycle == pc' = "idle" /\ work' = NoFile

-----------------------------------------------------------------------------
(* A cycle: first the stored results, then inventory or telemetry. *)

SendCycle == Send("cycle", NoJob, "none") /\ pc' = "cycling"

SendPendingAction ==
  IF pendingAction # NoFile
  THEN Send("result", pendingAction.job, pendingAction.result)
       /\ pc' = "reporting action"
  ELSE SendCycle

BeginCycle ==
  /\ service = "running"
  /\ pc = "idle"
  /\ IF pendingLifecycle # NoFile
     THEN Send("result", pendingLifecycle.job, pendingLifecycle.result)
          /\ pc' = "reporting lifecycle"
     ELSE SendPendingAction
  /\ UNCHANGED <<portalVars, service, work, pendingLifecycle, pendingAction,
                 transition, ran, updater, installVars>>

\* report_pending_result: an error in removing the file is ignored.
LifecycleReported ==
  /\ pc = "reporting lifecycle"
  /\ reply = Accepted
  /\ pendingLifecycle' \in {NoFile, pendingLifecycle}
  /\ SendPendingAction
  /\ UNCHANGED <<portalVars, service, work, pendingAction, transition, ran,
                 updater, installVars>>

ActionReported ==
  /\ pc = "reporting action"
  /\ reply = Accepted
  /\ pendingAction' \in {NoFile, pendingAction}
  /\ SendCycle
  /\ UNCHANGED <<portalVars, service, work, pendingLifecycle, transition, ran,
                 updater, installVars>>

-----------------------------------------------------------------------------
(* Assignments. *)

Assigned(set) == pc = "cycling" /\ reply.type = "assignment" /\ reply.job \in set

ReceiveNothing ==
  /\ Assigned({NoJob})
  /\ HangUp
  /\ EndCycle
  /\ UNCHANGED <<portalVars, service, pendingLifecycle, pendingAction,
                 transition, ran, updater, installVars>>

Monotonic(j) == j \in Updates => Version[j] > version

\* A maintenance or an HGS operation is under way on this host, or the update
\* is none: the exception ends the cycle, and the job stays delivered.
PassOverLifecycle ==
  /\ Assigned(Lifecycle)
  /\ HangUp
  /\ EndCycle
  /\ UNCHANGED <<portalVars, service, pendingLifecycle, pendingAction,
                 transition, ran, updater, installVars>>

AcceptLifecycle ==
  LET j == reply.job IN
  /\ Assigned(Lifecycle)
  /\ ~transition
  /\ Monotonic(j)
  /\ work' = File(j, "none")
  /\ IF j \in Updates
     THEN Send("artifact", j, "none") /\ pc' = "downloading"
     ELSE Send("result", j, "running") /\ pc' = "accepting"
  /\ UNCHANGED <<portalVars, service, pendingLifecycle, pendingAction,
                 transition, ran, updater, installVars>>

ReceiveBinary ==
  /\ pc = "downloading"
  /\ reply.type = "binary"
  /\ Send("result", work.job, "running")
  /\ pc' = "accepting"
  /\ UNCHANGED <<portalVars, service, work, pendingLifecycle, pendingAction,
                 transition, ran, updater, installVars>>

Launch(j) ==
  /\ transition' = TRUE
  /\ ran' = [ran EXCEPT ![j] = @ + 1]
  /\ updater' = [updater EXCEPT ![j] = "launched"]

\* A launch that fails takes the flag back; the job stays running.
LaunchUpdater ==
  /\ pc = "accepting"
  /\ reply = Accepted
  /\ work.job \in Lifecycle
  /\ Launch(work.job) \/ UNCHANGED <<transition, ran, updater>>
  /\ HangUp
  /\ EndCycle
  /\ UNCHANGED <<portalVars, service, pendingLifecycle, pendingAction,
                 installVars>>

\* Defect: the action is carried out before its acceptance is known.
AcceptActionBlindly ==
  /\ Assigned(VMActions)
  /\ work' = File(reply.job, "none")
  /\ HangUp
  /\ pc' = "executing"
  /\ UNCHANGED <<portalVars, service, pendingLifecycle, pendingAction,
                 transition, ran, updater, installVars>>

AcceptAction ==
  /\ Assigned(VMActions)
  /\ work' = File(reply.job, "none")
  /\ Send("result", reply.job, "running")
  /\ pc' = "accepting"
  /\ UNCHANGED <<portalVars, service, pendingLifecycle, pendingAction,
                 transition, ran, updater, installVars>>

ActionAccepted ==
  /\ pc = "accepting"
  /\ reply = Accepted
  /\ work.job \in VMActions
  /\ HangUp
  /\ pc' = "executing"
  /\ UNCHANGED <<portalVars, service, work, pendingLifecycle, pendingAction,
                 transition, ran, updater, installVars>>

\* ExecMethod, unless the machine is there already or may not go there.
ExecuteAction ==
  /\ pc = "executing"
  /\ ran' \in {ran, [ran EXCEPT ![work.job] = @ + 1]}
  /\ pc' = "confirming"
  /\ UNCHANGED <<portalVars, linkVars, service, work, pendingLifecycle,
                 pendingAction, transition, updater, installVars>>

\* wait_for_virtual_machine_state takes up to three minutes.
ConfirmAction ==
  /\ pc = "confirming"
  /\ \E result \in Finals :
       /\ work' = File(work.job, result)
       /\ Send("result", work.job, result)
  /\ pc' = "finishing"
  /\ UNCHANGED <<portalVars, service, pendingLifecycle, pendingAction,
                 transition, ran, updater, installVars>>

ActionFinished ==
  /\ pc = "finishing"
  /\ reply = Accepted
  /\ HangUp
  /\ EndCycle
  /\ UNCHANGED <<portalVars, service, pendingLifecycle, pendingAction,
                 transition, ran, updater, installVars>>

-----------------------------------------------------------------------------
(* What goes wrong with an exchange. *)

\* Defect: the outcome that could not be returned is taken for a failure.
StoreFailure == pendingAction' \in {File(work.job, "failed"), pendingAction}

\* An outcome that cannot be returned is stored, if the disk lets it.
StoreOutcome == pendingAction' \in {work, pendingAction}

ExchangeRefused ==
  /\ reply = Rejected
  /\ IF pc = "finishing" THEN StoreOutcome ELSE UNCHANGED pendingAction
  /\ HangUp
  /\ EndCycle
  /\ UNCHANGED <<portalVars, service, pendingLifecycle, transition, ran,
                 updater, installVars>>

ExchangeLost ==
  /\ pc \in Exchanging \cup {"finishing"}
  /\ IF pc = "finishing" THEN StoreOutcome ELSE UNCHANGED pendingAction
  /\ GiveUp
  /\ EndCycle
  /\ UNCHANGED <<portalVars, service, pendingLifecycle, transition, ran,
                 updater, installVars>>

-----------------------------------------------------------------------------
(* The service. *)

\* service_main reports running first of all; a new process has a new flag.
ServiceRuns ==
  /\ service = "starting"
  /\ service' = "running"
  /\ UNCHANGED <<portalVars, linkVars, cycleVars, ran, updater, installVars>>

\* The stop event is looked at between two cycles.
ServiceStops ==
  /\ service = "stopping"
  /\ pc = "idle"
  /\ service' = "stopped"
  /\ transition' = FALSE
  /\ UNCHANGED <<portalVars, linkVars, pc, work, pendingLifecycle,
                 pendingAction, ran, updater, installVars>>

\* The process ends with everything it holds in memory.
ProcessEnds == GiveUp /\ EndCycle /\ transition' = FALSE

\* No recovery action is registered: the service stays down.
ServiceCrashes ==
  /\ service # "stopped"
  /\ service' = "stopped"
  /\ ProcessEnds
  /\ UNCHANGED <<portalVars, pendingLifecycle, pendingAction, ran, updater,
                 installVars>>

=============================================================================
