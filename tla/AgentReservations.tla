------------------------- MODULE AgentReservations -------------------------
(***************************************************************************)
(* The kinds of work that reserve one managed host, composed: management   *)
(* jobs, power actions, lifecycle jobs, deployments over WinRM, GPO jobs   *)
(* and HGS plans.  There is no lock between them beyond a transaction: a   *)
(* row in an active status is the reservation, and every handler looks at  *)
(* the rows of the others when it creates, offers, claims or executes.     *)
(*                                                                         *)
(* Of a kind this module keeps the status of its active row; "absent" is   *)
(* none, an ended row makes room for the next.  Management jobs and power  *)
(* actions are those of one virtual machine.  The kinds themselves are in  *)
(* HyperVManagement, AgentAssignments, GpoJobs and HgsProvisioning; the    *)
(* deployment and its worker (apps/agent_pki/deployment.py) are here.      *)
(* Handlers lock the Tenant row: each is one atomic action.  The end of a  *)
(* deployment takes no lock and no transaction: its statements are steps.  *)
(***************************************************************************)
EXTENDS Integers, FiniteSets

VARIABLES
  purpose,    \* Tenant.purpose, immutable
  authority,  \* the Tenant is active and the requester has the permission
  row,        \* per kind, the status of its active row
  revoked,    \* kinds whose active row has authority_revoked_at
  removal,    \* the lifecycle job removes the Agent
  secret,     \* the deployments whose encrypted credentials are stored
  worker      \* where process_deployment stands

vars == <<purpose, authority, row, revoked, removal, secret, worker>>

Statuses ==
  [management |-> {"queued", "delivered", "running", "requires_reconciliation"},
   action |-> {"queued", "delivered", "running"},
   lifecycle |-> {"queued", "delivered", "running"},
   deployment |-> {"queued", "running"},
   \* unclaimed before and after it expires, claimed, to be reconciled
   \* without and with the Agent's terminal report
   gpo |-> {"waiting", "lapsed", "running", "unresolved", "reported"},
   \* "reserved": the plan runs, on another node
   hgs |-> {"inspecting", "reserved", "queued", "offered", "running",
            "waiting", "unresolved"}]
Kinds == DOMAIN Statuses

\* The active deployment, the one whose row its worker has just ended, and one
\* whose worker got no further than that.
Deployments == {"active", "ending", "left"}

-----------------------------------------------------------------------------
(* What the handlers of a kind see of the others.                          *)

\* Defect: only work the Agent has begun reserves the host.
BegunOnly(k) ==
  row[k] \notin {"absent", "queued", "delivered", "offered", "waiting",
                 "lapsed"}

\* active_management_jobs, ACTIVE_STATUSES, pending_agent_deployments,
\* active_gpo_jobs, the plans' statuses
Reserved(k) == row[k] # "absent" /\ row[k] # "lapsed"
Free(kinds) == \A k \in kinds : ~Reserved(k)

\* _check_conflicts, but for the job itself
NoConflict == Free({"deployment", "lifecycle", "action"})

\* _gpo_maintenance_allowed: a forward update may cross a fence the Agent
\* has reported as terminal; whether this one is, is a choice of the caller.
GpoAllowsMaintenance(remove) ==
  \/ ~Reserved("gpo")
  \/ row["gpo"] = "reported" /\ ~remove

\* _ready, maintenance_pending
GpoReady == authority /\ Free({"lifecycle", "deployment"})

\* _guard_deployment_management
DeploymentGuard == authority /\ Free({"management", "gpo", "hgs"})

Become(k, status) ==
  /\ row' = [row EXCEPT ![k] = status]
  /\ revoked' = IF status = "absent" THEN revoked \ {k} ELSE revoked
Keep == UNCHANGED <<purpose, authority>>
KeepAll == Keep /\ UNCHANGED <<removal, secret, worker>>

-----------------------------------------------------------------------------
(* Management jobs (agent_pki/hyperv_management.py).                       *)

CreateManagementJob ==
  /\ purpose = "infrastructure" /\ authority
  /\ ~Reserved("management") /\ NoConflict
  /\ Become("management", "queued")
  /\ KeepAll

\* _execution_checks; the snapshot may be stale, the machine gone.
Executable == authority /\ "management" \notin revoked /\ NoConflict

OfferManagementJob ==
  /\ row["management"] \in {"queued", "delivered"}
  /\ \/ Executable /\ Become("management", "delivered")
     \/ Become("management", "absent")
  /\ KeepAll

ClaimManagementJob ==
  /\ row["management"] = "delivered"
  /\ \/ Executable /\ Become("management", "running")
     \/ Become("management", "absent")
  /\ KeepAll

RecordManagementResult ==
  /\ row["management"] \in {"running", "requires_reconciliation"}
  /\ \E status \in {"absent", "requires_reconciliation"} :
       Become("management", status)
  /\ KeepAll

-----------------------------------------------------------------------------
(* Power actions of the same machine (agent_pki/hyperv_actions.py).        *)

\* Defect: the management jobs of the machine are not looked at.
CreateActionBlindly ==
  /\ purpose = "infrastructure" /\ authority
  /\ ~Reserved("action")
  /\ Become("action", "queued")
  /\ KeepAll

CreateHyperVActionJob ==
  /\ purpose = "infrastructure" /\ authority
  /\ Free({"management", "action"})
  /\ Become("action", "queued")
  /\ KeepAll

\* withdraw_agent_job
WithdrawAgentJob(k) ==
  IF row[k] = "queued" THEN Become(k, "absent")
  ELSE revoked' = revoked \cup {k} /\ UNCHANGED row

OfferHyperVActionJob ==
  /\ row["action"] \in {"queued", "delivered"} /\ "action" \notin revoked
  /\ IF authority THEN Become("action", "delivered")
     ELSE WithdrawAgentJob("action")
  /\ KeepAll

RecordHyperVActionResult ==
  /\ \/ row["action"] = "delivered" /\ Become("action", "running")
     \/ row["action"] = "running" /\ Become("action", "absent")
  /\ KeepAll

-----------------------------------------------------------------------------
(* Lifecycle jobs (agent_pki/lifecycle.py).                                *)

CreateLifecycleJob ==
  /\ authority
  /\ Free({"hgs", "management", "lifecycle"})
  /\ \E remove \in BOOLEAN :
       /\ GpoAllowsMaintenance(remove)
       /\ removal' = remove
  /\ Become("lifecycle", "queued")
  /\ Keep /\ UNCHANGED <<secret, worker>>

\* Defect: an offer waits for whatever else reserves the host.
OfferWhenFree ==
  /\ row["lifecycle"] \in {"queued", "delivered"} /\ "lifecycle" \notin revoked
  /\ Free(Kinds \ {"lifecycle"})
  /\ IF authority THEN Become("lifecycle", "delivered")
     ELSE WithdrawAgentJob("lifecycle")
  /\ KeepAll

OfferLifecycleJob ==
  /\ row["lifecycle"] \in {"queued", "delivered"} /\ "lifecycle" \notin revoked
  /\ GpoAllowsMaintenance(removal)
  /\ IF authority THEN Become("lifecycle", "delivered")
     ELSE WithdrawAgentJob("lifecycle")
  /\ KeepAll

RecordLifecycleResult ==
  /\ \/ /\ row["lifecycle"] = "delivered" /\ GpoAllowsMaintenance(removal)
        /\ Become("lifecycle", "running")
     \/ row["lifecycle"] = "running" /\ Become("lifecycle", "absent")
  /\ KeepAll

-----------------------------------------------------------------------------
(* Deployments (agent_pki/views.py, deployment.py): a queue, a worker that *)
(* a timer starts, and scripts it executes on the host.  No lock is held   *)
(* across remote input and output.                                         *)

\* Of the other kinds only the bootstrap of an old Agent looks at one, the
\* lifecycle jobs; any other deployment is queued beside whatever there is.
QueueDeployment ==
  /\ authority /\ ~Reserved("deployment")
  /\ Become("deployment", "queued")
  /\ secret' = secret \cup {"active"}
  /\ Keep /\ UNCHANGED <<removal, worker>>

\* Defect: a deployment refused at its claim keeps its credentials.
ClaimKeepsSecret ==
  /\ row["deployment"] = "queued" /\ worker = "idle"
  /\ \/ /\ DeploymentGuard
        /\ Become("deployment", "running") /\ worker' = "claimed"
     \/ /\ ~DeploymentGuard
        /\ Become("deployment", "absent") /\ UNCHANGED worker
  /\ Keep /\ UNCHANGED <<removal, secret>>

\* _claim_next_deployment
ClaimNextDeployment ==
  /\ row["deployment"] = "queued" /\ worker = "idle"
  /\ \/ /\ DeploymentGuard
        /\ Become("deployment", "running") /\ worker' = "claimed"
        /\ UNCHANGED secret
     \/ /\ ~DeploymentGuard
        /\ Become("deployment", "absent") /\ secret' = secret \ {"active"}
        /\ UNCHANGED worker
  /\ Keep /\ UNCHANGED removal

\* The worker proceeds from one remote exchange to the next.
Proceed(from, to) ==
  /\ worker = from /\ worker' \in to
  /\ Keep /\ UNCHANGED <<row, revoked, removal, secret>>

\* process_deployment: credentials, package, preflight, connection; then the
\* host is assessed and the package copied; then the scripts that change it.
\* An update is guarded once more, an installation is not.
ConnectToHost == DeploymentGuard /\ Proceed("claimed", {"connected"})
AssessHost ==
  DeploymentGuard /\ Proceed("connected", {"updating", "installing"})
ExecuteScript ==
  \/ DeploymentGuard /\ Proceed("updating", {"executing"})
  \/ Proceed("installing", {"executing"})

\* Success, or a failure anywhere: the "finally" of process_deployment writes
\* the outcome first.
EndDeployment ==
  /\ worker \notin {"idle", "ended"}
  /\ worker' = "ended"
  /\ secret' = (secret \ {"active"}) \cup {"ending"}
  /\ Become("deployment", "absent")
  /\ Keep /\ UNCHANGED removal

\* Then, each statement committed by itself, tokens, enrollment, credentials.
DeleteSecret ==
  /\ worker = "ended" /\ worker' = "idle"
  /\ secret' = secret \ {"ending"}
  /\ Keep /\ UNCHANGED <<row, revoked, removal>>

\* The worker is killed, or the database fails it.  A row that was running
\* stays running and is not claimed again; after its end nobody deletes the
\* credentials.
WorkerDies ==
  /\ worker # "idle" /\ worker' = "idle"
  /\ secret' = IF worker = "ended" THEN (secret \ {"ending"}) \cup {"left"}
               ELSE secret
  /\ Keep /\ UNCHANGED <<row, revoked, removal>>

-----------------------------------------------------------------------------
(* GPO jobs of a controller (security/gpo_jobs.py).                        *)

QueueGpoJob ==
  /\ purpose = "infrastructure" /\ GpoReady
  /\ row["gpo"] \in {"absent", "lapsed"}
  /\ Become("gpo", "waiting")
  /\ KeepAll

\* expires_at passes before the job is claimed.
GpoJobLapses ==
  /\ row["gpo"] = "waiting"
  /\ Become("gpo", "lapsed")
  /\ KeepAll

\* gpo_exchange: what is not in scope any more is invalidated, what has
\* lapsed expires; approval may be missing.
ClaimGpoJob ==
  /\ row["gpo"] \in {"waiting", "lapsed"}
  /\ \/ row["gpo"] = "waiting" /\ GpoReady /\ Become("gpo", "running")
     \/ Become("gpo", "absent")
  /\ KeepAll

\* A report, an expiry after the claim, a repeated report.
SettleGpoJob ==
  /\ row["gpo"] \in {"running", "unresolved"}
  /\ \E status \in {"absent", "unresolved", "reported"} :
       /\ row["gpo"] = "unresolved" => status = "reported"
       /\ Become("gpo", status)
  /\ KeepAll

\* gpo_reconciliation
ReconcileGpoJob ==
  /\ row["gpo"] \in {"unresolved", "reported"} /\ GpoReady
  /\ Become("gpo", "absent")
  /\ KeepAll

-----------------------------------------------------------------------------
(* HGS plans with this host as a node (hgs/services.py).                   *)

\* fence: what the Agent has not claimed is cancelled.  A step of another
\* node or an inspection may have been claimed.
Fenced(status) ==
  IF status \in {"running", "waiting", "unresolved"} THEN {status}
  ELSE IF status \in {"inspecting", "reserved"} THEN {status, "absent"}
  ELSE {"absent"}

FencePlan ==
  \E status \in Fenced(row["hgs"]) :
    /\ row' = [row EXCEPT !["hgs"] = status]
    /\ revoked' = IF status = "absent" THEN revoked \ {"hgs"}
                  ELSE revoked \cup {"hgs"}

RequestInspection ==
  /\ purpose = "hgs" /\ authority
  /\ row["hgs"] = "absent"
  /\ Become("hgs", "inspecting")
  /\ KeepAll

InspectionEnds ==
  /\ row["hgs"] = "inspecting"
  /\ Become("hgs", "absent")
  /\ KeepAll

\* authorize; the first node may be another one.
Authorize ==
  /\ purpose = "hgs" /\ authority
  /\ row["hgs"] = "absent"
  /\ \E status \in {"queued", "reserved"} : Become("hgs", status)
  /\ KeepAll

\* hgs_exchange, poll and claim
OfferStep ==
  /\ row["hgs"] = "queued"
  /\ IF authority THEN Free({"lifecycle"}) /\ Become("hgs", "offered")
     ELSE FencePlan
  /\ KeepAll

ClaimStep ==
  /\ row["hgs"] \in {"queued", "offered"}
  /\ IF authority THEN Free({"lifecycle"}) /\ Become("hgs", "running")
     ELSE FencePlan
  /\ KeepAll

\* accept_result, after_result: failed or done, to be reconciled, a reboot
\* to wait for, the next step here or on another node.  What was offered may
\* be reported as not claimed.
StepReported ==
  /\ \/ /\ row["hgs"] \in {"running", "waiting"}
        /\ \E status \in {"absent", "unresolved", "waiting", "queued",
                         "reserved"} :
             /\ ("hgs" \in revoked \/ ~authority) =>
                  status \notin {"queued", "reserved"}
             /\ row' = [row EXCEPT !["hgs"] = status]
             /\ revoked' = IF status = "absent" THEN revoked \ {"hgs"}
                           ELSE IF authority THEN revoked
                           ELSE revoked \cup {"hgs"}
     \/ row["hgs"] = "offered" /\ Become("hgs", "absent")
  /\ KeepAll

\* The other nodes report, or find that the authority is gone.
PlanProceeds ==
  /\ \/ /\ row["hgs"] = "reserved"
        /\ \E status \in {"absent", "queued"} :
             /\ ("hgs" \in revoked \/ ~authority) => status = "absent"
             /\ Become("hgs", status)
     \/ row["hgs"] \in {"reserved", "inspecting"} /\ ~authority /\ FencePlan
  /\ KeepAll

ResolveStep ==
  /\ row["hgs"] = "unresolved" /\ authority
  /\ \E status \in {"absent", "queued", "reserved"} :
       row' = [row EXCEPT !["hgs"] = status]
  /\ revoked' = revoked \ {"hgs"}
  /\ KeepAll

-----------------------------------------------------------------------------
(* The Tenant and its users (tenancy/operations.py).                       *)

\* Defect: running deployments are failed like queued ones.
FailAllDeployments(k) ==
  IF k = "deployment" \/ row[k] = "queued" THEN "absent" ELSE row[k]

\* What the bulk updates make of power actions, lifecycle jobs, deployments.
Withdrawn(k) == IF row[k] = "queued" THEN "absent" ELSE row[k]

\* _withdraw of a management job, _invalidate of a GPO job
ManagementWithdrawn ==
  IF row["management"] \in {"queued", "delivered"} THEN "absent"
  ELSE row["management"]
GpoInvalidated ==
  IF row["gpo"] \in {"waiting", "lapsed"} THEN "absent"
  ELSE IF row["gpo"] = "running" THEN "unresolved" ELSE row["gpo"]

\* apply_tenant_status_change, withdraw_identity_operations
Withdraw ==
  /\ authority
  /\ \E plan \in Fenced(row["hgs"]) :
       row' = [k \in Kinds |->
                 CASE k = "management" -> ManagementWithdrawn
                   [] k = "gpo" -> GpoInvalidated
                   [] k = "hgs" -> plan
                   [] OTHER -> Withdrawn(k)]
  /\ revoked' = {k \in {"management", "action", "lifecycle", "hgs"} :
                    row'[k] # "absent"}
  /\ secret' = IF row'["deployment"] = "absent" THEN secret \ {"active"}
               ELSE secret
  /\ authority' \in BOOLEAN
  /\ UNCHANGED <<purpose, removal, worker>>

\* A membership changes, a Tenant is reactivated.
ChangeAuthority ==
  /\ authority' = ~authority
  /\ UNCHANGED <<purpose, row, revoked, removal, secret, worker>>

-----------------------------------------------------------------------------
Init ==
  /\ purpose \in {"infrastructure", "hgs"}
  /\ authority = TRUE
  /\ row = [k \in Kinds |-> "absent"]
  /\ revoked = {}
  /\ removal = FALSE
  /\ secret = {} /\ worker = "idle"

ManagementNext ==
  \/ CreateManagementJob \/ OfferManagementJob \/ ClaimManagementJob
  \/ RecordManagementResult
ActionNext ==
  \/ CreateHyperVActionJob \/ OfferHyperVActionJob \/ RecordHyperVActionResult
LifecycleNext ==
  \/ CreateLifecycleJob \/ OfferLifecycleJob \/ RecordLifecycleResult
DeploymentNext ==
  \/ QueueDeployment \/ ClaimNextDeployment \/ ConnectToHost \/ AssessHost
  \/ ExecuteScript \/ EndDeployment \/ DeleteSecret \/ WorkerDies
GpoNext ==
  \/ QueueGpoJob \/ GpoJobLapses \/ ClaimGpoJob \/ SettleGpoJob
  \/ ReconcileGpoJob
HgsNext ==
  \/ RequestInspection \/ InspectionEnds \/ Authorize \/ OfferStep
  \/ ClaimStep \/ StepReported \/ PlanProceeds \/ ResolveStep

Next ==
  \/ ManagementNext \/ ActionNext \/ LifecycleNext \/ DeploymentNext
  \/ GpoNext \/ HgsNext \/ Withdraw \/ ChangeAuthority

Spec == Init /\ [][Next]_vars

\* The Agent polls for every kind of work, the timer starts the worker every
\* ten seconds, and a worker that lives executes its last statements.  Nothing
\* is assumed of users, of execution and its reports, and a worker may die.
FairSpec ==
  /\ Spec
  /\ WF_vars(OfferManagementJob) /\ WF_vars(OfferHyperVActionJob)
  /\ WF_vars(OfferLifecycleJob) /\ WF_vars(ClaimNextDeployment)
  /\ WF_vars(DeleteSecret) /\ WF_vars(OfferStep)

-----------------------------------------------------------------------------
\* Rows are well formed, and a worker of deployments works for a running row:
\* withdrawal fails queued deployments, and leaves one that is worked on to
\* its worker, whose end would otherwise turn a failed row into a successful
\* one.
TypeOK ==
  /\ purpose \in {"infrastructure", "hgs"} /\ authority \in BOOLEAN
  /\ DOMAIN row = Kinds
  /\ \A k \in Kinds : row[k] \in Statuses[k] \cup {"absent"}
  /\ revoked \subseteq {k \in Kinds : row[k] # "absent"}
  /\ removal \in BOOLEAN /\ secret \subseteq Deployments
  /\ worker \in {"idle", "claimed", "connected", "updating", "installing",
                 "executing", "ended"}
  /\ worker \notin {"idle", "ended"} => row["deployment"] = "running"

\* Maintenance and work never hold one host together: while a lifecycle job
\* is with the Agent or a deployment is worked on, no management job has been
\* claimed and not settled, and no GPO job writes or waits for reconciliation
\* (but for the update that may cross a fence the Agent has reported); nor is
\* an HGS step carried out beside a lifecycle job.  Every check is of another
\* kind's row, made when a row is created, offered, claimed or executed.
MaintenanceExcludesWork ==
  LET managing == row["management"] \in {"running", "requires_reconciliation"}
      writing == row["gpo"] \in {"running", "unresolved"}
  IN  /\ row["lifecycle"] \in {"delivered", "running"} =>
           /\ ~managing /\ ~writing
           /\ row["gpo"] = "reported" => ~removal
           /\ row["hgs"] \notin {"running", "waiting"}
      /\ row["deployment"] = "running" =>
           ~managing /\ ~writing /\ row["gpo"] # "reported"

\* A power action and a management job of one machine never overlap once the
\* job is claimed: creation of either looks at the other, and the claim again.
VirtualMachineSerialized ==
  row["management"] \in {"running", "requires_reconciliation"} =>
    row["action"] = "absent"

\* The administrator's credentials are stored as long as the deployment they
\* were given for is active: its claim or a withdrawal deletes them in the
\* transaction that ends it, before the next deployment is queued, and its
\* worker before it takes another, unless it is killed on the way.
SecretsGoWithWork ==
  /\ "active" \in secret <=> row["deployment"] # "absent"
  /\ "ending" \in secret <=> worker = "ended"

\* ADR-0005, line 57: "The worker deletes the encrypted bootstrap credential
\* after the first attempt, whether the attempt succeeds or fails."  Once the
\* attempt is over and no worker is at it, no credentials are stored.
SecretsDestroyed ==
  worker = "idle" /\ row["deployment"] = "absent" => secret = {}

\* Nothing waits in a queue for ever because another kind of work holds the
\* host: every poll and every start of the worker offers what is queued or
\* ends it, but for an HGS step that waits for the Agent's maintenance.
QueuedWorkDecided ==
  /\ \A k \in {"management", "action", "lifecycle", "deployment"} :
       row[k] = "queued" ~> row[k] # "queued"
  /\ row["hgs"] = "queued" ~> row["hgs"] # "queued" \/ Reserved("lifecycle")

=============================================================================
