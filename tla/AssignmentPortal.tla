-------------------------- MODULE AssignmentPortal --------------------------
(***************************************************************************)
(* The control plane's half of the jobs an Agent is assigned in the answer *)
(* to its inventory and telemetry: power actions on virtual machines        *)
(* (agent_pki/hyperv_actions.py) and the Agent's own update and removal     *)
(* (agent_pki/lifecycle.py), and what tenancy/operations.py withdraws.      *)
(* One Tenant and one Agent enrollment.                                     *)
(*                                                                         *)
(* Handlers run in transactions that lock the Tenant row or the job's row,  *)
(* so each is one atomic action.  What they ask of other parts (the state   *)
(* of the machine, reported versions, management, HGS and GPO jobs) may     *)
(* make them refuse at any time.                                            *)
(***************************************************************************)
EXTENDS Integers, Sequences, FiniteSets

CONSTANTS
  Jobs,           \* power actions and lifecycle jobs
  NoJob,          \* no job
  Updates,        \* lifecycle jobs with action "update"
  Uninstalls,     \* lifecycle jobs with action "uninstall"
  VMs,            \* virtual machines of the host
  Target,         \* Target[j]: the machine a power action is about
  Actors,         \* portal users
  Requester       \* Requester[j]: requested_by

ASSUME AssignmentAssumption ==
  /\ NoJob \notin Jobs
  /\ Updates \subseteq Jobs
  /\ Uninstalls \subseteq Jobs \ Updates
  /\ Target \in [Jobs -> VMs]
  /\ Requester \in [Jobs -> Actors]

VARIABLES
  job,            \* HyperVVirtualMachineActionJob and AgentLifecycleJob rows
  created,        \* the rows in creation order
  tenantActive,   \* Tenant.status = ACTIVE
  permitted,      \* who now holds which permission
  request,        \* the exchange the Agent's main thread waits on
  reply,          \* its answer
  late            \* abandoned requests the gateway may still process

authorityVars == <<tenantActive, permitted>>
portalVars == <<job, created, authorityVars>>
linkVars == <<request, reply, late>>

-----------------------------------------------------------------------------
(* Data. *)

Lifecycle == Updates \cup Uninstalls
VMActions == Jobs \ Lifecycle
Permissions == {"virtual_machines.operate", "agents.manage"}
PermissionFor(j) ==
  IF j \in VMActions THEN "virtual_machines.operate" ELSE "agents.manage"

OfferableStatuses == {"queued", "delivered"}
ActiveStatuses == OfferableStatuses \cup {"running"}
Finals == {"succeeded", "failed"}
Statuses == {"absent", "cancelled"} \cup ActiveStatuses \cup Finals
Rows == [status : Statuses, revoked : BOOLEAN]   \* authority_revoked_at
NoRow == [status |-> "absent", revoked |-> FALSE]

Results == {"running"} \cup Finals
Requests ==
  [action : {"cycle"}, job : {NoJob}, result : {"none"}]
    \cup [action : {"artifact"}, job : Updates, result : {"none"}]
    \cup [action : {"result"}, job : Jobs, result : Results]
Message(action, j, result) == [action |-> action, job |-> j, result |-> result]
NoRequest == Message("none", NoJob, "none")

Document(type, j) == [type |-> type, job |-> j]
NoReply == Document("none", NoJob)
NoAssignment == Document("assignment", NoJob)
Accepted == Document("accepted", NoJob)
Rejected == Document("rejected", NoJob)
Replies ==
  {NoReply, NoAssignment, Accepted, Rejected}
    \cup [type : {"assignment", "binary"}, job : Jobs]

-----------------------------------------------------------------------------
(* Queries. *)

Active(j) == job[j].status \in ActiveStatuses

\* queued_actor_allowed
Allowed(j) ==
  tenantActive /\ <<Requester[j], PermissionFor(j)>> \in permitted

\* Defect: the revocation of what was delivered is not looked at.
OfferableThoughRevoked(j) == job[j].status \in OfferableStatuses
Offerable(j) == job[j].status \in OfferableStatuses /\ ~job[j].revoked

\* order_by("created_at").first()
FirstOfferable(set) ==
  {j \in set :
     /\ Offerable(j)
     /\ \E i \in DOMAIN created :
          /\ created[i] = j
          /\ \A k \in 1 .. i - 1 : created[k] \in set => ~Offerable(created[k])}

-----------------------------------------------------------------------------
(* Requests of portal users, and the withdrawal of their authority. *)

Queue(j) ==
  /\ Allowed(j)
  /\ job[j].status = "absent"
  /\ job' = [job EXCEPT ![j].status = "queued"]
  /\ created' = Append(created, j)
  /\ UNCHANGED <<authorityVars, linkVars>>

CreateHyperVActionJob(j) ==
  /\ j \in VMActions
  /\ \A k \in VMActions : Target[k] = Target[j] => ~Active(k)
  /\ Queue(j)

CreateLifecycleJob(j) ==
  /\ j \in Lifecycle
  /\ \A k \in Lifecycle : ~Active(k)
  /\ Queue(j)

\* withdraw_agent_job: what was delivered may still settle.
Withdrawn(row) ==
  [row EXCEPT !.revoked = TRUE,
              !.status = IF @ = "queued" THEN "cancelled" ELSE @]

Withdraw(set) ==
  [j \in Jobs |-> IF j \in set /\ Active(j) /\ ~job[j].revoked
                  THEN Withdrawn(job[j]) ELSE job[j]]

SuspendTenant ==
  /\ tenantActive
  /\ tenantActive' = FALSE
  /\ job' = Withdraw(Jobs)
  /\ UNCHANGED <<created, permitted, linkVars>>

ReactivateTenant ==
  /\ ~tenantActive
  /\ tenantActive' = TRUE
  /\ UNCHANGED <<job, created, permitted, linkVars>>

\* A renamed user or a new password.
WithdrawIdentityOperations(a) ==
  /\ job' = Withdraw({j \in Jobs : Requester[j] = a})
  /\ UNCHANGED <<created, authorityVars, linkVars>>

ChangeMembership(a, p) ==
  /\ permitted' = IF <<a, p>> \in permitted THEN permitted \ {<<a, p>>}
                  ELSE permitted \cup {<<a, p>>}
  /\ UNCHANGED <<job, created, tenantActive, linkVars>>

-----------------------------------------------------------------------------
(* What reaches the gateway: the request the Agent waits on (live), or one *)
(* whose sender gave up.                                                   *)

Arrives(m, live) ==
  IF live THEN m = request /\ reply = NoReply ELSE m \in late

Answer(m, live, document) ==
  /\ IF live THEN reply' = document /\ UNCHANGED late
             ELSE late' \in {late, late \ {m}} /\ UNCHANGED reply
  /\ UNCHANGED <<request, created, authorityVars>>

Deliver(rows, j) == [rows EXCEPT ![j].status = "delivered"]

OfferLifecycleJob(m, live) ==
  \E j \in FirstOfferable(Lifecycle) :
     /\ Allowed(j)
     /\ job' = Deliver(job, j)
     /\ Answer(m, live, Document("assignment", j))

\* Defect: without authority nothing is offered, and nothing withdrawn.
NobodyUnauthorized(set) == {}

\* The job that would be offered, when its requester lost the authority.
Unauthorized(set) == {j \in FirstOfferable(set) : ~Allowed(j)}

\* No lifecycle job is offered: there is none, a GPO job forbids maintenance
\* and keeps it as it is, or it is withdrawn.  Then a power action is.
OfferHyperVActionJob(m, live) ==
  \E withdrawn \in {{}, Unauthorized(Lifecycle)} :
     \/ \E j \in FirstOfferable(VMActions) :
          /\ Allowed(j)
          /\ job' = Deliver(Withdraw(withdrawn), j)
          /\ Answer(m, live, Document("assignment", j))
     \/ /\ \A j \in FirstOfferable(VMActions) : ~Allowed(j)
        /\ job' = Withdraw(withdrawn \cup Unauthorized(VMActions))
        /\ Answer(m, live, NoAssignment)

\* Inventory or telemetry.  The gateway refuses it when the Tenant is
\* suspended, unless the suspension commits after it looked.
AnswerCycle(m, live) ==
  /\ Arrives(m, live)
  /\ m.action = "cycle"
  /\ \/ OfferLifecycleJob(m, live)
     \/ OfferHyperVActionJob(m, live)
     \/ ~tenantActive /\ Answer(m, live, Rejected) /\ UNCHANGED job

\* lifecycle_artifact changes nothing, even where it withdraws a job: the
\* exception it then raises rolls the withdrawal back.  (Late requests for an
\* artifact are not kept: they have no effect.)
LifecycleArtifact(m, live) ==
  LET j == m.job IN
  /\ Arrives(m, live)
  /\ m.action = "artifact"
  /\ \/ /\ Allowed(j)
        /\ ~job[j].revoked
        /\ job[j].status \in {"delivered", "running"}
        /\ Answer(m, live, Document("binary", j))
     \/ Answer(m, live, Rejected)   \* unavailable, or changed since
  /\ UNCHANGED job

\* Defect: a withdrawn job can no longer settle.
TakesWhileAuthorized(row, result) ==
  /\ ~row.revoked
  /\ IF result = "running" THEN row.status = "delivered"
                           ELSE row.status = "running"

\* running follows delivered, an outcome follows running; who withdrew the
\* authority meanwhile does not matter.
Takes(row, result) ==
  IF result = "running" THEN row.status = "delivered"
                        ELSE row.status = "running"

RecordResult(m, live) ==
  \/ /\ Takes(job[m.job], m.result)
     /\ job' = [job EXCEPT ![m.job].status = m.result]
     /\ Answer(m, live, Accepted)
  \/ /\ ~Takes(job[m.job], m.result)
     /\ Answer(m, live, Rejected)
     /\ UNCHANGED job

RecordHyperVActionResult(m, live) ==
  /\ Arrives(m, live)
  /\ m.action = "result"
  /\ m.job \in VMActions
  /\ RecordResult(m, live)

\* A GPO job may forbid maintenance between the offer and its acceptance.
RecordLifecycleResult(m, live) ==
  /\ Arrives(m, live)
  /\ m.action = "result"
  /\ m.job \in Lifecycle
  /\ \/ RecordResult(m, live)
     \/ m.result = "running" /\ Answer(m, live, Rejected) /\ UNCHANGED job

=============================================================================
