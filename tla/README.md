# A specification of IPMS: the work a portal assigns to its Agents

IPMS is a control plane (Django, `services/control-plane`), an Agent that runs
on managed hosts (C++, `agent`) and a web console (`apps/web-console`). The
portal queues privileged work, the Agent polls for it over mutual TLS and
executes it. The risk lies in between: the two sides share no transaction, the
link loses and delays messages, the Agent's service may stop at any
instruction, and an operation on a virtual machine, a directory or a host
guardian can neither be rolled back nor safely repeated.

This directory holds TLA+ models of that core, the TLC configurations that
check them and TLAPS proofs about them. `CP/` below stands for
`services/control-plane/src/ipms/apps/` and `AG/` for `agent/`.

    tlc -workers 2 -config MCWrites.cfg MCHyperVManagement.tla
    tlc -workers 2 -config MCPowerAction.cfg MCAgentAssignments.tla
    tlc -workers 2 -config MCHgs.cfg MCHgsProvisioning.tla
    tlc -workers 2 -config MCGpo.cfg MCGpoJobs.tla
    tlc -workers 2 -config MCReservations.cfg AgentReservations.tla
    tlc -workers 2 -config MCConsole.cfg ConsoleInput.tla
    tlapm HyperVManagementProofs.tla
    tlapm AgentAssignmentsProofs.tla
    tlapm GpoProofs.tla
    tlapm HgsProofs.tla
    tlapm AgentReservationsProofs.tla

## 1. Inventory

| Component | State | Operations | What is hard, and what makes it correct |
|---|---|---|---|
| **Hyper-V management jobs**, `CP/agent_pki/hyperv_management.py` | job rows (status, expected revision, started_at, revocation, result digest), snapshots of machines | create, withdraw, offer, lookup, claim, record a result | stale authority and revisions, repeated and late results; a job is granted once, settled once, and a snapshot never looks fresher than it is |
| **Hyper-V management worker**, `AG/src/windows/windows_transport.cpp`, `AG/src/hyperv_management_journal.cpp`, `AG/src/windows/hyperv_management_operations.cpp` | one journal record on disk, the cycle's position, the lease's start | one cycle every five seconds: acknowledge, poll or look up, claim, execute, observe, report | crashes between the provider's call and its record, lost grants, leases measured by two clocks; executed at most once, within the grant, truthful outcomes |
| **Agent gateway**, `CP/agent_pki/gateway.py` | none | authenticates the Agent, refuses some messages of suspended Tenants, dispatches | refusals that the Agent cannot get past |
| **Tenant suspension and identity changes**, `CP/tenancy/operations.py`, `CP/tenancy/rbac.py` | Tenant status, memberships | suspend, activate, rename or reset a user, change a membership | races with claims and results; withdrawn work is never executed afterwards |
| **VM actions**, `CP/agent_pki/hyperv_actions.py` | action rows; `hyperv-action-result.json` on the host | queue, deliver with the answer to inventory or telemetry, accept, carry out, record | delivered and lost; withdrawal of what was delivered; an outcome stored beside a report under way; carried out at most once, never after a withdrawal in the queue, and settled |
| **Agent lifecycle**, `CP/agent_pki/lifecycle.py`, `AG/src/windows/updater.cpp` | lifecycle jobs; installed binary and registration, rollback file, `lifecycle-result.json`, the updater's process | update, remove, roll back | a process that stops and replaces the one that launched it; kills and restarts of the host halfway; bounded waits; what is reported is what is installed |
| **HGS provisioning**, `CP/hgs/services.py`, `AG/src/hgs_management.cpp` | plan, a job per step and inspection; journal, receipts and fence on every node | create, inspect, approve, cancel, resolve; poll, claim, change the machine, restart, report | order over several nodes, restarts between report and evidence, approval withdrawn midway, three files written one after the other; steps in order, at most once, and what counts as done is done |
| **Managed GPO jobs**, `CP/security/gpo_*.py`, `AG/src/gpo_*.cpp` | jobs, approvals, rule of the domain, reconciliations; journal and receipts | inspect, change, pilot, approve, claim, execute in a worker process, reconcile | approvals that expire or are withdrawn during a claim; a worker that dies halfway; one writer per domain; the fence is released by evidence only |
| **Agent deployment**, `CP/agent_pki/deployment.py`, `views.py` | queue, running row, stored administrator credentials, the worker process | queue, claim, guard before every remote step, end, withdraw | no lock is held across remote input and output; a worker that dies, also between the statements of a deployment's end; maintenance never beside work, credentials gone with the deployment |
| **Hyper-V console**, `CP/agent_pki/hyperv_console.py`, `AG/include/ipms/agent/console_input_*.hpp`, `console_broker.py`, `native_*.py` | browser leases, input queue; a receipt in memory, two workers and a switch between them | open, renew, close, enter input; poll, apply, acknowledge; frames | coalescing with what is under way, lost receipts, late answers that switch a worker off; inputs in order, never replayed, none forgotten |
| **Settings-dialog lease**, `hyperv_management.py` 351-453 | one lease per machine with owner and expiry | acquire, renew, release | expiry between two requests; at most one owner |
| **Agent PKI**, `CP/agent_pki/services.py`, `crypto.py`, `onboarding.py` | enrollments, certificates, issuers with overlap | enroll, renew, revoke, rotate, roll back | the answer to a renewal may be lost; no Agent is locked out, no revoked one let in |
| **Tenancy and roles**, `CP/tenancy/*` | users, memberships, sessions | request-response operations | authority re-checked when it is used |
| **Baselines, scans, applications**, `CP/security/collections.py`, `scans.py`, `applications.py` | collections, scan queue | assign, scan, evaluate | follow GPO jobs |
| **Discovery**, `CP/discovery/*` | devices, certificates | poll, probe | input and output |
| **Update reception**, `CP/updates/*` | metadata pages | receive | validation |
| **Audit and job logs**, `CP/audit`, `CP/core/job_logs.py` | append-only records | append, project | - |
| **Web console**, `apps/web-console` | none of its own | presentation | - |

How they interact. Every job kind has the same shape: rows in the database, a
route of the Agent gateway that the Agent calls, and results it reports.
Their handlers take the Tenant row's lock first, so that suspension and
admission see each other (`CP/tenancy/operations.py`); the results of power
actions lock the job's row alone. Management jobs, VM actions, lifecycle jobs,
deployments, GPO jobs and HGS plans reserve the same machine or host, and do so
by looking at each other's rows: an active row is the reservation. The Agent's
service runs a thread per kind, power actions and lifecycle jobs on the main
one; only the disk (journals, receipts, result files) survives it. The input
of consoles is the exception: its receipt is in memory.

`PROJECT.json` lists the hazards of this code with their lines, and which
property covers which.

## 2. Plan

The order followed the harm a mistake does: first the channel whose operations
cannot be repeated (management jobs), then the other work that changes hosts
(assignments and the updater, HGS, GPO), then what they have in common (the
reservations, with deployments), then the console. Each has a detailed model,
where it makes a promise an abstract one that it implements, and a run that
plays every action.

| Abstract specification | Implemented by | Shown by |
|---|---|---|
| `ManagedOperation`: executed at most once, and only when granted | `HyperVManagement`, `AgentAssignments` | TLC and proof |
| `DomainFence`: one job has the domain and writes it, and gives it up only when complete or reconciled | `GpoJobs` | TLC and proof |
| `SteppedPlan`: steps granted in order, attempted at most once, proven | `HgsProvisioning` | TLC and proof |
| `InputStream`: inputs in order, without gaps, not twice | `ConsoleInput` | TLC and proof |

Proofs followed in the same order: management jobs, assignments, GPO jobs, HGS
provisioning, reservations, console. What is left out for good, and why, is in
section 6.

## 3. Modules

    ManagedOperation          what the channel promises about a job
    ManagementPortal          the control plane's half
      ManagementAgent         the Agent's half and the provider
        HyperVManagement      composition: Init, Next, fairness, properties
          MCHyperVManagement  instances for TLC
          ManagementInvariant the inductive invariants: what may still be
                              executed, and what is told of it
            ManagementStepProofs lemmas about the steps
              HyperVManagementProofs   the theorems

    AssignmentPortal          power actions and lifecycle jobs: the portal
      AssignmentAgent         the main thread of the Agent's service
        AgentUpdater          the updater's process
          AgentAssignments    composition; implements ManagedOperation too
            MCAgentAssignments  instances for TLC
            AssignmentInvariant the inductive invariant
              AssignmentStepProofs      lemmas about the steps
                AgentAssignmentsProofs  the theorems

    SteppedPlan               what a provisioning plan promises
    HgsPortal                 plan, steps, inspections
      HgsAgent                the workers of the nodes, and the machines
        HgsProvisioning       composition; implements SteppedPlan
          HgsPunctuality      what becomes of an offer
            MCHgsProvisioning instances for TLC
          HgsInvariant        the inductive invariant
            HgsProofs         the theorems

    DomainFence               what the GPO jobs of a domain promise
    GpoPortal                 jobs, approvals, reconciliations
      GpoAgent                the worker, its journal, the directory
        GpoJobs               composition; implements DomainFence
          MCGpoJobs           instances for TLC
          GpoInvariant        the inductive invariant
            GpoProofs         the theorems

    AgentReservations         six kinds of work on one host, and deployments
      AgentReservationsProofs invariant and theorems

    InputStream               what the console promises about input
      ConsoleInput            sessions, queue and the Agent's two workers
        ConsoleInvariant      the inductive invariant
          ConsoleInputProofs  the theorems

**ManagementPortal.** `job` is the table of `HyperVManagementJob` rows,
`created` their creation order (`order_by("created_at")`), `snapshot` the
`HyperVManagementSnapshot` rows, `tenantActive` and `permitted` what authority
checks read, `clock` the passage of time. One action per function:
`CreateManagementJob`, `OfferManagementJob`, `ManagementJobStatus`,
`ClaimManagementJob`, `RecordManagementResult`, `SuspendTenant`,
`ReactivateTenant`, `WithdrawIdentityOperations`, `ChangeMembership`.

**The link** is, in all models of a channel, `request` (what the Agent waits
for), `reply` (its answer) and `late`: requests whose sender gave up (a timeout,
a crash) and that the gateway may process now, later, repeatedly or never. The
answers to those are lost.

**ManagementAgent.** `journal` is `current.json`, the only state that survives a
crash. `pc` is where `run_management_cycle` stands, `claimStarted` its
`claim_started`. `provider`, `calls` and `config` are the hypervisor: what it
does for a job, how often its method was executed, the revision of each
machine. An action ends where something else can happen: an exchange, a flush
or a provider call. `CycleFails` ends a cycle anywhere: an exception, a lost
answer, a failed flush, a stop of the service; the next cycle has only the
journal.

**ManagedOperation** is the promise: per job *absent, waiting, granted,
doubtful, settled, withdrawn*, and how often it was executed; execution only
when granted, and once. `HyperVManagement` implements it under the mapping
`Promise`.

**AssignmentPortal.** `job` is the table of both kinds of jobs, `created` their
order; `revoked` is `authority_revoked_at`. Actions: `CreateHyperVActionJob`,
`CreateLifecycleJob`, `AnswerCycle` (the answer to inventory or telemetry:
`offer_lifecycle_job`, then `offer_hyperv_action_job`), `LifecycleArtifact`,
`RecordHyperVActionResult`, `RecordLifecycleResult`, and the withdrawals.

**AssignmentAgent.** `pc` and `work` are where `run_inventory_cycle` and
`run_telemetry_cycle` stand, which have the same shape; `pendingLifecycle` and
`pendingAction` the two result files; `transition` is
`lifecycle_transition_started`; `service` what the Service Control Manager
shows. There is no journal here: an action that is interrupted stays *running*
and is never repeated, because only what is *delivered* may be accepted.

**AgentUpdater.** One process per lifecycle job, `updater` its position. An
action is a system call with an effect on disk or on the service, or a look at
the service; every call may fail, every wait may run out, and `HostRestarts`
kills all processes and starts a service that is still registered.
`version`, `registered` and `backup` are the installed binary, its
`DisplayVersion` and the rollback file.

**HgsPortal.** `plan` is the deployment row, `job` the rows of the steps and
inspections; a job is a node, a kind and a number. `clean` are the nodes whose
last observation left no blockers, `recent` the inspections of the last half
hour, which approval asks for. Actions: `CreatePlan`, `RequestInspection`,
`Authorize`, `Cancel`, `Resolve`, the gateway's poll, claim and result,
memberships, suspension and `TimePasses`.

**HgsAgent.** One worker per node. `journal`, `receipts`, `fence` and `releases`
are the files it keeps; `torn` says that a replacement of `current.json` was
interrupted and left `current.json.new` behind. `host` is the machine: its boot,
a pending restart, how far it is set up, and what is staged for the next boot.
`applied` is a history variable. A cycle may fail, the service may stop and the
host may restart between any two steps.

**HgsPunctuality.** What is offered expires with the plan's day, an inspection
for a reconciliation after half an hour; the next poll then fences the plan and
cancels it (`hgs/services.py:183`, 409-411, 169). So an offer never stays for
good, and the question is whether its Agent takes it before that. `chance` is a
history variable beside the provisioning: whether a node, since its jobs changed,
has had a whole cycle, from the poll on, in which no exchange was lost, no
service stopped and no update of the Agent withheld its work. The service begins
a cycle every fifteen seconds, so an offer that expires unclaimed before an Agent
that is up has outlasted many of them; `OffersTaken` says that it outlasts none.
An Agent that is offline or being updated has had no chance, and no promise is
made for it. In `HgsProvisioning`, `Calm` and `Interruption` split `Next`
accordingly.

**GpoPortal.** `row` are the jobs of one domain, `policy` the managed object as
the portal knows it, `recon` the latest reconciliation of each change, `rule`
the approval rule with its revision, `permitted` who may act, `overdue` the jobs
past their time. Actions: `CreatePreflight` (an inspection), `CreateChange`,
`QueuePilot`, `Approve`, `ChangeRule`, `WithdrawIdentity`, `MembershipExpires`,
`SuspendTenant`, `ExpireJobs`, `Review`, `RequestReconciliation`, `Accept`, and
the gateway's seven messages.

**GpoAgent.** `journal` and `receipt` are the files of a job, `pending` and
`released` those of a reconciliation, `stage` the place of the cycle and of the
worker process that writes. `directory` counts what IPMS and others wrote;
`effect` is the history of what each job left there. The worker may die between
any two writes (`WorkerLost`), the service stop (`Stop`), and an administrator
change the object (`Drift`).

**AgentReservations.** Of each of the six kinds the module keeps the status of
its active row; an ended row makes room for the next. Every handler that looks
at rows of other kinds is here with exactly the looks it makes, and so is the
deployment as a whole: its queue, its claim, the guards before each remote step,
its worker and that worker's death, its credentials. The end of
`process_deployment` is two steps, because its statements are not in one
transaction: `EndDeployment` writes the outcome (`deployment.py:1144`),
`DeleteSecret` stands for what follows up to the deletion of the credentials
(1160), and `WorkerDies` - a kill, or an error of the database - may come in
between. `secret` says of which deployments credentials are stored: *active*,
*ending* (the row has ended, its worker is still at it), *left* (and it got no
further). Between the two steps the next deployment may be queued already. The components' own modules
let their handlers refuse at any time; this module shows that the refusals fit
together.

**ConsoleInput.** `session` is the status of each console session (numbered in
the order of creation; *lapsed* is an active status past its lease), `machine`
what it controls, `queue` the `HyperVConsoleInputEvent` rows: a set, in the
order of their numbers, each with the last input it holds. On the Agent
`enabled` and `woken` are the switch of the input worker, `pc` its cycle,
`batch` what it applies, `receipt` the dispatcher's `pending_`, `framing` the
frame worker, which turns the switch on and off. `entry`, `applied`, `life` and
`doubt` are history: what was entered, what reached the machine, in which order
in this life of the service, and what a stop of the service left open.

### Abstractions

- One Tenant, one enrollment per Agent, and it is valid. A handler is one atomic
  action: the code runs it in a transaction that locks the Tenant row first (the
  console: its session row). The exception is the end of a deployment, which
  runs without a transaction and is modelled as steps.
- What a handler asks of other parts (contact, version, the rows of other kinds)
  may make it refuse at any time in the component's own module; the refusing
  branch of each check is always enabled. That the checks of the kinds agree is
  the subject of `AgentReservations`.
- A message carries the job's identity: the other bound fields (machine,
  operation, parameters, expected revision) are immutable after creation, and
  the code compares them field by field. Validation of settings and checkpoint
  parameters is data.
- A revision stands for the digest of a machine's configuration; each effect
  makes a new one. Writers other than this Agent are outside the model of the
  management channel, as the source says they are outside its lock; in the GPO
  model they are `Drift`.
- The lease is looked at and the provider's method executed in one step: the
  code has nothing between the two.
- `readAt` in an observation is a ghost: the portal never learns it.
- The answer to a cycle is one action, though the two offers and the check of
  the certificate are transactions of their own: what commits between them has
  the effect of the same event just before. An answer to a page of the
  software inventory also carries an offer, which the Agent does not look at:
  it has the effect of an abandoned cycle, which the model has.
- The state of a virtual machine, which admits an action and is set by its
  success, is a choice.
- `wait_for_virtual_machine_state` may last: `ConfirmAction` is a step that
  `ServiceStops` has to wait for. The report of a removal, made by a process of
  its own, is one step. Administrators do not start or stop the service.
- What an HGS machine shows is its boot, a pending restart and how far it is set
  up; names, addresses and credentials of a plan are data. One plan.
- What a directory holds is how often IPMS and others wrote to it; the GUID of
  an object is known or not.
- In `AgentReservations` management jobs and power actions are those of one
  machine; a host has one deployment. (The queue admits a second one of the same
  host under another port, and its check for an active one stands outside the
  transaction, `views.py:228`.)
- In `ConsoleInput` the statuses *requested* and *active* are treated alike by
  the code and are one. `created_at` orders strictly. Every session has a
  requester of its own. A batch of browser events is its inputs one after the
  other, which the code applies under one lock. The frame worker's poll, capture
  and report alternate in the code and may come in any order here. Rows that an
  ended session leaves behind stay.

## 4. Runs

| Run | Instance | What it shows |
|---|---|---|
| `writes` | two writes by one user on one machine, lease 1 tick, one abandoned request, clock to 1; 1.1 million states | each write executed at most once, within its grant and soon after a withdrawal at most, on the confirmed configuration; its outcome true; no report refused; offered work never executed before; a stored snapshot never older than it says and never replaced by an older one; the channel implements `ManagedOperation` |
| `liveness` | an inspection and a write on two machines of one Agent, one abandoned request; 183 thousand states | granted work ends or is handed over for reconciliation; accepted work does not wait for ever unless a reconciliation holds the Agent |
| `power_actions` | two power actions on two machines of one host, one abandoned request; 162 thousand states | the same promise as the management channel's, by other means; nothing delivered after its withdrawal; the file on the host never contradicts the row; stored outcomes settled, for suspended Tenants too; queued actions delivered or withdrawn |
| `updates` | two updates, to versions 2 and 3, and a removal; 2.2 million states | an update can restore the binary it replaces, whatever became of the one before |
| `hgs_plan` | one node, its inspections, role, restart, forest, restart; two inspections, one disturbance; 1.0 million states | the plan implements `SteppedPlan`; what is proven is so on the machine; failed and cancelled steps touched nothing; settled plans are quiet; an uncertain step fences its machine; no report refused; an offer does not outlast an undisturbed cycle |
| `gpo_jobs` | an inspection, a change, a pilot, one controller, two interchangeable users, one round of reconciliation, one disturbance; 1.4 million states | the jobs implement `DomainFence`; failed and expired jobs wrote nothing; every grant holds under the present rule; a domain is released as observed |
| `reservations` | one host, either kind of Tenant; 11600 states | maintenance and work never hold the host together; work on one machine is serialized; credentials are deleted with the row or, after it, by its worker if it lives; every queue moves |
| `console` | two sessions on one machine or two, two inputs, queue and batch of two, one disturbance; 518 thousand states | the console implements `InputStream`; one session holds a machine; queued inputs move |
| `stored_outcome` | one power action | **a violation**: see below |
| `interrupted_rollback` | one update | **a violation**: see below |
| `late_receipt` | an inspection and a change | **a violation**: see below |
| `secrets_left` | one deployment | **a violation**: see below |

**Bounds.** `LeaseTicks = 1` makes "within the lease" and "expired" both occur;
`MaxClock` 1 lets a lease expire after the claim and a stored snapshot go stale
(`FreshTicks`). Two jobs are needed for one to overtake or block the other; no
property speaks of three. `LateBound` 1 gives a message that is delayed over any
number of later exchanges and is processed any number of times. Every job may be
executed, fail, be withdrawn, be reported late or be lost in each run. The run of
liveness on the management channel has no clock: its fairness says nothing of
it. `updates` and its violation have no abandoned requests: what they are about
happens on the host. Two updates are needed for one to find what another left
behind; `Version` must rise, for the portal offers only newer versions.

`MaxUnrest` bounds, in HGS, GPO and console, the rare events taken together:
withdrawals, expiry, drift, requests that arrive late, torn journals, and in
`ConsoleInput` also stops of the service, failed inputs and failed cycles. In
HGS and GPO stops of the service, lost answers, dying workers and cancellation
are not counted and occur any number of times. `Rounds` bounds inspections and
reconciliations, `MaxBoot` the unplanned restarts. `StepsPerNode = 4` reaches
the second restart, the first step that needs both a restart's proof and a
promoted node before it; with one disturbance each rare event meets every
state. All six steps
on one node hold as well (without `chance`, 1.4 million states); further nodes
are beyond a run of minutes.

`reservations` has no bound: the state of six rows is finite, and the check is
complete.

`CHECK_DEADLOCK` is on where the Agent polls for ever. It is off in `console`,
where nobody has to open another session.

**Fairness.** The service starts a cycle every few seconds, whatever became of
the last: weak fairness of the Agent's steps. The gateway answers a request the
Agent waits for. Jobs the provider has accepted end. Cycles may fail any number
of times but not for ever; otherwise a machine that always stops at the same
step would refute every liveness property. Nothing is assumed of users, of the
clock, or of abandoned requests. `GrantedWorkSettles` has the premise that the
Tenant is not suspended for ever: an inspection that was begun is resumed by a
claim, and those are refused.

- `FairSpec` of `AgentAssignments` says the same of the main thread, the gateway
  and the updaters. No recovery action is registered for the service, so a crash
  may leave it down until the host restarts: its liveness properties have the
  premise `ServiceReturns`.
- HGS provisioning states no liveness. An offer ends in any case, with its
  expiry; that its Agent takes it before is the invariant `OffersTaken`.
- `AgentReservations`: the Agent polls for each kind of work, and a timer starts
  the deployment worker every ten seconds (`WF` of the offers and of the claim).
  A worker that has written its outcome executes its next statements or dies
  (`WF` of `DeleteSecret`): either makes room for the next claim. Nothing is assumed of execution or of its reports; a worker may die.
- `ConsoleInput`: the two workers' loops and the gateway's answers. Disturbances
  are bounded by `MaxUnrest`, so there are finitely many.
- `GpoJobs` states no liveness: after some faults the code stays where it is (see
  `late_receipt` and the observations below), and holding the domain is the safe
  side.

Every property of a passing run has a mutant in `PROJECT.json`: an operator
commented "Defect" beside the definition it would replace, a plausible slip
that the property finds.

### Disagreements between the code and its documentation

**`stored_outcome`.** ADR-0008 (`docs/architecture`, lines 85-86) says "A
terminal result that cannot be returned immediately is stored locally and
retried through the next authenticated Agent cycle". If the portal recorded the
result and only its acknowledgement was lost, it refuses the repetition
(`hyperv_actions.py:165-172`). The Agent then neither removes the file nor gets
past it (`windows_transport.cpp:870`, `1175`, `1225`): inventory, telemetry and
the work they bring end for good.

**`interrupted_rollback`.** ADR-0006, lines 52-53: "The restarted Agent reports
success. A failed replacement restores and restarts the previous binary before
reporting failure". `updater.cpp:345` writes the success before the service is
started. When the start fails, the old binary is restored first and the failure
written third; a restart of the host in between lets the old binary report the
success.

**`late_receipt`.** ADR-0016, line 102: "Late authenticated receipts can describe
already granted work after its requester loses authority"; ADR-0018, line 65,
keeps that for managed objects. Pilots are taken late, but a change only while it
is *running* (`gpo_production.py:1084`), and withdrawal has made it
*reconciliation_required*. The Agent repeats the refused success at the start of
every cycle; as its journal is terminal it never polls for a reconciliation, and
the domain stays fenced.

**`secrets_left`.** ADR-0005, line 57: "The worker deletes the encrypted bootstrap
credential after the first attempt, whether the attempt succeeds or fails." The
worker writes the outcome first (`deployment.py:1144`), then deletes the tokens
(1154), changes the enrollment (1156) and deletes the credentials (1160); each
statement is committed by itself, and none of the four is repeated. A worker
that is killed after the first, or whose database fails the second or third,
leaves the credentials of an administrator stored beside a row that has ended.
Nothing looks for them: claims and withdrawals delete those of queued rows only.
What holds besides is `SecretsGoWithWork`: this is the only way they stay.

### Observations without a run

What the models show of the code besides, with no property that could hold:

- `windows_gpo_journal.cpp:119`: the journal of HGS and GPO jobs is replaced through
  `current.json.new`, which is created with `CREATE_NEW`. A stop before the move
  leaves that file, nothing deletes it, and every later save fails, the
  recovery's too: the cycle that should keep an interrupted one from stranding
  the worker (`hgs_management.cpp:147-149`) does not. What the Agent is offered
  from then on, inspections for a reconciliation included, it cannot take; it
  expires, and the next poll fences the plan and cancels it, until somebody
  deletes the file. `OffersTaken` excepts the nodes this happened to (`torn`),
  and fails without the exception. (The journal of the management channel
  tolerates the leftover, `windows_management_journal.cpp:83`.)
- `updater.cpp:153`: the wait for the service to stop ends after thirty seconds,
  while the main thread may wait minutes for a machine to shut down. The start
  that follows finds the service still stopping, and gives up when it has
  stopped; nobody starts it until the host restarts (ADR-0006, line 65, promises
  to report or roll back "every reachable failure path").
- `hgs/services.py:418`: a deployment looks at HGS plans before its remote steps,
  approval and claim of an HGS step look at lifecycle jobs only. A plan approved
  while a deployment runs has its step carried out while the Agent is replaced,
  which ADR-0019, line 70, excludes.
- `deployment.py:200`: a worker that is killed leaves its deployment *running*,
  its credentials stored and the host reserved for good.
- A deployment that ends at its claim or by a withdrawal leaves its enrollment
  token unused and valid until it expires, though ADR-0005, line 58, says that
  failed jobs invalidate it.
- `tenancy/operations.py:48`: a delivered job whose authority is withdrawn before
  the Agent had it stays active, is not offered again, and nothing ends it.
- `windows_transport.cpp:784`: after an updater that failed its checks, every
  later lifecycle job is delivered and passed over until the service restarts.
- `views.py:498-580`: an administrative removal of an Agent looks at management
  jobs, GPO jobs and deployments, not at HGS plans. It is not modelled.

## 5. Proofs

The theorems hold for any jobs, machines, users, Agents and bounds, from the
named assumptions of the modules - `JobsAssumption`, `TicksAssumption`,
`LateAssumption` and `MaxClockAssumption` for the management channel,
`AssignmentAssumption`, `VersionAssumption` and `LateAssumption` for the
assignments, `GpoAssumption` for the GPO jobs, `HgsAssumption` for HGS,
`ConsoleAssumption` for the console -, which TLC evaluates in every run. The
reservations have no constants.

| Theorem | Says |
|---|---|
| `InvariantHolds` | `IInv` of the management channel is an invariant |
| `TypeCorrect` | `TypeOK` |
| `AtMostOnce` | `ExecutedAtMostOnce`: the provider's method runs at most once per job, never for a job that is shown as not granted or cancelled |
| `WorkIsNew` | `NeverReassigned`: a poll never offers what was executed |
| `WithinGrant` | `ExecutionWithinGrant`: executed only while running and before the portal's lease ends |
| `SoonAfterWithdrawal` | `ExecutionSoonAfterWithdrawal`: nothing starts a lease's length after a withdrawal |
| `Implements` | `ImplementsManagedOperation`: every behaviour of the channel is one of `ManagedOperation` |
| `OutcomesHold` | `OutcomeInv` of the management channel: what reports, records, rows and snapshots tell is so |
| `Truthful` | `TruthfulOutcome`: succeeded only after the effect, failed only without it |
| `ReportsAccepted` | `NoReportRefused`: no report the Agent waits for is refused |
| `SnapshotsNotTooFresh` | `SnapshotConservative`: no snapshot is stored with a time after its reading |
| `SnapshotsNeverRegress` | `SnapshotsAdvance`: no snapshot is replaced by an older reading |
| `OnConfirmedRevision` | `ExecutionOnConfirmedRevision`: executed on the revision the requester confirmed |
| `NoOfferAfterWithdrawal` | `NotOfferedAfterWithdrawal`: what is withdrawn reaches no Agent that does not hold it |
| `AssignmentsInvariant`, `AssignmentsTyped` | `IInv` and `TypeOK` of the assignments, which is left to the proof |
| `StoredConsistent` | `StoredOutcomeConsistent`: file and row tell one story |
| `RollbackAlwaysPossible` | `RollbackPossible`: an update can restore what it replaces |
| `AssignmentsImplement` | the assignments implement `ManagedOperation` |
| `GpoJobsInvariant`, `GpoTyped` | `IInv` and `TypeOK` of the GPO jobs |
| `FailedJobsWroteNothing` | `FailuresTouchNothing` |
| `GrantsAreAuthorized` | `ClaimedUnderPresentRule` |
| `ReleasesAreConfirmed` | `ReleasedAsObserved` |
| `JobsImplementFence` | the GPO jobs implement `DomainFence` |
| `HgsInvariantHolds`, `Typed` | `IInv` and `TypeOK` of HGS provisioning |
| `DoneOnTheMachine` | `ProvenOnTheMachine`: what counts as done is so on the machine |
| `FailuresTouchNothing` | `FailedStepsTouchNothing` |
| `ReportsTaken` | `NoReportRefused` of HGS: no report an Agent waits for is refused |
| `SettledPlansLeaveMachines` | `SettledPlansAreQuiet` |
| `UncertainStepsHold` | `UncertainStepsFence`: no change beside a step of uncertain outcome |
| `StepsFollowThePlan` | HGS provisioning implements `SteppedPlan` |
| `ReservationsInvariant`, `ReservationsTyped` | the invariant and `TypeOK` of the reservations |
| `MaintenanceApart` | `MaintenanceExcludesWork` |
| `MachinesSerialized` | `VirtualMachineSerialized` |
| `SecretsDeleted` | `SecretsGoWithWork`: credentials are stored while their deployment is active, and after it only until its worker deletes them or dies |
| `ConsoleInvariantHolds`, `ConsoleTyped` | `IInv` and `TypeOK` of the console: one session holds a machine |
| `ConsoleImplements` | the console implements `InputStream` |

**The management channel.** None of its theorems is inductive: that a job is
executed once depends on what the Agent's disk and the messages under way prove
about the portal's rows. `IInv` of `ManagementInvariant` states it in eight
parts.

- `TypeOK`.
- `ExchangeOK` ties the cycle's position to the request it waits on and the
  answers it may get.
- `PhaseOK` says which journal record each position works on.
- `RowsOK`: a row's result agrees with its status; a grant has a time, and no
  withdrawal precedes it.
- `ReportsOK`: a result under way, abandoned ones included, is about a job
  that is settled, or whose record says that nothing more will be executed.
  Without it a late result could settle a job between its grant and its
  execution.
- `CallsOK`: a job that was executed was granted, and until it is settled the
  journal holds it in a phase after *prepared*. This is what makes the
  journal's overwriting safe.
- `PollOK`: what the Agent holds when it polls is settled at the portal, so
  that only acknowledged records are replaced and an offer is always new.
- `GrantOK`: a grant in the Agent's hands is running at the portal, unused,
  and no older than the Agent's measure of it. This carries the lease from
  one clock to the other.

`ManagementStepProofs` says how a row may change (`Follows`: what is settled
stays settled, what was granted stays granted with its time) and shows that
every handler respects it (`HandlerStep`, `UserStep`), and has one lemma per
step of the cycle, with the ends of a cycle (`FinalReport`, `UncertainReport`,
`RunningReport`, `CycleEnds`) proved once. `OnlyExecMethod` then reduces the
action properties to one step, and `RowMoves` maps each change of a row to a
step of the promise.

What is told needs the contents of the results, of which `IInv` does not speak.
`OutcomeInv`, inductive beside it, adds them. A result under way, abandoned ones
included, is of a granted job, says of the provider what is so, and was read
after the grant (`ResultOK`); a final one is the journal's, or the row has it
already (`FinalOK`), so that a second delivery finds the same document and no
other is refused. A job in doubt is on record as such, at the portal and in the
journal (`TableOK`, `RecordsOK`), which keeps the record from being replaced
before someone reconciles it. The portal stamps a snapshot with the time of the
grant: stored ones were read before every grant still open (`SnapshotsOK`), so
the next one is never older. Between the validation and the execution the cycle
flushes a file and the provider may change machines; the confirmed revision
survives because the provider works only for executed jobs that are not settled
(`ProviderOK`) and a machine has one active job (`MachinesOK`). Only three kinds
of steps touch this: those of the portal that record no result (`QuietStep`),
the recording itself, and those of the cycle (`CycleTells`).

**The assignments.** There is no journal, so `AssignmentInvariant` argues
otherwise. Only what is *delivered* may be accepted, and nothing - no message,
late ones included, no file, no variable of the main thread - *tells* an outcome
before the job was carried out (`WaitingUntouched`, `AcceptedUntouched`,
`ConfirmingUntold`). All that is told of an action afterwards is one story, and
the row's (`OneStory`), which is why file and row agree. One lifecycle job is
active (`OneActive`); a second updater comes into being only after the first has
told its outcome, and if the first still depends on the rollback file it has
replaced the binary by then, so that the second is refused
(`OneDepends`, `BackupOf`, `Rises`). `AssignmentStepProofs` goes through the
steps of the portal, of the cycle and of the updater in this order.
`NoOfferAfterWithdrawal` needs no invariant: of all steps only the answer to a
cycle puts a job into an Agent's hands (`OnlyOffersArrive`), and that answer
looks at the mark.

**The GPO jobs.** A worker writes only for a job that was claimed and has no
receipt yet (`ReceiptOK`, `StageOK`); every report that may end a claimed job is
that receipt (`MessageOK`), and one job at a time is active (`OneActive`). Hence
a job to be reconciled is no longer written for, and what was observed of the
directory holds all IPMS wrote for as long as the domain is held (`RecordOK`).
The proof is split as the system is: every action of the portal changes rows
only as `Moves` allows (a row follows another, is created, granted, completed or
reconciled), every action of an Agent leaves the rows and the other Agents alone
(`Acted`), and the parts of `IInv` that speak of both are kept by either
(`PortalKeeps`, `AgentKeeps`). The refinement maps each kind of move to one step
of `DomainFence` (`FenceMoves`) and each write of the worker to `Write`
(`FenceWrites`).

**HGS provisioning.** Four files tell about a step - the portal's row, and on the
node journal, receipt and fence, written one after the other. `HgsInvariant`
says for each node what one of them proves of the others. Of the Agent
(`Agents`): a machine is changed only for the step in its journal, after the
claim and before the receipt (`JournalOK`, `AppliedOK`, `WorkerOK`); a receipt
says what was done (`ReceiptOK`, `DocOK`); one without certainty holds the fence,
or the cycle that wrote it has yet to (`FenceOK`, `SoleFence`). Of the messages:
a report under way, abandoned ones included, is that receipt or the notice of a
restart that evidence must follow (`MessageOK`), which is what lets the portal
believe reports of any age. Of the portal: rows, inspections and plan agree
(`RowOK`, `RoundsOK`, `PlanOK`), and a step is open only when those before it are
proven (`OrderOK`, `LaterOK`). Every action of the portal moves rows only as
`PortalMoves` allows, and what this keeps is proved once; every action of a node
leaves the others alone (`Elsewhere`). Changes of a machine are in `Apply` only
(`OnlyApply`), so the action properties are about this one step
(`AppliedStep`). At most one step is open at a time (`OneOpen`); hence a move of
the table is one step of `SteppedPlan` (`PortalImplements`) and `Apply` is
`Attempt`.

**The reservations.** Exclusion is not inductive: two rows that are active
together may have been created one after the other, and what the first saw no
longer holds. The invariant adds what a row's creation looked at
(`CreatedApart`), as each of the other kinds' later steps keep it. Of the
credentials it says whose are stored in every state, between the two steps of a
deployment's end too; that none are left is not provable, because it is not so
(`secrets_left`).

**The console.** Nothing but an input's row says what became of it, and its
receipt is lost with the service. `ConsoleInvariant` says what row, batch and
receipt prove of each other. A row holds the last of its inputs, and one that was
applied is marked delivered (`RowsOK`), so no position an operator enters
replaces one that is under way. What is not in the queue of an open session was
applied, and what was applied was so in order, without gaps (`OrderOK`); hence an
input entered last is either in its row or done. A receipt acknowledges only what
was applied, however late it arrives (`ReceiptsOK`). Of an open session's rows,
those applied in this life of the service are the ones the receipt names, or its
failure ends the session (`RecentOK`); a poll is sent only without a receipt
(`CycleOK`), so what it is offered is new to this life. What is left of a batch
may therefore be applied one after the other (`BatchesOK`), also when its session
has ended and its rows are gone; and the sessions of a machine follow each other
(`SessionsOK`, `EntryOK`), so that no later session's input comes before it.
Each step of the portal is one of three kinds: an entry (`Enter` of the promise),
an offer, or one that only ends sessions and takes rows away, which the promise
calls `Forget`. Of the workers only an input's effect is more than a stutter
(`Apply`); a stop of the service is `Interrupt`, which permits an input that was
applied and never acknowledged to be applied again.

**Only model-checked.** Liveness, as `ENABLED` and fairness are out of the
prover's reach: `GrantedWorkSettles` and `AcceptedWorkMoves` of the management
channel, `StoredOutcomesSettle` and `QueuedActionsMove` of the assignments,
`QueuedWorkDecided` of the reservations and `QueuedInputsMove` of the console.
Every safety and every refinement property of the passing runs is a theorem.

## 6. Not modelled

Statuses and notes per component are in `PROJECT.json`. In the components that
are modelled:

- Management: the settings-dialog lease (each operation is one transaction over
  one row, and the creation of a job checks it again under the same lock); the
  validation of parameters and of the inspected postcondition; the two-week
  retention of a journal.
- HGS: the steps after the second restart, `initialize` and `verify`, are in the
  model but beyond the bound of the run, and so are further nodes; failing writes
  of a disk.
- GPO: the artifact and its transfer, the one-use ticket of an approval, the
  fifteen seconds of a grant (it may lapse at any time), torn files, deletion of
  policies and drafts, overrides, jobs of schema 1.
- Deployment: the approval of the connection, the contents of the remote scripts
  and their rollback, the enrollment token, a second deployment of one host.
- Console: the native VMConnect transport with its broker, relay and
  credentials, which carries bytes and is lost with its session; the images; the
  former combined channel; a change of the Agent's identity.
- TLS, enrollment and the renewal of certificates, and the security worker of
  the Agent's service.

Not modelled at all are identities and roles, baselines, scans and applications,
discovery, update reception, audit and presentation: request-response code and
input and output, where transactions leave little to interleave. Most of the
implementation's lines are generated tables of security content
(`CP/security/content.py` alone has 140 thousand), which have no behaviour; the
share of lines that the models stand for says little about the rest.
