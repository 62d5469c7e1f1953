----------------------------- MODULE HgsPortal -----------------------------
(***************************************************************************)
(* The control plane's half of HGS provisioning (apps/hgs/services.py,     *)
(* contract.py): one deployment plan of one dedicated Tenant, its nodes in *)
(* order, and a job for every step of every node and for every inspection. *)
(*                                                                         *)
(* Requests of managers and messages of Agents lock the Tenant row and the *)
(* plan, so each is one atomic action.                                     *)
(***************************************************************************)
EXTENDS Integers, FiniteSets, FiniteSetsExt

CONSTANTS
  NodeCount,   \* nodes of the plan, numbered by ordinal
  StepsPerNode,\* bounds how many of a node's steps are played
  Rounds,      \* bounds the inspections that are requested
  MaxBoot,     \* bounds the unplanned restarts of a host
  MaxUnrest,   \* bounds the withdrawals, needless inspections, torn journals,
               \* requests that arrive late and the passing of time
  Managers,    \* users who may hold HGS_MANAGE
  Nobody,      \* no user
  NoJob,       \* no job
  NoDoc        \* no receipt, no observation

Nodes == 1 .. NodeCount

\* node_steps; "promote" is create_forest on the first node, else join_node.
NodeSteps ==
  <<"install_role", "reboot", "promote", "reboot", "initialize", "verify">>
StepJobs == Nodes \X {"step"} \X (1 .. StepsPerNode)
Inspections == Nodes \X {"inspect"} \X (1 .. Rounds)
Jobs == StepJobs \cup Inspections

\* What a machine shows: its boot, a pending restart, and how far it is set
\* up (1 role installed, 2 domain controller, 3 service initialized); and what
\* is reported of it.
Levels == 0 .. 3
Observations == [boot : Nat, pending : BOOLEAN, level : Levels]
Views == Observations \cup {NoDoc}
Reports ==
  [status : {"succeeded", "failed", "reconciliation_required", "reboot_required"},
   unclaimed : BOOLEAN, seen : Views]
Docs == Reports \cup {NoDoc}

ASSUME HgsAssumption ==
  /\ NodeCount \in Nat \ {0}
  /\ StepsPerNode \in 1 .. 6
  /\ Rounds \in Nat
  /\ MaxBoot \in Nat \ {0}
  /\ MaxUnrest \in Nat
  /\ Nobody \notin Managers
  /\ NoJob \notin Jobs
  /\ NoDoc \notin Observations /\ NoDoc \notin Reports

NodeOf(j) == j[1]
Operation(j) == IF j \in Inspections THEN "inspect" ELSE NodeSteps[j[3]]
ReadOnly(j) == Operation(j) \in {"inspect", "verify"}

VARIABLES
  plan,           \* HgsDeployment row
  job,            \* HgsJob rows
  clean,          \* nodes whose last observation left no blockers
  recent,         \* inspections completed within READINESS_AGE
  tenantActive,   \* Tenant.status = ACTIVE
  permitted,      \* users who now hold HGS_MANAGE
  unrest,         \* how often the plan was disturbed, to bound it
  request,        \* per node, the request its Agent waits on
  reply,          \* per node, its answer
  late            \* abandoned requests the gateway may still process

linkVars == <<request, reply, late>>
authorityVars == <<tenantActive, permitted, unrest>>
portalVars == <<plan, job, clean, recent, authorityVars, linkVars>>

-----------------------------------------------------------------------------
(* Data. *)

\* How far a step sets its machine up.
Target(op) ==
  CASE op = "install_role" -> 1 [] op = "promote" -> 2
    [] op \in {"initialize", "verify"} -> 3 [] OTHER -> 0

\* "unclaimed": the result code is one of UNCLAIMED_FAILURES.
Doc(status, unclaimed, seen) ==
  [status |-> status, unclaimed |-> unclaimed, seen |-> seen]

Active == {"queued", "offered", "running", "waiting_for_reboot"}
Terminal == {"succeeded", "failed", "cancelled", "reconciliation_required"}
PlanActive == {"draft", "inspecting", "ready", "blocked", "running",
               "waiting_for_reboot", "reconciliation_required"}

NoRow == [status |-> "absent", actor |-> Nobody, expires |-> "day",
          receipt |-> NoDoc, preboot |-> 0, released |-> FALSE,
          claimed |-> FALSE, after |-> 0]

Message(mode, j, doc) == [mode |-> mode, job |-> j, doc |-> doc]
NoRequest == Message("none", NoJob, NoDoc)
Answer(type, j, release) == [type |-> type, job |-> j, release |-> release]
NoReply == Answer("none", NoJob, NoJob)
Nothing == Answer("job", NoJob, NoJob)
Accepted == Answer("accepted", NoJob, NoJob)
Rejected == Answer("rejected", NoJob, NoJob)

\* contract.postcondition
Proves(op, seen) ==
  CASE op = "inspect" -> TRUE
    [] op = "reboot" -> ~seen.pending
    [] op \in {"install_role", "promote"} -> seen.level >= Target(op)
    [] OTHER -> seen.level >= Target(op) /\ ~seen.pending

-----------------------------------------------------------------------------
(* The plan and its jobs are changed together: s is [plan, job].           *)

State == [plan |-> plan, job |-> job]
Become(s) == plan' = s.plan /\ job' = s.job
Disturbed == unrest < MaxUnrest /\ unrest' = unrest + 1
WithStatus(s, status) == [s EXCEPT !.plan.status = status]

RoundsUsed ==
  Cardinality({i \in 1 .. Rounds : job[<<1, "inspect", i>>].status # "absent"})
Busy(rows) == {j \in Jobs : rows[j].status \in Active}
Unresolved(rows) ==
  {j \in Jobs : rows[j].status = "reconciliation_required" /\ ~rows[j].released}

Cancelled(rows) ==
  [j \in Jobs |-> IF rows[j].status \in {"queued", "offered"}
                  THEN [rows[j] EXCEPT !.status = "cancelled"] ELSE rows[j]]

\* create_job
WithJob(s, j, actor, expires) ==
  [s EXCEPT !.job[j] = [NoRow EXCEPT !.status = "queued", !.actor = actor,
                                     !.expires = expires, !.after = RoundsUsed]]
WithStep(s, n, i) ==
  WithStatus(WithJob(s, <<n, "step", i>>, s.plan.approver,
                     IF s.plan.expired THEN "past" ELSE "day"), "running")

Fence(s) ==
  [plan |-> [s.plan EXCEPT !.revoked = TRUE, !.status =
      IF \/ \E j \in Jobs : s.job[j].status \in {"running", "waiting_for_reboot"}
         \/ Unresolved(s.job) # {}
      THEN "reconciliation_required" ELSE "cancelled"],
   job |-> Cancelled(s.job)]

\* node_steps in order, then the next node, then the end.
Advance(s, j) ==
  IF j[3] < StepsPerNode THEN WithStep(s, NodeOf(j), j[3] + 1)
  ELSE IF NodeOf(j) < NodeCount THEN WithStep(s, NodeOf(j) + 1, 1)
  ELSE WithStatus(s, "succeeded")

AfterResult(s, j, ok) ==
  IF s.plan.revoked /\ Busy(s.job) \cup Unresolved(s.job) = {}
  THEN WithStatus(s, "cancelled")
  ELSE IF j \in Inspections
  THEN IF \/ Busy(s.job) \cap Inspections # {} \/ s.plan.revoked
          \/ s.plan.status \notin {"inspecting", "draft", "blocked", "ready"}
       THEN s
       ELSE WithStatus(s, IF ok = Nodes THEN "ready" ELSE "blocked")
  ELSE IF s.plan.revoked \/ s.plan.status \in {"cancelled", "reconciliation_required"}
  THEN s
  ELSE Advance(s, j)

-----------------------------------------------------------------------------
(* Requests of managers (HgsActionView). *)

CreatePlan(m) ==
  /\ plan.status = "none"
  /\ m \in permitted /\ tenantActive
  /\ plan' = [plan EXCEPT !.status = "draft", !.requester = m]
  /\ UNCHANGED <<job, clean, recent, authorityVars, linkVars>>

\* request_inspection; reconciliation inspections expire on their own.
RequestInspection(m, reconciliation) ==
  LET i == RoundsUsed + 1
      status(rows) == [j \in Jobs |->
        IF j \in Inspections /\ j[3] = i
        THEN [NoRow EXCEPT !.status = "queued", !.actor = m, !.expires =
                IF reconciliation THEN "half_hour" ELSE "day"]
        ELSE rows[j]]
  IN
  /\ m \in permitted /\ tenantActive
  /\ i <= Rounds
  /\ Busy(job) = {}
  /\ plan.status \in {"draft", "blocked", "ready"}
       \cup IF reconciliation
            THEN {"failed", "cancelled", "reconciliation_required"} ELSE {}
  /\ reconciliation \/ ~plan.expired
  /\ job' = status(job)
  /\ plan' = IF reconciliation THEN plan ELSE [plan EXCEPT !.status = "inspecting"]
  /\ IF reconciliation /\ plan.status # "reconciliation_required"
     THEN Disturbed ELSE UNCHANGED unrest
  /\ UNCHANGED <<clean, recent, tenantActive, permitted, linkVars>>

\* The last inspection of n that succeeded, if it was created after j.
LatestInspection(n, after) ==
  LET done == {i \in after + 1 .. Rounds : job[<<n, "inspect", i>>].status = "succeeded"}
  IN  IF done = {} THEN NoJob ELSE <<n, "inspect", Max(done)>>

Authorize(m) ==
  /\ m \in permitted /\ tenantActive
  /\ plan.status = "ready" /\ ~plan.revoked /\ plan.approver = Nobody
  /\ ~plan.expired
  /\ \A n \in Nodes : n \in clean /\ LatestInspection(n, 0) \in recent
  /\ Become(WithStep([State EXCEPT !.plan.approver = m], 1, 1))
  /\ UNCHANGED <<clean, recent, authorityVars, linkVars>>

Cancel(m) ==
  /\ m \in permitted /\ tenantActive
  /\ plan.status \notin {"none", "succeeded", "cancelled"}
  /\ Become(Fence(State))
  /\ UNCHANGED <<clean, recent, authorityVars, linkVars>>

\* Defect: an inspection older than the step may prove it.
ProvenByAnyInspection(j) ==
  LET latest == LatestInspection(NodeOf(j), 0)
      seen == job[latest].receipt.seen
  IN  latest \in recent /\ Proves(Operation(j), seen)

\* reconciliation: what a fresh inspection must show of the step j.
Proven(j) ==
  LET latest == LatestInspection(NodeOf(j), job[j].after)
      seen == job[latest].receipt.seen
      previous ==
        IF job[j].preboot # 0 THEN job[j].preboot
        ELSE IF job[j].receipt.seen = NoDoc THEN 0 ELSE job[j].receipt.seen.boot
  IN  /\ latest \in recent
      /\ Proves(Operation(j), seen)
      /\ Operation(j) = "reboot" => previous # 0 /\ seen.boot # previous

Resolve(m) ==
  /\ m \in permitted /\ tenantActive
  /\ plan.status = "reconciliation_required"
  /\ Busy(job) = {}
  /\ \E j \in Unresolved(job) \ Inspections :
       /\ Proven(j)
       /\ LET s == [plan |-> [plan EXCEPT !.approver = m, !.expired = FALSE,
                                          !.revoked = FALSE, !.status = "running"],
                    job |-> [job EXCEPT ![j].status = "succeeded",
                                        ![j].released = TRUE]]
          IN  Become(AfterResult(s, j, clean))
  /\ UNCHANGED <<clean, recent, authorityVars, linkVars>>

-----------------------------------------------------------------------------
(* Withdrawal of authority, and time. *)

Concerns(m) ==
  \/ m \in {plan.requester, plan.approver}
  \/ \E j \in Busy(job) : job[j].actor = m

\* Any change of a membership withdraws; its expiry is only seen later.
UpdateMembership(m) ==
  /\ \/ m \in permitted /\ permitted' = permitted \ {m} /\ Disturbed
     \/ m \notin permitted /\ permitted' = permitted \cup {m} /\ UNCHANGED unrest
  /\ IF plan.status \in PlanActive /\ Concerns(m)
     THEN Become(Fence(State)) ELSE UNCHANGED <<plan, job>>
  /\ UNCHANGED <<clean, recent, tenantActive, linkVars>>

MembershipExpires(m) ==
  /\ Disturbed
  /\ m \in permitted
  /\ permitted' = permitted \ {m}
  /\ UNCHANGED <<plan, job, clean, recent, tenantActive, linkVars>>

SuspendTenant ==
  /\ Disturbed
  /\ tenantActive
  /\ tenantActive' = FALSE
  /\ IF plan.status \in PlanActive THEN Become(Fence(State)) ELSE UNCHANGED <<plan, job>>
  /\ UNCHANGED <<clean, recent, permitted, linkVars>>

ReactivateTenant ==
  /\ ~tenantActive
  /\ tenantActive' = TRUE
  /\ UNCHANGED <<plan, job, clean, recent, permitted, unrest, linkVars>>

\* READINESS_AGE and then PLAN_AGE pass.
TimePasses(age) ==
  /\ Disturbed
  /\ recent' = {}
  /\ plan' = [plan EXCEPT !.expired = (age = "day") \/ plan.expired]
  /\ job' = [j \in Jobs |->
       IF job[j].expires \in {"half_hour", age} THEN [job[j] EXCEPT !.expires = "past"]
       ELSE job[j]]
  /\ UNCHANGED <<clean, tenantActive, permitted, linkVars>>

-----------------------------------------------------------------------------
(* Messages of the Agents (hgs_exchange).  live: the Agent still waits.    *)

Arrives(n, m, live) ==
  IF live THEN m = request[n] /\ reply[n] = NoReply ELSE <<n, m>> \in late

Respond(n, m, live, doc) ==
  /\ reply' = IF live THEN [reply EXCEPT ![n] = doc] ELSE reply
  /\ late' = IF live THEN late ELSE late \ {<<n, m>>}
  /\ UNCHANGED request

\* A suspended Tenant's Agent may only send results.
Refuse(n, m, live) ==
  /\ Arrives(n, m, live)
  /\ m.mode \in {"poll", "claim"} /\ ~tenantActive
  /\ Respond(n, m, live, Rejected)
  /\ UNCHANGED <<plan, job, clean, recent, authorityVars>>

\* authority_current
AuthorityCurrent(j) ==
  /\ tenantActive
  /\ job[j].expires # "past"
  /\ job[j].actor \in permitted
  /\ \/ j \in Inspections
     \/ /\ ~plan.revoked
        /\ plan.status \in {"running", "waiting_for_reboot"}
        /\ ~plan.expired
        /\ plan.approver \in permitted

\* poll_response: the latest step of the node that was reconciled.
Release(n) ==
  LET released == {i \in 1 .. StepsPerNode : job[<<n, "step", i>>].released}
  IN  IF released = {} THEN NoJob ELSE <<n, "step", Max(released)>>

Offerable(n) == {j \in Busy(job) : NodeOf(j) = n}

Poll(n, m, live) ==
  /\ Arrives(n, m, live)
  /\ m.mode = "poll" /\ tenantActive
  /\ \/ /\ Offerable(n) = {}
        /\ Respond(n, m, live, Answer("job", NoJob, Release(n)))
        /\ UNCHANGED <<plan, job>>
     \/ \E j \in Offerable(n) :
          IF AuthorityCurrent(j)
          THEN /\ job' = IF job[j].status = "queued"
                         THEN [job EXCEPT ![j].status = "offered"] ELSE job
               /\ Respond(n, m, live, Answer("job", j, Release(n)))
               /\ UNCHANGED plan
          ELSE Become(Fence(State)) /\ Respond(n, m, live, Nothing)
  /\ UNCHANGED <<clean, recent, authorityVars>>

\* Nothing is offered while a lifecycle job of the Agent is active.
Withhold(n, m, live) ==
  /\ Arrives(n, m, live)
  /\ m.mode = "poll" /\ tenantActive
  /\ \E j \in Offerable(n) : AuthorityCurrent(j)
  /\ Respond(n, m, live, Nothing)
  /\ UNCHANGED <<plan, job, clean, recent, authorityVars>>

\* Defect: the claim is granted without looking at the authority again.
ClaimUnchecked(n, m, live) ==
  /\ Arrives(n, m, live)
  /\ m.mode = "claim" /\ tenantActive
  /\ LET j == m.job IN
       /\ job' = [job EXCEPT ![j].status = "running", ![j].claimed = TRUE]
       /\ Respond(n, m, live, Answer("job", j, NoJob))
       /\ UNCHANGED plan
  /\ UNCHANGED <<clean, recent, authorityVars>>
Claim(n, m, live) ==
  /\ Arrives(n, m, live)
  /\ m.mode = "claim" /\ tenantActive
  /\ LET j == m.job IN
     IF ~AuthorityCurrent(j)
     THEN Become(Fence(State)) /\ Respond(n, m, live, Nothing)
     ELSE \/ /\ Respond(n, m, live, Nothing)
             /\ UNCHANGED <<plan, job>>
          \/ /\ job[j].status \in {"queued", "offered"}
             /\ job' = [job EXCEPT ![j].status = "running", ![j].claimed = TRUE]
             /\ Respond(n, m, live, Answer("job", j, NoJob))
             /\ UNCHANGED plan
          \/ /\ job[j].status \in {"running", "waiting_for_reboot"}
             /\ Respond(n, m, live, Answer("job", j, NoJob))
             /\ UNCHANGED <<plan, job>>
  /\ UNCHANGED <<clean, recent, authorityVars>>

\* accept_result: what it refuses.
NotExecuted(doc) == doc.status = "failed" /\ doc.unclaimed

\* Defect: a job that was cancelled meanwhile takes no report at all.
RefusedOnceCancelled(j, doc) ==
  LET row == job[j] op == Operation(j) IN
  \/ doc.status = "succeeded" /\ ~Proves(op, doc.seen)
  \/ row.status \in Terminal /\ row.receipt # doc
  \/ row.status \in {"queued", "offered"} /\ ~NotExecuted(doc)
Refused(j, doc) ==
  LET row == job[j] op == Operation(j) IN
  \/ doc.status = "succeeded" /\ ~Proves(op, doc.seen)
  \/ doc.status = "reboot_required" /\ op \notin {"install_role", "promote", "reboot"}
  \/ /\ row.status \in Terminal
     /\ row.receipt # doc
     /\ ~(row.status = "cancelled" /\ row.receipt = NoDoc /\ NotExecuted(doc))
  \/ row.status \in {"queued", "offered"} /\ ~NotExecuted(doc)
  \/ /\ row.status \notin Terminal
     /\ op = "reboot" /\ doc.status = "succeeded" /\ row.preboot # 0
     /\ doc.seen.boot = row.preboot

\* Defect: the row takes over the status as it was reported.
SettledAsReported(s, j, doc) ==
  [s EXCEPT !.job[j].status = doc.status, !.job[j].receipt = doc]

\* Defect: the report of a job that was not claimed changes nothing.
SettledOnceClaimed(s, j, doc) ==
  IF s.job[j].status = "offered" THEN s ELSE SettledAsReported(s, j, doc)

\* accept_result: the job, then the plan.
Settled(s, j, doc) ==
  LET row == s.job[j]
      waits == doc.status = "reboot_required" /\ Operation(j) = "reboot"
      good == doc.status \in {"succeeded", "reboot_required"}
      status == IF waits THEN "waiting_for_reboot"
                ELSE IF ~good THEN doc.status
                ELSE IF s.plan.revoked /\ ~ReadOnly(j) THEN "reconciliation_required"
                ELSE "succeeded"
  IN  [s EXCEPT !.job[j] =
         [row EXCEPT !.status = status, !.receipt = doc,
                     !.preboot = IF waits /\ @ = 0 THEN doc.seen.boot ELSE @]]

AcceptResult(s, j, doc, ok) ==
  LET r == Settled(s, j, doc) IN
  IF r.job[j].status = "waiting_for_reboot"
  THEN WithStatus(r, IF s.plan.revoked THEN "reconciliation_required"
                     ELSE "waiting_for_reboot")
  ELSE IF j \in Inspections \/ r.job[j].status = "succeeded"
  THEN AfterResult(r, j, ok)
  ELSE IF doc.status \in {"failed", "reconciliation_required"}
  THEN [plan |-> [r.plan EXCEPT !.status = doc.status], job |-> Cancelled(r.job)]
  ELSE r

\* readiness_blockers, which matter until the plan is approved: a node that is
\* already joined is not a fresh one, nor is one whose inspection failed.
Observed(n, j, doc) ==
  IF plan.approver # Nobody THEN {clean}
  ELSE {clean \ {n}} \cup
       IF doc.status = "succeeded" /\ doc.seen.level < 2 THEN {clean \cup {n}} ELSE {}

Result(n, m, live) ==
  LET j == m.job doc == m.doc
      lost == /\ ~AuthorityCurrent(j) /\ ~plan.revoked
              /\ job[j].status \in {"running", "waiting_for_reboot"}
      s == IF lost THEN Fence(State) ELSE State
  IN
  /\ Arrives(n, m, live)
  /\ m.mode = "result"
  /\ IF Refused(j, doc)
     THEN Respond(n, m, live, Rejected) /\ UNCHANGED <<plan, job, clean, recent>>
     ELSE IF job[j].status \in Terminal
     THEN /\ job' = [job EXCEPT ![j].receipt = doc]
          /\ Respond(n, m, live, Accepted)
          /\ UNCHANGED <<plan, clean, recent>>
     ELSE /\ clean' \in Observed(n, j, doc)
          /\ recent' = IF j \in Inspections /\ doc.status = "succeeded"
                       THEN recent \cup {j} ELSE recent
          /\ Become(AcceptResult(s, j, doc, clean'))
          /\ Respond(n, m, live, Accepted)
  /\ UNCHANGED authorityVars

=============================================================================
