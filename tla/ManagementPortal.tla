-------------------------- MODULE ManagementPortal --------------------------
(***************************************************************************)
(* The control plane's half of the Hyper-V management channel              *)
(* (agent_pki/hyperv_management.py behind /v1/hyperv-management): the job   *)
(* table, the stored snapshots, the authority checks and the four messages *)
(* an Agent may send.  One Tenant and one Agent enrollment.                *)
(*                                                                         *)
(* Every handler of the source runs in one transaction that first locks    *)
(* the Tenant row, so each is one atomic action here.  What a handler      *)
(* checks outside this module (Agent contact and version, deployments,     *)
(* lifecycle jobs, power actions, consoles) may fail at any time: the      *)
(* refusing branch of a check is always enabled.                           *)
(***************************************************************************)
EXTENDS Integers, Sequences, FiniteSets

CONSTANTS
  Jobs,           \* management requests; a request_id fixes all the inputs
  NoJob,          \* no request
  Mutations,      \* the jobs whose operation is not "inspect"
  VMs,            \* virtual machines of the enrolled host
  Target,         \* Target[j]: the machine job j is about
  Actors,         \* portal users
  Requester,      \* Requester[j]: the user who submits job j
  LeaseTicks,     \* EXECUTION_LEASE_SECONDS, in ticks of the clock
  FreshTicks      \* FRESH_SECONDS, in ticks of the clock

ASSUME JobsAssumption ==
  /\ NoJob \notin Jobs
  /\ Mutations \subseteq Jobs
  /\ Target \in [Jobs -> VMs]
  /\ Requester \in [Jobs -> Actors]

ASSUME TicksAssumption == LeaseTicks \in Nat /\ FreshTicks \in Nat

VARIABLES
  job,            \* HyperVManagementJob rows
  created,        \* the rows in creation order
  tenantActive,   \* Tenant.status = ACTIVE
  permitted,      \* actors that now hold the operation's permission
  snapshot,       \* HyperVManagementSnapshot rows
  clock,          \* the passing of time, as both sides measure durations
  request,        \* the exchange the Agent is waiting on
  reply,          \* its answer, once the portal has produced it
  late            \* abandoned requests the gateway may still process

jobVars == <<job, created, snapshot>>
authorityVars == <<tenantActive, permitted>>
portalVars == <<jobVars, authorityVars, clock>>
linkVars == <<request, reply, late>>

-----------------------------------------------------------------------------
(* Data. *)

NotYet == -1
Instant == Nat \cup {NotYet}

\* A provider observation: the configuration revision it saw, and when.  The
\* portal never learns readAt; it is there for the freshness property.
NoObservation == [rev |-> NotYet, readAt |-> NotYet]
Observations == [rev : Nat, readAt : Nat] \cup {NoObservation}

NoStored == [rev |-> NotYet, readAt |-> NotYet, observedAt |-> NotYet]
Stored == [rev : Nat, readAt : Nat, observedAt : Nat] \cup {NoStored}

ResultStatuses ==
  {"running", "succeeded", "failed", "requires_reconciliation"}
Results ==
  [status : ResultStatuses,
   phase : {"preflight", "observing", "reconciliation", "completed"},
   snap : Observations]
NoResult == [status |-> "none", phase |-> "none", snap |-> NoObservation]

ActiveStatuses == {"queued", "delivered", "running", "requires_reconciliation"}
TerminalStatuses == {"succeeded", "failed", "cancelled"}
ObservableStatuses == {"running", "requires_reconciliation"}
Statuses == {"absent"} \cup ActiveStatuses \cup TerminalStatuses

Rows ==
  [status : Statuses,
   expected : Instant,              \* expected_revision
   started : Instant,               \* started_at: when the grant was issued
   revoked : Instant,               \* authority_revoked_at
   result : Results \cup {NoResult}] \* what result_digest stands for
NoRow == [status |-> "absent", expected |-> NotYet, started |-> NotYet,
          revoked |-> NotYet, result |-> NoResult]

NoRequest == [action |-> "none", job |-> NoJob, result |-> NoResult]
Poll == [action |-> "poll", job |-> NoJob, result |-> NoResult]
Requests ==
  {Poll}
    \cup [action : {"lookup", "claim"}, job : Jobs, result : {NoResult}]
    \cup [action : {"result"}, job : Jobs, result : Results]

Documents ==
  [type : {"assignment", "claim"}, job : Jobs, status : Statuses,
   mode : Statuses \cup {"claim", "observe", "execute"}]
NoReply == [type |-> "none", job |-> NoJob, status |-> "absent",
            mode |-> "none"]

Document(type, j, status, mode) ==
  [type |-> type, job |-> j, status |-> status, mode |-> mode]
NoOffer == Document("assignment", NoJob, "absent", "none")
Accepted == Document("accepted", NoJob, "absent", "none")
Rejected == Document("rejected", NoJob, "absent", "none")
Replies == Documents \cup {NoOffer, Accepted, Rejected}

-----------------------------------------------------------------------------
(* Queries. *)

Active(j) == job[j].status \in ActiveStatuses
Observable(j) == job[j].status \in ObservableStatuses
Terminal(j) == job[j].status \in TerminalStatuses

\* The first active job by created_at.
Oldest(j) ==
  \E i \in DOMAIN created :
     /\ created[i] = j
     /\ Active(j)
     /\ \A k \in 1 .. i - 1 : ~Active(created[k])

\* The conflict this module owns: another active job for the same machine.
Conflict(j) == \E k \in Jobs \ {j} : Target[k] = Target[j] /\ Active(k)

\* A mutation is bound to the stored revision, observed recently enough.
SnapshotAllows(j, rev) ==
  LET stored == snapshot[Target[j]] IN
  j \in Mutations => /\ stored # NoStored
                     /\ clock - stored.observedAt <= FreshTicks
                     /\ stored.rev = rev

Authority(j) ==
  /\ job[j].revoked = NotYet
  /\ tenantActive
  /\ Requester[j] \in permitted

ExecutionChecks(j) ==
  /\ Authority(j)
  /\ ~Conflict(j)
  /\ SnapshotAllows(j, job[j].expected)

-----------------------------------------------------------------------------
(* Requests of portal users, and the withdrawal of their authority. *)

\* A repeated request_id returns the prior job and changes nothing.
CreateManagementJob(j) ==
  LET rev == IF j \in Mutations THEN snapshot[Target[j]].rev ELSE NotYet IN
  /\ tenantActive
  /\ Requester[j] \in permitted
  /\ job[j].status = "absent"
  /\ ~Conflict(j)
  /\ SnapshotAllows(j, rev)
  /\ job' = [job EXCEPT ![j].status = "queued", ![j].expected = rev]
  /\ created' = Append(created, j)
  /\ UNCHANGED <<snapshot, authorityVars, clock, linkVars>>

\* Defect: withdrawal ends granted work too.
WithdrawnThoughGranted(row) ==
  [row EXCEPT !.revoked = IF @ = NotYet THEN clock ELSE @, !.status = "cancelled"]

\* A job that was not granted ends; a granted one stays observable.
Withdrawn(row) ==
  [row EXCEPT !.revoked = IF @ = NotYet THEN clock ELSE @,
              !.status = IF @ \in {"queued", "delivered"} THEN "cancelled" ELSE @]

WithdrawManagementJobs(set) ==
  job' = [j \in Jobs |->
            IF j \in set /\ Active(j) /\ job[j].revoked = NotYet
            THEN Withdrawn(job[j]) ELSE job[j]]

SuspendTenant ==
  /\ tenantActive
  /\ tenantActive' = FALSE
  /\ WithdrawManagementJobs(Jobs)
  /\ UNCHANGED <<created, snapshot, permitted, clock, linkVars>>

\* Activation never revives cancelled work.
ReactivateTenant ==
  /\ ~tenantActive
  /\ tenantActive' = TRUE
  /\ UNCHANGED <<jobVars, permitted, clock, linkVars>>

\* A renamed user or a new password: the permission stays, the authority of
\* what was submitted before does not.
WithdrawIdentityOperations(a) ==
  /\ WithdrawManagementJobs({j \in Jobs : Requester[j] = a})
  /\ UNCHANGED <<created, snapshot, authorityVars, clock, linkVars>>

\* A membership changes: nothing is withdrawn, every check looks again.
ChangeMembership(a) ==
  /\ permitted' = IF a \in permitted THEN permitted \ {a} ELSE permitted \cup {a}
  /\ UNCHANGED <<jobVars, tenantActive, clock, linkVars>>

-----------------------------------------------------------------------------
(* The gateway processes a request the Agent waits on (live), or one whose *)
(* sender gave up: the effect is the same, the answer goes nowhere.  Two   *)
(* equal abandoned requests are one element of late, which may therefore   *)
(* be processed again.                                                     *)

Arrives(m, live) ==
  IF live THEN m = request /\ reply = NoReply ELSE m \in late

Answer(m, live, document) ==
  /\ IF live THEN reply' = document /\ UNCHANGED late
             ELSE late' \in {late, late \ {m}} /\ UNCHANGED reply
  /\ UNCHANGED <<request, created, authorityVars, clock>>

SetRow(j, row) == job' = [job EXCEPT ![j] = row]

OfferManagementJob(m, live) ==
  /\ Arrives(m, live)
  /\ m.action = "poll"
  /\ UNCHANGED snapshot
  /\ \/ /\ \A j \in Jobs : ~Active(j)
        /\ Answer(m, live, NoOffer)
        /\ UNCHANGED job
     \/ \E j \in Jobs :
          /\ Oldest(j)
          /\ Observable(j)
          /\ Answer(m, live, Document("assignment", j, job[j].status, "observe"))
          /\ UNCHANGED job
     \/ \E j \in Jobs :
          /\ Oldest(j)
          /\ ~Observable(j)
          /\ ExecutionChecks(j)
          /\ SetRow(j, [job[j] EXCEPT !.status = "delivered"])
          /\ Answer(m, live, Document("assignment", j, "delivered", "claim"))
     \/ \E j \in Jobs :
          /\ Oldest(j)
          /\ ~Observable(j)
          /\ SetRow(j, Withdrawn(job[j]))
          /\ Answer(m, live, NoOffer)

\* lookup: read-only, offers and authorizes nothing.
ManagementJobStatus(m, live) ==
  LET status == job[m.job].status IN
  /\ Arrives(m, live)
  /\ m.action = "lookup"
  /\ Answer(m, live,
       Document("assignment", m.job, status,
                IF Observable(m.job) THEN "observe" ELSE status))
  /\ UNCHANGED <<job, snapshot>>

\* The only step that grants execution.  The gateway refuses the claim of a
\* suspended Tenant, unless the suspension commits after it looked.
ClaimManagementJob(m, live) ==
  LET j == m.job IN
  /\ Arrives(m, live)
  /\ m.action = "claim"
  /\ UNCHANGED snapshot
  /\ \/ /\ Observable(j)
        /\ Answer(m, live, Document("claim", j, job[j].status, "observe"))
        /\ UNCHANGED job
     \/ /\ job[j].status = "delivered"
        /\ ExecutionChecks(j)
        /\ SetRow(j, [job[j] EXCEPT !.status = "running", !.started = clock])
        /\ Answer(m, live, Document("claim", j, "running", "execute"))
     \/ /\ job[j].status = "delivered"
        /\ SetRow(j, Withdrawn(job[j]))
        /\ Answer(m, live, Document("claim", j, "cancelled", "cancelled"))
     \/ /\ \/ ~Observable(j) /\ job[j].status # "delivered"
           \/ ~tenantActive
        /\ Answer(m, live, Rejected)
        /\ UNCHANGED job

\* Defect: the digest of a settled job is not compared.
AcceptableAgain(row, result) ==
  /\ row.status \in ObservableStatuses \cup TerminalStatuses
  /\ result.status = "succeeded" => result.snap # NoObservation

\* Defect: withdrawn work can no longer report.
AcceptableWhileAuthorized(row, result) ==
  /\ row.status \in ObservableStatuses
  /\ row.result # result
  /\ row.revoked = NotYet

\* A result is settled once: an equal one is acknowledged, another refused.
Acceptable(row, result) ==
  /\ row.status \in ObservableStatuses
  /\ row.result # result
  /\ ~(row.status = "requires_reconciliation" /\ result.status = "running")
  /\ result.status = "succeeded" => result.snap # NoObservation

\* Defect: the report's arrival is taken for the observation's time.
StoreSnapshotAsReported(j, observation) ==
  snapshot' =
    IF observation # NoObservation /\ job[j].revoked = NotYet /\ tenantActive
    THEN [snapshot EXCEPT ![Target[j]] =
            [rev |-> observation.rev, readAt |-> observation.readAt,
             observedAt |-> clock]]
    ELSE snapshot

\* The stored snapshot carries the time of the grant, not of the report.
StoreSnapshot(j, observation) ==
  snapshot' =
    IF observation # NoObservation /\ job[j].revoked = NotYet /\ tenantActive
    THEN [snapshot EXCEPT ![Target[j]] =
            [rev |-> observation.rev, readAt |-> observation.readAt,
             observedAt |-> job[j].started]]
    ELSE snapshot

RecordManagementResult(m, live) ==
  LET j == m.job IN
  /\ Arrives(m, live)
  /\ m.action = "result"
  /\ \/ /\ Acceptable(job[j], m.result)
        /\ SetRow(j, [job[j] EXCEPT !.status = m.result.status,
                                    !.result = m.result])
        /\ StoreSnapshot(j, m.result.snap)
        /\ Answer(m, live, Accepted)
     \/ /\ job[j].status \in ObservableStatuses \cup TerminalStatuses
        /\ job[j].result = m.result
        /\ Answer(m, live, Accepted)
        /\ UNCHANGED <<job, snapshot>>
     \/ /\ ~Acceptable(job[j], m.result)
        /\ job[j].result # m.result
        /\ Answer(m, live, Rejected)
        /\ UNCHANGED <<job, snapshot>>

=============================================================================
