----------------------- MODULE HyperVManagementProofs -----------------------
(***************************************************************************)
(* Theorems about HyperVManagement for any jobs, machines, users, lease    *)
(* and number of abandoned requests.                                       *)
(***************************************************************************)
EXTENDS ManagementStepProofs

\* An enrolled Agent that was never given work satisfies the invariant.
LEMMA InitOK == Init => IInv
<1> SUFFICES ASSUME Init PROVE IInv
  OBVIOUS
<1> USE DEF Init
<1>1. TypeOK
  BY DEF TypeOK, NoRow, Rows, Statuses, Instant, Stored, ProviderStates
<1>2. ExchangeOK /\ PhaseOK
  BY DEF ExchangeOK, PhaseOK, NoReply
<1>3. RowsOK
  BY DEF RowsOK, RowOK, NoRow, NotYet, ObservableStatuses
<1>4. ReportsOK /\ CallsOK
  BY DEF ReportsOK, CallsOK, NoRequest
<1>5. PollOK /\ GrantOK
  BY DEF PollOK, GrantOK, NotYet
<1> QED
  BY <1>1, <1>2, <1>3, <1>4, <1>5 DEF IInv

\* Every step of the system preserves the invariant: one case per disjunct of
\* Next.
LEMMA StepOK == IInv /\ [Next]_vars => IInv'
<1> SUFFICES ASSUME IInv, [Next]_vars PROVE IInv'
  OBVIOUS
<1>1. CASE Tick
  BY <1>1, TickStep
<1>2. CASE /\ UNCHANGED agentVars
           /\ \/ User
              \/ Gateway(request, TRUE)
              \/ \E m \in late : Gateway(m, FALSE)
  BY <1>2, PortalStep
<1>3. CASE Agent
  BY <1>3, AgentStep
<1>4. CASE CycleFails
  BY <1>4, CycleFailsStep
<1>5. CASE \E j \in Jobs : ProviderFinishes(j)
  BY <1>5, ProviderFinishesStep
<1>6. CASE UNCHANGED vars
  <2>1. UNCHANGED <<job, created, tenantActive, permitted, snapshot, clock,
                    request, reply, late, journal, pc, claimStarted,
                    provider, calls, config>>
    BY <1>6
       DEF vars, portalVars, jobVars, authorityVars, linkVars, agentVars,
           hostVars
  <2> QED
    BY <2>1, UserStep, JobsUnchanged
       DEF linkVars, agentVars, hostVars, IInv, TypeOK
<1> QED
  BY <1>1, <1>2, <1>3, <1>4, <1>5, <1>6 DEF Next

\* The invariant holds in every reachable state, whatever the portal, the
\* Agent, the provider and the network between them do.
THEOREM InvariantHolds == Spec => []IInv
BY InitOK, StepOK, PTL DEF Spec

\* Every variable keeps its type: rows, journal records, documents and reports
\* are well formed in every reachable state.
THEOREM TypeCorrect == Spec => []TypeOK
<1>1. IInv => TypeOK
  BY DEF IInv
<1> QED
  BY <1>1, InvariantHolds, PTL

\* The Agent executes the provider's method at most once for every job, across
\* crashes, lost answers and repeated grants: begin_invocation is written
\* before ExecMethod, and a record that says "invoking" is never executed
\* again.
THEOREM AtMostOnce == Spec => []ExecutedAtMostOnce
<1>1. IInv => ExecutedAtMostOnce
  BY DEF IInv, ExecutedAtMostOnce, CallsOK
<1> QED
  BY <1>1, InvariantHolds, PTL

\* What a poll returns was never executed before: offer_management_job never
\* assigns a job whose record the Agent has already replaced or archived.
THEOREM WorkIsNew == Spec => []NeverReassigned
<1>1. IInv => NeverReassigned
  BY DEF IInv, NeverReassigned, PollOK
<1> QED
  BY <1>1, InvariantHolds, PTL

\* The Agent's steps and the provider's leave the portal's tables alone, and the
\* provider's method is executed in one place.
LEMMA AgentChangesNoRow ==
  ASSUME Agent \/ CycleFails \/ Tick \/ \E j \in Jobs : ProviderFinishes(j)
  PROVE  /\ UNCHANGED <<job, snapshot>>
         /\ ExecMethod \/ UNCHANGED calls
BY DEF Agent, CycleFails, Tick, ProviderFinishes, portalVars, hostVars,
       agentVars, jobVars, BeginCycle, Acknowledged, ReceiveNoWork,
       ReceiveCancelled, ReceiveSettledOrInterrupted, ReceiveAccepted,
       SendClaim, ClaimCancelled, ClaimFenced, ClaimGranted, ClaimInspection,
       Inspect, PreflightFails, SaveIntent, IntentExpired, ExecMethod,
       ProviderRejected, ProviderApplied, ProviderStarted, AcceptanceUnknown,
       ObserveProvider, Reported, ExchangeRefused

\* The step that executes the method does so for the job of the journal, under
\* its unused grant, before the lease has run out.
LEMMA OnlyExecMethod ==
  ASSUME IInv, [Next]_vars, NEW j \in Jobs, Executes(j)
  PROVE  /\ UNCHANGED job
         /\ calls' = [calls EXCEPT ![j] = @ + 1]
         /\ Unused(j)
         /\ LeaseHeld
<1>1. UNCHANGED job /\ ExecMethod
  BY AgentChangesNoRow DEF Executes, Next, vars, agentVars, hostVars
<1>2. journal.job = j
  BY <1>1 DEF Executes, ExecMethod
<1> QED
  BY <1>1, <1>2 DEF ExecMethod, IInv, GrantOK

\* The method is executed only while its job is running by the portal's table
\* and for less than LeaseTicks after the grant was issued, although the Agent
\* measures the lease by its own clock from before the claim was sent.
THEOREM WithinGrant == Spec => ExecutionWithinGrant
<1>1. ASSUME IInv, [Next]_vars, NEW j \in Jobs, Executes(j)
      PROVE  /\ job[j].status = "running"
             /\ clock < job[j].started + LeaseTicks
  <2>1. claimStarted \in Instant /\ clock \in Nat /\ job[j].started \in Instant
    BY <1>1, OnlyExecMethod DEF IInv, TypeOK, Rows
  <2> QED
    BY <1>1, <2>1, OnlyExecMethod, TicksAssumption
       DEF Unused, LeaseHeld, Instant, NotYet
<1>2. IInv /\ [Next]_vars
        => [\A j \in Jobs : Executes(j) =>
              /\ job[j].status = "running"
              /\ clock < job[j].started + LeaseTicks]_vars
  BY <1>1
<1> QED
  BY <1>2, InvariantHolds, PTL DEF Spec, ExecutionWithinGrant

\* Once a user's or a Tenant's authority is withdrawn, the method may still be
\* executed under a grant given before, but only for less than LeaseTicks
\* after the withdrawal.
THEOREM SoonAfterWithdrawal == Spec => ExecutionSoonAfterWithdrawal
<1>1. ASSUME IInv, [Next]_vars, NEW j \in Jobs, Executes(j), job[j].revoked # NotYet
      PROVE  clock < job[j].revoked + LeaseTicks
  <2>1. /\ claimStarted \in Instant
        /\ clock \in Nat
        /\ job[j].started \in Instant
        /\ job[j].revoked \in Instant
    BY <1>1, OnlyExecMethod DEF IInv, TypeOK, Rows
  <2>2. job[j].started <= job[j].revoked
    BY <1>1 DEF IInv, RowsOK, RowOK
  <2> QED
    BY <1>1, <2>1, <2>2, OnlyExecMethod, TicksAssumption
       DEF Unused, LeaseHeld, Instant, NotYet
<1>2. IInv /\ [Next]_vars
        => [\A j \in Jobs : Executes(j) /\ job[j].revoked # NotYet =>
              clock < job[j].revoked + LeaseTicks]_vars
  BY <1>1
<1> QED
  BY <1>2, InvariantHolds, PTL DEF Spec, ExecutionSoonAfterWithdrawal

-----------------------------------------------------------------------------
(* Refinement. *)

\* The stage of the promise each status of a row stands for.
LEMMA Stages ==
  /\ StageOf("absent") = "absent"
  /\ StageOf("queued") = "waiting"
  /\ StageOf("delivered") = "waiting"
  /\ StageOf("running") = "granted"
  /\ StageOf("requires_reconciliation") = "doubtful"
  /\ StageOf("succeeded") = "settled"
  /\ StageOf("failed") = "settled"
  /\ StageOf("cancelled") = "withdrawn"
BY DEF StageOf

stages == [j \in Jobs |-> StageOf(job[j].status)]

\* The initial states are initial states of the promise.
LEMMA PromiseInit == Init => Promise!Init
BY Stages DEF Init, NoRow, Promise!Init

\* One row changes: a step of the promise, or none.
LEMMA RowMoves ==
  ASSUME TypeOK, NEW j \in Jobs, NEW row, SetRow(j, row), UNCHANGED calls,
         NEW from, from = StageOf(job[j].status),
         NEW to, to = StageOf(row.status),
         \/ to = from
         \/ from = "absent" /\ to = "waiting"
         \/ from = "waiting" /\ to \in {"granted", "withdrawn"}
         \/ from = "granted" /\ to \in {"doubtful", "settled"}
         \/ from = "doubtful" /\ to = "settled"
  PROVE  [Promise!Next]_(Promise!opVars)
<1> DEFINE new == [stages EXCEPT ![j] = to]
<1>1. stages' = new /\ stages[j] = from
  BY DEF stages, SetRow, TypeOK
<1>2. CASE to = from
  BY <1>1, <1>2 DEF Promise!opVars, stages
<1>3. CASE from = "absent" /\ to = "waiting"
  BY <1>1, <1>3 DEF Promise!Next, Promise!Request, Promise!Move, stages
<1>4. CASE from = "waiting" /\ to = "granted"
  BY <1>1, <1>4 DEF Promise!Next, Promise!Grant, Promise!Move, stages
<1>5. CASE from = "waiting" /\ to = "withdrawn"
  <2>1. Promise!Withdraw({j})
    BY <1>1, <1>5 DEF Promise!Withdraw, stages
  <2>2. {j} \in SUBSET Jobs
    OBVIOUS
  <2> QED
    BY <2>1, <2>2 DEF Promise!Next
<1>6. CASE from = "granted" /\ to = "doubtful"
  BY <1>1, <1>6 DEF Promise!Next, Promise!Doubt, Promise!Move, stages
<1>7. CASE from \in {"granted", "doubtful"} /\ to = "settled"
  BY <1>1, <1>7 DEF Promise!Next, Promise!Settle, Promise!Move, stages
<1> QED
  BY <1>2, <1>3, <1>4, <1>5, <1>6, <1>7

\* Withdrawal moves the jobs that wait, and no others.
LEMMA WithdrawalMoves ==
  ASSUME TypeOK, NEW set, WithdrawManagementJobs(set), UNCHANGED calls
  PROVE  [Promise!Next]_(Promise!opVars)
<1> DEFINE waiting == {j \in Jobs : /\ j \in set
                                    /\ job[j].status \in {"queued", "delivered"}
                                    /\ job[j].revoked = NotYet}
<1>1. \A j \in Jobs :
        job'[j].status = IF j \in waiting THEN "cancelled" ELSE job[j].status
  <2> SUFFICES ASSUME NEW j \in Jobs
               PROVE  job'[j].status =
                        IF j \in waiting THEN "cancelled" ELSE job[j].status
    OBVIOUS
  <2>1. Withdrawn(job[j]).status =
          IF job[j].status \in {"queued", "delivered"} THEN "cancelled"
          ELSE job[j].status
    BY DEF Withdrawn
  <2>2. job'[j] = IF j \in set /\ Active(j) /\ job[j].revoked = NotYet
                  THEN Withdrawn(job[j]) ELSE job[j]
    BY DEF WithdrawManagementJobs
  <2> QED
    BY <2>1, <2>2 DEF Active, ActiveStatuses
<1>2. \A j \in waiting : stages[j] = "waiting"
  BY Stages DEF stages
<1>3. stages' = [j \in Jobs |-> IF j \in waiting THEN "withdrawn" ELSE stages[j]]
  BY <1>1, Stages DEF stages
<1>4. waiting \in SUBSET Jobs
  OBVIOUS
<1>5. Promise!Withdraw(waiting)
  BY <1>2, <1>3 DEF Promise!Withdraw, stages
<1> QED
  BY <1>4, <1>5 DEF Promise!Next

\* Steps that leave the rows and the calls alone are no steps of the promise.
LEMMA PromiseStutters ==
  ASSUME UNCHANGED <<job, calls>>
  PROVE  [Promise!Next]_(Promise!opVars)
BY DEF Promise!opVars

\* Every message the gateway processes is a step of the promise, or none.
LEMMA GatewayMoves ==
  ASSUME IInv, NEW m, NEW live \in BOOLEAN, Gateway(m, live),
         UNCHANGED agentVars
  PROVE  [Promise!Next]_(Promise!opVars)
<1>1. UNCHANGED calls /\ TypeOK
  BY DEF agentVars, hostVars, IInv
<1>2. m.action # "none" /\ Arrives(m, live)
  BY DEF Gateway, OfferManagementJob, ManagementJobStatus, ClaimManagementJob,
         RecordManagementResult
<1>3. m \in Requests
  BY <1>2, RequestArrives
<1>4. ASSUME NEW j \in Jobs, SetRow(j, Withdrawn(job[j])),
             job[j].status \in {"queued", "delivered"}
      PROVE  [Promise!Next]_(Promise!opVars)
  <2>1. Withdrawn(job[j]).status = "cancelled"
    BY <1>1, <1>4 DEF Withdrawn
  <2> QED
    BY <1>1, <1>4, <2>1, RowMoves, Stages
<1>5. CASE OfferManagementJob(m, live)
  <2>1. ASSUME NEW j \in Jobs, Oldest(j), ~Observable(j),
               SetRow(j, [job[j] EXCEPT !.status = "delivered"])
        PROVE  [Promise!Next]_(Promise!opVars)
    <3> DEFINE row == [job[j] EXCEPT !.status = "delivered"]
    <3>1. row.status = "delivered" /\ job[j].status \in {"queued", "delivered"}
      BY <1>1, <2>1
         DEF Oldest, Active, ActiveStatuses, Observable, ObservableStatuses
    <3> HIDE DEF row
    <3> QED
      BY <1>1, <2>1, <3>1, RowMoves, Stages DEF row
  <2>2. ASSUME NEW j \in Jobs, Oldest(j), ~Observable(j),
               SetRow(j, Withdrawn(job[j]))
        PROVE  [Promise!Next]_(Promise!opVars)
    BY <1>4, <2>2
       DEF Oldest, Active, ActiveStatuses, Observable, ObservableStatuses
  <2> QED
    BY <1>1, <1>5, <2>1, <2>2, PromiseStutters DEF OfferManagementJob
<1>6. CASE ManagementJobStatus(m, live)
  BY <1>1, <1>6, PromiseStutters DEF ManagementJobStatus
<1>7. CASE ClaimManagementJob(m, live)
  <2> DEFINE j == m.job
  <2>1. j \in Jobs
    BY <1>3, <1>7 DEF ClaimManagementJob, Requests, Poll
  <2>2. CASE /\ job[j].status = "delivered"
             /\ SetRow(j, [job[j] EXCEPT !.status = "running",
                                         !.started = clock])
    <3> DEFINE row == [job[j] EXCEPT !.status = "running", !.started = clock]
    <3>1. row.status = "running"
      BY <1>1, <2>1
    <3> HIDE DEF row
    <3> QED
      BY <1>1, <2>1, <2>2, <3>1, RowMoves, Stages DEF row
  <2> QED
    BY <1>1, <1>4, <1>7, <2>1, <2>2, PromiseStutters DEF ClaimManagementJob
<1>8. CASE RecordManagementResult(m, live)
  <2> DEFINE j == m.job
  <2>1. j \in Jobs /\ m.result \in Results
    BY <1>3, <1>8 DEF RecordManagementResult, Requests, Poll
  <2>2. CASE /\ Acceptable(job[j], m.result)
             /\ SetRow(j, [job[j] EXCEPT !.status = m.result.status,
                                         !.result = m.result])
    <3> DEFINE row == [job[j] EXCEPT !.status = m.result.status,
                                     !.result = m.result]
    <3>1. row.status = m.result.status /\ m.result.status \in ResultStatuses
      BY <1>1, <2>1 DEF Results
    <3>2. /\ job[j].status \in ObservableStatuses
          /\ ~(/\ job[j].status = "requires_reconciliation"
               /\ m.result.status = "running")
      BY <2>2 DEF Acceptable
    <3>3. SetRow(j, row)
      BY <2>2
    <3> HIDE DEF row
    <3>4. \/ StageOf(row.status) = StageOf(job[j].status)
          \/ /\ StageOf(job[j].status) = "granted"
             /\ StageOf(row.status) \in {"doubtful", "settled"}
          \/ /\ StageOf(job[j].status) = "doubtful"
             /\ StageOf(row.status) = "settled"
      BY <3>1, <3>2, Stages DEF ResultStatuses, ObservableStatuses
    <3> QED
      BY <1>1, <2>1, <3>3, <3>4, RowMoves
  <2> QED
    BY <1>1, <1>8, <2>1, <2>2, PromiseStutters DEF RecordManagementResult
<1> QED
  BY <1>5, <1>6, <1>7, <1>8 DEF Gateway

\* Every step of a user is a step of the promise, or none.
LEMMA UserMoves ==
  ASSUME IInv, User, UNCHANGED agentVars
  PROVE  [Promise!Next]_(Promise!opVars)
<1>1. UNCHANGED calls /\ TypeOK
  BY DEF agentVars, hostVars, IInv
<1>2. ASSUME NEW j \in Jobs, CreateManagementJob(j)
      PROVE  [Promise!Next]_(Promise!opVars)
  <2>1. PICK rev \in Instant :
           SetRow(j, [job[j] EXCEPT !.status = "queued", !.expected = rev])
    BY <1>2, CreateSetsRow
  <2> DEFINE row == [job[j] EXCEPT !.status = "queued", !.expected = rev]
  <2>2. row.status = "queued" /\ job[j].status = "absent"
    BY <1>1, <1>2 DEF CreateManagementJob
  <2> HIDE DEF row
  <2> QED
    BY <1>1, <2>1, <2>2, RowMoves, Stages DEF row
<1>3. CASE SuspendTenant \/ \E a \in Actors : WithdrawIdentityOperations(a)
  BY <1>1, <1>3, WithdrawalMoves DEF SuspendTenant, WithdrawIdentityOperations
<1>4. CASE ReactivateTenant \/ \E a \in Actors : ChangeMembership(a)
  BY <1>1, <1>4, PromiseStutters DEF ReactivateTenant, ChangeMembership, jobVars
<1> QED
  BY <1>2, <1>3, <1>4 DEF User

\* The execution of the method is the promise's single execution of a granted
\* job.
LEMMA ExecutionMoves ==
  ASSUME IInv, UNCHANGED job, ExecMethod
  PROVE  [Promise!Next]_(Promise!opVars)
<1> DEFINE j == journal.job
<1>1. j \in Jobs /\ Unused(j)
  BY DEF ExecMethod, IInv, TypeOK, PhaseOK, GrantOK, Journals
<1>2. calls' = [calls EXCEPT ![j] = 1] /\ stages[j] = "granted"
  BY <1>1, Stages DEF ExecMethod, Unused, stages
<1>3. Promise!Execute(j)
  BY <1>1, <1>2 DEF Promise!Execute, Unused, stages
<1> QED
  BY <1>1, <1>3 DEF Promise!Next

\* The portal, the Agent and the link between them implement ManagedOperation:
\* a job is requested, granted or withdrawn, executed at most once while
\* granted, and settled once.
THEOREM Implements == Spec => ImplementsManagedOperation
<1>1. IInv /\ [Next]_vars => [Promise!Next]_(Promise!opVars)
  <2> SUFFICES ASSUME IInv, [Next]_vars PROVE [Promise!Next]_(Promise!opVars)
    OBVIOUS
  <2>1. CASE User /\ UNCHANGED agentVars
    BY <2>1, UserMoves
  <2>2. CASE UNCHANGED agentVars /\ \E m \in late : Gateway(m, FALSE)
    BY <2>2, GatewayMoves
  <2>3. CASE UNCHANGED agentVars /\ Gateway(request, TRUE)
    BY <2>3, GatewayMoves
  <2>4. CASE Agent \/ CycleFails \/ Tick \/ \E j \in Jobs : ProviderFinishes(j)
    BY <2>4, AgentChangesNoRow, ExecutionMoves, PromiseStutters
  <2>5. CASE UNCHANGED vars
    BY <2>5, PromiseStutters DEF vars, portalVars, jobVars, agentVars, hostVars
  <2> QED
    BY <2>1, <2>2, <2>3, <2>4, <2>5 DEF Next
<1> QED
  BY <1>1, PromiseInit, InvariantHolds, PTL
     DEF Spec, ImplementsManagedOperation, Promise!Spec

-----------------------------------------------------------------------------
(* What is told: OutcomeInv is inductive beside IInv.                      *)

\* How a row may change in every step of the portal but the recording of a
\* result.
Quiet(j) ==
  /\ job'[j].result = job[j].result
  /\ job'[j].status \in {"succeeded", "failed", "requires_reconciliation"}
       => job'[j].status = job[j].status
  /\ Settled(j) => job'[j].status = job[j].status
  /\ Granted(j) =>
       /\ Granted(j)'
       /\ job'[j].started = job[j].started
       /\ job'[j].expected = job[j].expected
  /\ Observable(j)' => Observable(j) \/ job'[j].started = clock

NoneNew == \A j \in Jobs : Active(j)' => Active(j)

\* One row is saved, and the others are as they were.
LEMMA RowSet ==
  ASSUME IInv, NEW j \in Jobs, NEW row, SetRow(j, row)
  PROVE  /\ job'[j] = row
         /\ \A k \in Jobs \ {j} : job'[k] = job[k]
BY DEF SetRow, IInv, TypeOK

\* A row that stays as it is.
LEMMA SameIsQuiet ==
  ASSUME NEW j \in Jobs, job'[j] = job[j]
  PROVE  Quiet(j) /\ (Active(j)' => Active(j))
BY DEF Quiet, Settled, Granted, Observable, Active

\* Withdrawal ends what is queued or delivered and marks the rest.
LEMMA WithdrawnIsQuiet ==
  ASSUME IInv, NEW j \in Jobs, job'[j] = Withdrawn(job[j])
  PROVE  Quiet(j) /\ (Active(j)' => Active(j))
<1>1. job[j] \in Rows
  BY DEF IInv, TypeOK
<1>2. /\ job'[j].result = job[j].result
      /\ job'[j].started = job[j].started
      /\ job'[j].expected = job[j].expected
      /\ job'[j].status = IF job[j].status \in {"queued", "delivered"}
                          THEN "cancelled" ELSE job[j].status
  BY <1>1 DEF Withdrawn, Rows
<1> QED
  BY <1>2
     DEF Quiet, Settled, Granted, Observable, ObservableStatuses, Active,
         ActiveStatuses

\* A queued job is delivered, and a delivered one granted now.
LEMMA ServedIsQuiet ==
  ASSUME IInv, NEW j \in Jobs, job[j].status \in {"queued", "delivered"},
         \/ job'[j] = [job[j] EXCEPT !.status = "delivered"]
         \/ job'[j] = [job[j] EXCEPT !.status = "running", !.started = clock]
  PROVE  Quiet(j) /\ (Active(j)' => Active(j))
<1>1. job[j] \in Rows
  BY DEF IInv, TypeOK
<1>2. /\ job'[j].result = job[j].result
      /\ \/ job'[j].status = "delivered"
         \/ job'[j].status = "running" /\ job'[j].started = clock
  BY <1>1 DEF Rows
<1> QED
  BY <1>2
     DEF Quiet, Settled, Granted, Observable, ObservableStatuses, Active,
         ActiveStatuses

\* What does not come up for a machine leaves it with one active job.
LEMMA NoneNewApart ==
  ASSUME OutcomeInv, NoneNew PROVE MachinesOK'
BY DEF OutcomeInv, MachinesOK, NoneNew

\* A step of the portal in which every row stays quiet: what is told stays
\* true, and the Agent gets an answer it can use.
LEMMA QuietStep ==
  ASSUME IInv, IInv', OutcomeInv, \A j \in Jobs : Quiet(j), MachinesOK',
         UNCHANGED <<agentVars, request, snapshot, clock>>,
         late' \subseteq late,
         reply' # reply =>
           /\ pc \in {"acknowledging", "reporting"} => reply'.type # "rejected"
           /\ pc = "polling" /\ reply'.job # NoJob => ~Settled(reply'.job)
           /\ pc = "claiming" /\ reply'.type = "claim"
                /\ reply'.mode # "cancelled" => Granted(journal.job)'
  PROVE  OutcomeInv'
<1> USE DEF OutcomeInv, agentVars, hostVars
<1>1. /\ journal # NoJournal => journal.job \in Jobs
      /\ reply.job # NoJob => reply.job \in Jobs
      /\ reply'.job # NoJob => reply'.job \in Jobs
      /\ pc \in {"claiming", "inspecting", "invoking"} => journal # NoJournal
      /\ journal.phase \in Phases => journal # NoJournal
  BY JobsAssumption
     DEF IInv, TypeOK, PhaseOK, Journals, Replies, Documents, NoReply,
         NoOffer, Accepted, Rejected, Document, NoJournal, Phases
<1>2. \A j \in Jobs : /\ Granted(j) => Granted(j)'
                      /\ Settled(j)' <=> Settled(j)
  BY DEF Quiet, Settled
<1>3. ASSUME NEW j \in Jobs, NEW result, ResultOK(j, result)
      PROVE  ResultOK(j, result)'
  BY <1>2, <1>3 DEF ResultOK, Told, Quiet
<1>4. MessagesOK'
  <2> SUFFICES ASSUME NEW m \in late \cup {request}, m.action = "result"
               PROVE  /\ ResultOK(m.job, m.result)'
                      /\ FinalOK(m.job, m.result)'
                      /\ m.result.status = "requires_reconciliation" =>
                           Holds(m.job, {"requires_reconciliation"})'
    BY DEF MessagesOK
  <2>1. m.job \in Jobs
    BY DEF IInv, TypeOK, Requests, NoRequest, Poll
  <2> QED
    BY <1>2, <1>3, <2>1 DEF MessagesOK, FinalOK, Holds, Quiet
<1>5. RecordsOK'
  BY <1>1, <1>2, <1>3 DEF RecordsOK, Quiet, Phases
<1>6. TableOK'
  BY DEF TableOK, Told, Quiet, Holds
<1>7. KnownOK'
  <2>1. pc = "invoking" => RevisionConfirmed(journal.job)'
    BY <1>1
       DEF KnownOK, RevisionConfirmed, IInv, GrantOK, Unused, Quiet, Granted
  <2> QED
    BY <1>1, <1>2, <2>1 DEF KnownOK
<1>8. ProviderOK'
  BY DEF ProviderOK
<1>9. SnapshotsOK'
  BY JobsAssumption
     DEF SnapshotsOK, Quiet, Granted, Observable, ObservableStatuses
<1>10. SnapshotConservative' /\ NoReportRefused'
  BY DEF SnapshotConservative, NoReportRefused
<1> QED
  BY <1>4, <1>5, <1>6, <1>7, <1>8, <1>9, <1>10

\* Which answer the Agent may be waiting for.
LEMMA WaitsFor ==
  ASSUME IInv, NEW m, NEW live \in BOOLEAN, NEW document,
         Arrives(m, live), Answer(m, live, document), reply' # reply
  PROVE  /\ reply' = document
         /\ pc = "polling" => m.action = "poll"
         /\ pc = "claiming" => m.action = "claim" /\ journal.job = m.job
         /\ pc \in {"acknowledging", "reporting"} => m.action = "result"
BY DEF Arrives, Answer, IInv, ExchangeOK, Poll

\* Users' steps withdraw, create or change nothing that is told.
LEMMA UserTells ==
  ASSUME IInv, IInv', OutcomeInv, User, UNCHANGED agentVars
  PROVE  OutcomeInv'
<1>1. ASSUME NEW set, WithdrawManagementJobs(set),
             UNCHANGED <<snapshot, clock, linkVars>>
      PROVE  OutcomeInv'
  <2>1. \A j \in Jobs : job'[j] = job[j] \/ job'[j] = Withdrawn(job[j])
    BY <1>1 DEF WithdrawManagementJobs
  <2>2. \A j \in Jobs : Quiet(j) /\ (Active(j)' => Active(j))
    BY <2>1, SameIsQuiet, WithdrawnIsQuiet
  <2> QED
    BY <1>1, <2>2, NoneNewApart, QuietStep DEF NoneNew, linkVars
<1>2. ASSUME NEW j \in Jobs, CreateManagementJob(j)
      PROVE  OutcomeInv'
  <2>1. PICK rev \in Instant :
           SetRow(j, [job[j] EXCEPT !.status = "queued", !.expected = rev])
    BY <1>2, CreateSetsRow
  <2>2. job[j] \in Rows /\ job[j].status = "absent"
    BY <1>2 DEF CreateManagementJob, IInv, TypeOK
  <2>3. /\ job'[j].status = "queued"
        /\ job'[j].result = job[j].result
        /\ \A k \in Jobs \ {j} : job'[k] = job[k]
    <3> DEFINE row == [job[j] EXCEPT !.status = "queued", !.expected = rev]
    <3>1. row.status = "queued" /\ row.result = job[j].result
      BY <2>2 DEF Rows
    <3> HIDE DEF row
    <3>2. job'[j] = row /\ \A k \in Jobs \ {j} : job'[k] = job[k]
      BY <2>1, RowSet DEF row
    <3> QED
      BY <3>1, <3>2
  <2>4. \A k \in Jobs : Quiet(k)
    <3>1. Quiet(j)
      BY <2>2, <2>3
         DEF Quiet, Settled, Granted, Observable, ObservableStatuses
    <3> QED
      BY <2>3, <3>1, SameIsQuiet
  <2>5. MachinesOK'
    <3>1. \A k \in Jobs \ {j} : Target[k] = Target[j] => ~Active(k)'
      BY <1>2, <2>3 DEF CreateManagementJob, Conflict, Active
    <3>2. \A k \in Jobs \ {j} : Active(k)' <=> Active(k)
      BY <2>3 DEF Active
    <3> QED
      BY <3>1, <3>2 DEF OutcomeInv, MachinesOK
  <2> QED
    BY <1>2, <2>4, <2>5, QuietStep DEF CreateManagementJob, linkVars
<1>3. ASSUME UNCHANGED <<jobVars, clock, linkVars>> PROVE OutcomeInv'
  <2>1. \A j \in Jobs : Quiet(j) /\ (Active(j)' => Active(j))
    BY <1>3, SameIsQuiet DEF jobVars
  <2> QED
    BY <1>3, <2>1, NoneNewApart, QuietStep DEF NoneNew, linkVars, jobVars
<1> QED
  BY <1>1, <1>2, <1>3
     DEF User, SuspendTenant, ReactivateTenant, WithdrawIdentityOperations,
         ChangeMembership, authorityVars

\* A poll offers what is not settled.
LEMMA OfferTells ==
  ASSUME IInv, IInv', OutcomeInv, NEW m, NEW live \in BOOLEAN,
         OfferManagementJob(m, live), UNCHANGED agentVars
  PROVE  OutcomeInv'
<1>1. /\ Arrives(m, live)
      /\ m.action = "poll"
      /\ UNCHANGED <<snapshot, clock, request>>
      /\ late' \subseteq late
  BY DEF OfferManagementJob, Answer
<1>2. ASSUME NEW document, Answer(m, live, document), reply' # reply
      PROVE  /\ reply' = document
             /\ pc \notin {"acknowledging", "reporting", "claiming"}
  BY <1>1, <1>2, WaitsFor
<1>3. ASSUME NEW j \in Jobs, Oldest(j)
      PROVE  Active(j) /\ ~Settled(j)
  BY <1>3 DEF Oldest, Active, ActiveStatuses, Settled
<1>4. NoOffer.job = NoJob
  BY DEF NoOffer, Document
<1>5. CASE Answer(m, live, NoOffer) /\ UNCHANGED job
  <2>1. \A j \in Jobs : Quiet(j) /\ (Active(j)' => Active(j))
    BY <1>5, SameIsQuiet
  <2> QED
    BY <1>1, <1>2, <1>4, <1>5, <2>1, NoneNewApart, QuietStep DEF NoneNew
<1>6. ASSUME NEW j \in Jobs, Oldest(j), Observable(j), UNCHANGED job,
             Answer(m, live, Document("assignment", j, job[j].status, "observe"))
      PROVE  OutcomeInv'
  <2>1. \A k \in Jobs : Quiet(k) /\ (Active(k)' => Active(k))
    BY <1>6, SameIsQuiet
  <2>2. reply' # reply => reply'.job = j
    BY <1>2, <1>6 DEF Document
  <2> QED
    BY <1>1, <1>2, <1>3, <1>6, <2>1, <2>2, NoneNewApart, QuietStep DEF NoneNew
<1>7. ASSUME NEW j \in Jobs, Oldest(j), ~Observable(j),
             SetRow(j, [job[j] EXCEPT !.status = "delivered"]),
             Answer(m, live, Document("assignment", j, "delivered", "claim"))
      PROVE  OutcomeInv'
  <2>1. job[j].status \in {"queued", "delivered"}
    BY <1>7 DEF Oldest, Active, ActiveStatuses, Observable, ObservableStatuses
  <2>2. /\ job'[j] = [job[j] EXCEPT !.status = "delivered"]
        /\ \A k \in Jobs \ {j} : job'[k] = job[k]
    BY <1>7, RowSet
  <2>3. \A k \in Jobs : Quiet(k) /\ (Active(k)' => Active(k))
    BY <2>1, <2>2, ServedIsQuiet, SameIsQuiet
  <2>4. reply' # reply => reply'.job = j
    BY <1>2, <1>7 DEF Document
  <2> QED
    BY <1>1, <1>2, <1>3, <1>7, <2>3, <2>4, NoneNewApart, QuietStep DEF NoneNew
<1>8. ASSUME NEW j \in Jobs, Oldest(j), ~Observable(j),
             SetRow(j, Withdrawn(job[j])), Answer(m, live, NoOffer)
      PROVE  OutcomeInv'
  <2>1. /\ job'[j] = Withdrawn(job[j])
        /\ \A k \in Jobs \ {j} : job'[k] = job[k]
    BY <1>8, RowSet
  <2>2. \A k \in Jobs : Quiet(k) /\ (Active(k)' => Active(k))
    BY <2>1, WithdrawnIsQuiet, SameIsQuiet
  <2> QED
    BY <1>1, <1>2, <1>4, <1>8, <2>2, NoneNewApart, QuietStep DEF NoneNew
<1> QED
  BY <1>5, <1>6, <1>7, <1>8 DEF OfferManagementJob

\* A lookup changes nothing.
LEMMA StatusTells ==
  ASSUME IInv, IInv', OutcomeInv, NEW m, NEW live \in BOOLEAN,
         ManagementJobStatus(m, live), UNCHANGED agentVars
  PROVE  OutcomeInv'
<1>1. /\ Arrives(m, live)
      /\ m.action = "lookup"
      /\ UNCHANGED <<job, snapshot>>
  BY DEF ManagementJobStatus
<1>2. PICK document : Answer(m, live, document)
  BY DEF ManagementJobStatus
<1>3. UNCHANGED <<clock, request>> /\ late' \subseteq late
  BY <1>2 DEF Answer
<1>4. reply' # reply =>
        pc \notin {"acknowledging", "reporting", "claiming", "polling"}
  BY <1>1, <1>2, WaitsFor
<1>5. \A j \in Jobs : Quiet(j) /\ (Active(j)' => Active(j))
  BY <1>1, SameIsQuiet
<1> QED
  BY <1>1, <1>3, <1>4, <1>5, NoneNewApart, QuietStep DEF NoneNew

\* Who is told to execute or to observe holds a granted job.
LEMMA ClaimTells ==
  ASSUME IInv, IInv', OutcomeInv, NEW m, NEW live \in BOOLEAN,
         ClaimManagementJob(m, live), UNCHANGED agentVars
  PROVE  OutcomeInv'
<1> DEFINE j == m.job
<1>1. Arrives(m, live) /\ m.action = "claim" /\ UNCHANGED snapshot
  BY DEF ClaimManagementJob
<1>2. j \in Jobs
  BY <1>1, RequestArrives DEF Requests, Poll
<1>3. ASSUME NEW document, Answer(m, live, document)
      PROVE  /\ UNCHANGED <<clock, request>>
             /\ late' \subseteq late
             /\ reply' # reply =>
                  /\ reply' = document
                  /\ pc \notin {"acknowledging", "reporting", "polling"}
                  /\ pc = "claiming" => journal.job = j
  BY <1>1, <1>3, WaitsFor DEF Answer
<1>0. UNCHANGED journal
  BY DEF agentVars
<1> HIDE DEF j
<1>4. CASE Observable(j) /\ UNCHANGED job
           /\ Answer(m, live, Document("claim", j, job[j].status, "observe"))
  <2>1. \A k \in Jobs : Quiet(k) /\ (Active(k)' => Active(k))
    BY <1>4, SameIsQuiet
  <2>2. Granted(j)'
    BY <1>4 DEF Observable, ObservableStatuses, Granted
  <2> QED
    BY <1>0, <1>1, <1>3, <1>4, <2>1, <2>2, NoneNewApart, QuietStep DEF NoneNew
<1>5. CASE /\ job[j].status = "delivered"
           /\ SetRow(j, [job[j] EXCEPT !.status = "running", !.started = clock])
           /\ Answer(m, live, Document("claim", j, "running", "execute"))
  <2>1. /\ job'[j] = [job[j] EXCEPT !.status = "running", !.started = clock]
        /\ \A k \in Jobs \ {j} : job'[k] = job[k]
    BY <1>2, <1>5, RowSet
  <2>2. \A k \in Jobs : Quiet(k) /\ (Active(k)' => Active(k))
    BY <1>2, <1>5, <2>1, ServedIsQuiet, SameIsQuiet
  <2>3. job[j] \in Rows
    BY <1>2 DEF IInv, TypeOK
  <2>4. Granted(j)'
    BY <2>1, <2>3 DEF Granted, Rows
  <2> QED
    BY <1>0, <1>1, <1>3, <1>5, <2>2, <2>4, NoneNewApart, QuietStep DEF NoneNew
<1>6. CASE /\ job[j].status = "delivered"
           /\ SetRow(j, Withdrawn(job[j]))
           /\ Answer(m, live, Document("claim", j, "cancelled", "cancelled"))
  <2>1. /\ job'[j] = Withdrawn(job[j])
        /\ \A k \in Jobs \ {j} : job'[k] = job[k]
    BY <1>2, <1>6, RowSet
  <2>2. \A k \in Jobs : Quiet(k) /\ (Active(k)' => Active(k))
    BY <1>2, <2>1, WithdrawnIsQuiet, SameIsQuiet
  <2>3. reply' # reply => reply'.mode = "cancelled"
    BY <1>3, <1>6 DEF Document
  <2> QED
    BY <1>1, <1>3, <1>6, <2>2, <2>3, NoneNewApart, QuietStep DEF NoneNew
<1>7. CASE Answer(m, live, Rejected) /\ UNCHANGED job
  <2>1. \A k \in Jobs : Quiet(k) /\ (Active(k)' => Active(k))
    BY <1>7, SameIsQuiet
  <2>2. reply' # reply => reply'.type = "rejected"
    BY <1>3, <1>7 DEF Rejected, Document
  <2> QED
    BY <1>1, <1>3, <1>7, <2>1, <2>2, NoneNewApart, QuietStep DEF NoneNew
<1> QED
  BY <1>4, <1>5, <1>6, <1>7 DEF ClaimManagementJob, j

\* What a report finds at the portal: the job was granted, and unless it is
\* settled a final report is what the Agent has on record.
LEMMA ReportFinds ==
  ASSUME IInv, OutcomeInv, NEW m, NEW live \in BOOLEAN,
         RecordManagementResult(m, live)
  PROVE  /\ m \in late \cup {request}
         /\ m.job \in Jobs
         /\ m.result \in Results
         /\ ResultOK(m.job, m.result)
         /\ FinalOK(m.job, m.result)
         /\ m.result.status = "requires_reconciliation" =>
              Holds(m.job, {"requires_reconciliation"})
<1>1. Arrives(m, live) /\ m.action = "result"
  BY DEF RecordManagementResult
<1>2. m \in Requests /\ m \in late \cup {request}
  BY <1>1, RequestArrives
<1> QED
  BY <1>1, <1>2 DEF OutcomeInv, MessagesOK, Requests, Poll

\* The Agent gets no refusal: what it reports is new for an open job, or what
\* the job was settled with.
LEMMA ReportTaken ==
  ASSUME IInv, OutcomeInv, NEW m, NEW live \in BOOLEAN,
         RecordManagementResult(m, live), m = request,
         pc \in {"acknowledging", "reporting"}, job[m.job].result # m.result
  PROVE  Acceptable(job[m.job], m.result)
<1> DEFINE j == m.job
<1>1. /\ j \in Jobs /\ j = journal.job
      /\ m.result.status \in ResultStatuses
      /\ ResultOK(j, m.result)
      /\ FinalOK(j, m.result)
      /\ m.result.status = "requires_reconciliation" =>
           Holds(j, {"requires_reconciliation"})
  BY ReportFinds DEF IInv, ExchangeOK, Results
<1>2. m.result.status = "running" => journal.phase = "observing"
  <2>1. pc = "acknowledging" => m.result.status \in {"succeeded", "failed"}
    BY DEF IInv, ExchangeOK, PhaseOK, TypeOK, Journals, FinalResults
  <2> QED
    BY <2>1 DEF OutcomeInv, KnownOK
<1>3. ~Settled(j)
  <2>1. CASE m.result.status \in {"running", "requires_reconciliation"}
    BY <1>1, <1>2, <2>1 DEF OutcomeInv, RecordsOK, Phases, Holds
  <2>2. CASE m.result.status \in {"succeeded", "failed"}
    BY <1>1, <2>2 DEF OutcomeInv, RecordsOK, FinalOK, Holds
  <2> QED
    BY <1>1, <2>1, <2>2 DEF ResultStatuses
<1>4. job[j].status \in ObservableStatuses
  BY <1>1, <1>3 DEF ResultOK, Granted, ObservableStatuses
<1>5. ~(job[j].status = "requires_reconciliation" /\ m.result.status = "running")
  BY <1>1, <1>2 DEF OutcomeInv, TableOK, Holds
<1>6. m.result.status = "succeeded" => m.result.snap # NoObservation
  BY <1>1 DEF ResultOK
<1> QED
  BY <1>4, <1>5, <1>6 DEF Acceptable

\* The result of an open job is recorded, with the snapshot it carries.
LEMMA ResultTells ==
  ASSUME IInv, IInv', OutcomeInv, NEW m, NEW live \in BOOLEAN,
         RecordManagementResult(m, live), UNCHANGED agentVars,
         Acceptable(job[m.job], m.result),
         SetRow(m.job, [job[m.job] EXCEPT !.status = m.result.status,
                                          !.result = m.result]),
         StoreSnapshot(m.job, m.result.snap), Answer(m, live, Accepted)
  PROVE  OutcomeInv'
<1> DEFINE j == m.job
<1> DEFINE r == m.result
<1> DEFINE row == [job[j] EXCEPT !.status = r.status, !.result = r]
<1>1. /\ j \in Jobs
      /\ r \in Results
      /\ ResultOK(j, r)
      /\ FinalOK(j, r)
      /\ r.status = "requires_reconciliation" =>
           Holds(j, {"requires_reconciliation"})
  BY ReportFinds
<1>2. /\ job[j] \in Rows
      /\ job[j].status \in {"running", "requires_reconciliation"}
  BY <1>1 DEF IInv, TypeOK, Acceptable, ObservableStatuses
<1>3. /\ row.status = r.status
      /\ row.result = r
      /\ row.started = job[j].started
      /\ row.expected = job[j].expected
  BY <1>2 DEF Rows
<1>4. /\ job'[j] = row
      /\ \A k \in Jobs \ {j} : job'[k] = job[k]
  BY <1>1, RowSet
<1>5. /\ UNCHANGED <<clock, request, journal, pc, provider, calls, config>>
      /\ late' \subseteq late
      /\ reply' = Accepted \/ reply' = reply
  BY DEF Answer, agentVars, hostVars
<1>6. /\ Accepted.job = NoJob
      /\ Accepted.mode = "none"
      /\ Accepted.type = "accepted"
  BY DEF Accepted, Document
<1>7. StoreSnapshot(j, r.snap) /\ r.status \in ResultStatuses
  BY <1>1 DEF Results
<1> HIDE DEF j, r, row
<1>8. r.status \in {"succeeded", "failed"} =>
        Holds(j, {"terminal"}) /\ journal.result = r
  BY <1>1, <1>2 DEF FinalOK, Settled
<1>9. /\ Granted(j) /\ Granted(j)' /\ ~Settled(j)
      /\ Settled(j)' => r.status \in {"succeeded", "failed"}
      /\ Active(j) /\ (Observable(j)' => Observable(j))
  BY <1>2, <1>3, <1>4, <1>7
     DEF Granted, Settled, Active, ActiveStatuses, Observable,
         ObservableStatuses, ResultStatuses
<1>10. \A k \in Jobs : Granted(k) => Granted(k)' /\ job'[k].started = job[k].started
                                     /\ job'[k].expected = job[k].expected
  BY <1>3, <1>4, <1>9 DEF Granted, Settled
<1>11. ASSUME NEW k \in Jobs, NEW result, ResultOK(k, result)
       PROVE  ResultOK(k, result)'
  BY <1>5, <1>10, <1>11 DEF ResultOK, Told
<1>12. /\ journal.phase \in Phases => journal.job \in Jobs
       /\ pc \in {"claiming", "inspecting", "invoking"} => journal.job \in Jobs
       /\ reply.job # NoJob => reply.job \in Jobs
  BY DEF IInv, TypeOK, PhaseOK, Journals, Replies, Documents, NoReply, NoOffer,
         Accepted, Rejected, Document, NoJournal, Phases
<1>13. MessagesOK'
  <2> SUFFICES ASSUME NEW n \in late \cup {request}, n.action = "result"
               PROVE  /\ ResultOK(n.job, n.result)'
                      /\ FinalOK(n.job, n.result)'
                      /\ n.result.status = "requires_reconciliation" =>
                           Holds(n.job, {"requires_reconciliation"})'
    BY <1>5 DEF MessagesOK
  <2>1. n.job \in Jobs
    BY DEF IInv, TypeOK, Requests, NoRequest, Poll
  <2>2. /\ ResultOK(n.job, n.result)
        /\ FinalOK(n.job, n.result)
        /\ n.result.status = "requires_reconciliation" =>
             Holds(n.job, {"requires_reconciliation"})
    BY DEF OutcomeInv, MessagesOK
  <2>3. FinalOK(n.job, n.result)'
    BY <1>4, <1>5, <1>9, <2>1, <2>2 DEF FinalOK, Holds, Settled
  <2> QED
    BY <1>5, <1>11, <2>1, <2>2, <2>3 DEF Holds
<1>14. RecordsOK'
  <2>1. journal.phase \in Phases \ {"terminal"} => ~Settled(journal.job)'
    BY <1>4, <1>5, <1>8, <1>9, <1>12 DEF OutcomeInv, RecordsOK, Settled, Holds
  <2>2. journal.phase = "terminal" /\ Settled(journal.job)' =>
          job'[journal.job].result = journal.result
    BY <1>3, <1>4, <1>5, <1>8, <1>9, <1>12
       DEF OutcomeInv, RecordsOK, Settled, Holds, Phases
  <2> QED
    BY <1>5, <1>10, <1>11, <1>12, <2>1, <2>2 DEF OutcomeInv, RecordsOK, Phases
<1>15. TableOK'
  BY <1>1, <1>3, <1>4, <1>5 DEF OutcomeInv, TableOK, ResultOK, Told, Holds
<1>16. KnownOK'
  <2>1. (pc = "polling" /\ reply.job # NoJob => ~Settled(reply.job))'
    <3>1. pc = "polling" /\ Holds(j, {"terminal"}) => Terminal(j)
      BY DEF IInv, PollOK, Holds, NoJournal
    <3>2. ~Terminal(j)
      BY <1>2 DEF Terminal, TerminalStatuses
    <3> QED
      BY <1>4, <1>5, <1>6, <1>8, <1>9, <1>12, <3>1, <3>2
         DEF OutcomeInv, KnownOK, Settled
  <2>2. pc = "invoking" => Granted(journal.job)
    BY DEF IInv, GrantOK, Unused, Granted
  <2>3. pc = "invoking" => RevisionConfirmed(journal.job)'
    BY <1>5, <1>10, <1>12, <2>2 DEF OutcomeInv, KnownOK, RevisionConfirmed
  <2> QED
    BY <1>5, <1>6, <1>10, <1>12, <2>1, <2>3 DEF OutcomeInv, KnownOK
<1>17. ProviderOK'
  BY <1>5 DEF OutcomeInv, ProviderOK
<1>18. MachinesOK'
  BY <1>4, <1>9 DEF OutcomeInv, MachinesOK, Active
<1>19. SnapshotsOK' /\ SnapshotConservative'
  <2>1. CASE UNCHANGED snapshot
    <3>1. SnapshotsOK'
      BY <1>3, <1>4, <1>5, <1>9, <2>1, JobsAssumption
         DEF OutcomeInv, SnapshotsOK, Observable
    <3> QED
      BY <2>1, <3>1 DEF OutcomeInv, SnapshotConservative
  <2>2. CASE /\ r.snap # NoObservation
             /\ snapshot' = [snapshot EXCEPT ![Target[j]] =
                  [rev |-> r.snap.rev, readAt |-> r.snap.readAt,
                   observedAt |-> job[j].started]]
    <3>1. /\ job[j].started <= r.snap.readAt
          /\ r.snap.readAt <= clock
          /\ r.status = "succeeded"
      BY <1>1, <2>2 DEF ResultOK
    <3>2. \A v \in VMs : v # Target[j] => snapshot'[v] = snapshot[v]
      BY <2>2 DEF IInv, TypeOK
    <3>3. /\ snapshot'[Target[j]].readAt = r.snap.readAt
          /\ snapshot'[Target[j]].observedAt = job[j].started
      BY <1>1, <2>2, JobsAssumption DEF IInv, TypeOK
    <3>4. \A k \in Jobs : Target[k] = Target[j] => ~Observable(k)'
      <4>1. ~Observable(j)'
        BY <1>3, <1>4, <3>1 DEF Observable, ObservableStatuses
      <4>2. \A k \in Jobs \ {j} : Target[k] = Target[j] => ~Active(k)
        BY <1>1, <1>9 DEF OutcomeInv, MachinesOK
      <4> QED
        BY <1>4, <4>1, <4>2
           DEF Active, ActiveStatuses, Observable, ObservableStatuses
    <3>5. SnapshotsOK'
      BY <1>3, <1>4, <1>5, <1>9, <3>1, <3>2, <3>3, <3>4, JobsAssumption
         DEF OutcomeInv, SnapshotsOK, Observable
    <3>6. SnapshotConservative'
      BY <3>1, <3>2, <3>3 DEF OutcomeInv, SnapshotConservative
    <3> QED
      BY <3>5, <3>6
  <2> QED
    BY <1>7, <2>1, <2>2 DEF StoreSnapshot
<1>20. NoReportRefused'
  BY <1>5, <1>6 DEF OutcomeInv, NoReportRefused
<1> QED
  BY <1>13, <1>14, <1>15, <1>16, <1>17, <1>18, <1>19, <1>20 DEF OutcomeInv

\* Recording a result, acknowledging its repetition or refusing another keeps
\* what is told true.
LEMMA RecordTells ==
  ASSUME IInv, IInv', OutcomeInv, NEW m, NEW live \in BOOLEAN,
         RecordManagementResult(m, live), UNCHANGED agentVars
  PROVE  OutcomeInv'
<1>1. ASSUME NEW document, Answer(m, live, document), UNCHANGED <<job, snapshot>>,
             document.job = NoJob, document.type # "claim",
             live /\ m = request /\ pc \in {"acknowledging", "reporting"} =>
               document.type # "rejected"
      PROVE  OutcomeInv'
  <2>1. \A j \in Jobs : Quiet(j) /\ (Active(j)' => Active(j))
    BY <1>1, SameIsQuiet
  <2>2. reply' # reply => live /\ m = request /\ reply' = document
    BY <1>1 DEF RecordManagementResult, Arrives, Answer
  <2>3. UNCHANGED <<clock, request>> /\ late' \subseteq late
    BY <1>1 DEF Answer
  <2> QED
    BY <1>1, <2>1, <2>2, <2>3, NoneNewApart, QuietStep DEF NoneNew
<1>2. /\ Accepted.job = NoJob /\ Rejected.job = NoJob
      /\ Accepted.type = "accepted" /\ Rejected.type = "rejected"
  BY DEF Accepted, Rejected, Document
<1>3. CASE Answer(m, live, Accepted) /\ UNCHANGED <<job, snapshot>>
  BY <1>1, <1>2, <1>3
<1>4. CASE /\ ~Acceptable(job[m.job], m.result)
           /\ job[m.job].result # m.result
           /\ Answer(m, live, Rejected)
           /\ UNCHANGED <<job, snapshot>>
  BY <1>1, <1>2, <1>4, ReportTaken
<1> QED
  BY <1>3, <1>4, ResultTells DEF RecordManagementResult

\* Time passes: what was read before stays before.
LEMMA TickTells ==
  ASSUME IInv, OutcomeInv, Tick
  PROVE  OutcomeInv'
<1>1. /\ clock \in Nat /\ clock' = clock + 1
      /\ UNCHANGED <<job, snapshot, request, reply, late, journal, pc, provider,
                     calls, config>>
  BY DEF Tick, IInv, TypeOK, jobVars, authorityVars, linkVars, agentVars, hostVars
<1>2. ASSUME NEW j \in Jobs, NEW result, result.snap \in Observations,
             ResultOK(j, result)
      PROVE  ResultOK(j, result)'
  BY <1>1, <1>2
     DEF ResultOK, Granted, Settled, Told, Observations, NoObservation, NotYet
<1>3. \A m \in late \cup {request} : m.action = "result" =>
        m.job \in Jobs /\ m.result.snap \in Observations
  <2>1. \A m \in late \cup {request} : m.action = "result" =>
          m.job \in Jobs /\ m.result \in Results
    BY DEF IInv, TypeOK, Requests, NoRequest, Poll
  <2> QED
    BY <2>1 DEF Results
<1>4. MessagesOK'
  BY <1>1, <1>2, <1>3 DEF OutcomeInv, MessagesOK, FinalOK, Settled, Holds
<1>5. journal.phase = "terminal" =>
        journal.job \in Jobs /\ journal.result.snap \in Observations
  BY DEF IInv, TypeOK, Journals, NoJournal, FinalResults, Results
<1>6. RecordsOK'
  BY <1>1, <1>2, <1>5 DEF OutcomeInv, RecordsOK, Granted, Settled
<1>7. TableOK' /\ KnownOK' /\ ProviderOK' /\ MachinesOK'
  BY <1>1
     DEF OutcomeInv, TableOK, Told, Holds, KnownOK, Settled, Granted,
         RevisionConfirmed, ProviderOK, MachinesOK, Active
<1>8. SnapshotsOK'
  <2>1. \A v \in VMs : snapshot[v].readAt \in Instant
    BY DEF IInv, TypeOK, Stored, NoStored, Instant
  <2> QED
    BY <1>1, <2>1
       DEF OutcomeInv, SnapshotsOK, Observable, Instant, NotYet
<1>9. SnapshotConservative' /\ NoReportRefused'
  BY <1>1 DEF OutcomeInv, SnapshotConservative, NoReportRefused
<1> QED
  BY <1>4, <1>6, <1>7, <1>8, <1>9 DEF OutcomeInv

\* A record is given up only when its job is settled, and doubt stays.
RecordStays ==
  /\ journal.phase = "terminal" /\ journal' # journal => Terminal(journal.job)
  /\ journal.phase = "requires_reconciliation" =>
       /\ journal'.phase = "requires_reconciliation"
       /\ journal'.job = journal.job

\* What a new report has to be.
ReportOK(m) ==
  m.action = "result" =>
    /\ m.job \in Jobs
    /\ ResultOK(m.job, m.result)
    /\ journal'.job = m.job
    /\ m.result.status \in {"succeeded", "failed"} =>
         journal'.phase = "terminal" /\ journal'.result = m.result
    /\ m.result.status = "requires_reconciliation" =>
         journal'.phase = "requires_reconciliation"

\* What is left to show of a step of the Agent that does not call the
\* provider: what it writes down, what it sends, where it goes on.
LEMMA CycleTells ==
  ASSUME IInv, OutcomeInv, UNCHANGED <<portalVars, hostVars>>, RecordStays,
         late' \subseteq late \cup {request},
         request' \in {request, NoRequest} \/ ReportOK(request'),
         RecordsOK', KnownOK', NoReportRefused'
  PROVE  OutcomeInv'
<1> USE DEF portalVars, jobVars, hostVars
<1>1. \A j \in Jobs : \A result : ResultOK(j, result) => ResultOK(j, result)'
  BY DEF ResultOK, Granted, Settled, Told
<1>2. ASSUME NEW m \in late \cup {request}, m.action = "result"
      PROVE  /\ m.job \in Jobs
             /\ ResultOK(m.job, m.result)'
             /\ FinalOK(m.job, m.result)'
             /\ m.result.status = "requires_reconciliation" =>
                  Holds(m.job, {"requires_reconciliation"})'
  <2>1. m.job \in Jobs
    BY <1>2 DEF IInv, TypeOK, Requests, NoRequest, Poll
  <2>2. /\ ResultOK(m.job, m.result)
        /\ FinalOK(m.job, m.result)
        /\ m.result.status = "requires_reconciliation" =>
             Holds(m.job, {"requires_reconciliation"})
    BY <1>2 DEF OutcomeInv, MessagesOK
  <2>3. CASE UNCHANGED journal
    BY <1>1, <2>1, <2>2, <2>3 DEF FinalOK, Holds, Settled
  <2>4. CASE journal' # journal
    <3>1. Holds(m.job, {"terminal"}) =>
            Settled(m.job) /\ job[m.job].result = journal.result
      BY <2>4
         DEF RecordStays, Holds, Terminal, TerminalStatuses, OutcomeInv,
             RecordsOK, ResultOK, Granted, Settled
    <3>2. FinalOK(m.job, m.result)'
      BY <2>2, <3>1 DEF FinalOK, Settled, Holds
    <3> QED
      BY <1>1, <2>1, <2>2, <3>2 DEF RecordStays, Holds
  <2> QED
    BY <2>3, <2>4
<1>3. ASSUME NEW m, ReportOK(m), m.action = "result"
      PROVE  /\ ResultOK(m.job, m.result)'
             /\ FinalOK(m.job, m.result)'
             /\ m.result.status = "requires_reconciliation" =>
                  Holds(m.job, {"requires_reconciliation"})'
  BY <1>1, <1>3 DEF ReportOK, FinalOK, Holds
<1>4. MessagesOK'
  <2>1. \A m \in late' \cup {request'} :
          m \in late \cup {request} \/ m = NoRequest \/ (m = request' /\ ReportOK(m))
    OBVIOUS
  <2>2. NoRequest.action = "none"
    BY DEF NoRequest
  <2> QED
    BY <1>2, <1>3, <2>1, <2>2 DEF MessagesOK
<1>5. TableOK'
  BY DEF OutcomeInv, TableOK, Told, Holds, RecordStays
<1>6. ProviderOK' /\ MachinesOK' /\ SnapshotsOK' /\ SnapshotConservative'
  BY DEF OutcomeInv, ProviderOK, MachinesOK, Active, SnapshotsOK, Observable,
         SnapshotConservative
<1> QED
  BY <1>4, <1>5, <1>6 DEF OutcomeInv

\* A record that stays as it is.
LEMMA SameRecord ==
  ASSUME OutcomeInv, UNCHANGED <<journal, portalVars, hostVars>>
  PROVE  RecordStays /\ RecordsOK'
BY DEF RecordStays, OutcomeInv, RecordsOK, ResultOK, Granted, Settled, Told,
       portalVars, jobVars, hostVars

\* Neither waiting for a job nor calling the provider: nothing has to be known.
Idle(state) == state \in {"idle", "looking", "acknowledging", "preflight",
                          "started", "unknown", "observing"}
LEMMA NothingKnown ==
  ASSUME Idle(pc') \/ (pc' \in {"polling", "claiming"} /\ reply' = NoReply)
         \/ (pc' = "reporting" /\ request'.result.status # "running")
  PROVE  KnownOK'
BY DEF Idle, KnownOK, NoReply

\* A cycle that ends, is refused, fails or starts over.
LEMMA EndTells ==
  ASSUME IInv, OutcomeInv, UNCHANGED <<portalVars, journal, hostVars>>,
         pc' \in {"idle", "observing", "preflight"},
         request' = NoRequest, late' \subseteq late \cup {request}
  PROVE  OutcomeInv'
<1>1. KnownOK' /\ NoReportRefused'
  BY NothingKnown DEF Idle, NoReportRefused
<1> QED
  BY <1>1, SameRecord, CycleTells

\* The beginning of a cycle asks for work, for the state of a record's job, or
\* for the acknowledgement of a final result.
LEMMA AskTells ==
  ASSUME IInv, OutcomeInv, BeginCycle \/ Acknowledged
  PROVE  OutcomeInv'
<1>1. UNCHANGED <<portalVars, journal, hostVars, late>> /\ reply' = NoReply
  BY DEF BeginCycle, Acknowledged, Send
<1>2. pc' \in {"polling", "acknowledging", "looking"}
  BY DEF BeginCycle, Acknowledged, Goto
<1>3. KnownOK' /\ NoReportRefused'
  BY <1>1, <1>2, NothingKnown DEF Idle, NoReportRefused, NoReply
<1>4. ReportOK(request')
  <2>1. CASE request'.action # "result"
    BY <2>1 DEF ReportOK
  <2>2. CASE /\ BeginCycle /\ journal.phase = "terminal"
             /\ Send("result", journal.job, journal.result)
    <3>1. journal.job \in Jobs /\ journal.result \in FinalResults
      BY <2>2 DEF IInv, TypeOK, Journals, NoJournal
    <3> QED
      BY <1>1, <2>2, <3>1
         DEF Send, ReportOK, OutcomeInv, RecordsOK, Holds, FinalResults
  <2> QED
    BY <2>1, <2>2 DEF BeginCycle, Acknowledged, Send
<1> QED
  BY <1>1, <1>3, <1>4, SameRecord, CycleTells

\* A final result is recorded and sent.
LEMMA FinalTells ==
  ASSUME IInv, OutcomeInv, NEW result \in FinalResults, ReportFinal(result),
         journal # NoJournal,
         journal.phase \notin {"terminal", "requires_reconciliation"},
         ResultOK(journal.job, result), UNCHANGED <<portalVars, hostVars>>
  PROVE  OutcomeInv'
<1>1. /\ journal.job \in Jobs
      /\ journal.phase \in Phases \ {"terminal"}
      /\ journal' = Complete(journal, result)
      /\ journal'.job = journal.job
      /\ journal'.phase = "terminal"
      /\ journal'.result = result
      /\ result.status \in {"succeeded", "failed"}
  BY DEF ReportFinal, Complete, IInv, TypeOK, Journals, FinalResults
<1>2. /\ pc' = "reporting" /\ reply' = NoReply /\ UNCHANGED late
      /\ request' = [action |-> "result", job |-> journal.job, result |-> result]
  BY DEF ReportFinal, Send, Goto
<1>3. ~Settled(journal.job)
  BY <1>1 DEF OutcomeInv, RecordsOK
<1>4. ResultOK(journal.job, result)' /\ ~Settled(journal.job)'
  BY <1>1, <1>3
     DEF ResultOK, Granted, Settled, Told, portalVars, jobVars, hostVars
<1>5. RecordsOK'
  BY <1>1, <1>4 DEF RecordsOK, ResultOK, Phases
<1>6. KnownOK' /\ NoReportRefused'
  BY <1>1, <1>2, NothingKnown DEF NoReportRefused, NoReply
<1>7. ReportOK(request')
  BY <1>1, <1>2 DEF ReportOK, Holds
<1>8. RecordStays
  BY <1>1 DEF RecordStays
<1> QED
  BY <1>2, <1>5, <1>6, <1>7, <1>8, CycleTells

\* Doubt is recorded and reported, of a write that was granted.
LEMMA UncertainTells ==
  ASSUME IInv, OutcomeInv, journal # NoJournal, journal.phase # "terminal",
         journal.job \in Mutations, Granted(journal.job),
         journal' = RequireReconciliation(journal),
         UNCHANGED <<portalVars, hostVars>>,
         \/ HangUp /\ pc' = "idle"
         \/ Send("result", journal.job, Uncertain) /\ pc' = "reporting"
  PROVE  OutcomeInv'
<1>1. /\ journal.job \in Jobs
      /\ journal.phase \in Phases \ {"terminal"}
      /\ journal'.job = journal.job
      /\ journal'.phase = "requires_reconciliation"
  BY DEF RequireReconciliation, IInv, TypeOK, Journals
<1>2. reply' = NoReply /\ UNCHANGED late
  BY DEF Send, HangUp
<1>3. ~Settled(journal.job)
  BY <1>1 DEF OutcomeInv, RecordsOK
<1>4. RecordsOK'
  BY <1>1, <1>3
     DEF RecordsOK, Granted, Settled, portalVars, jobVars
<1>5. /\ Uncertain.status = "requires_reconciliation"
      /\ Uncertain.snap = NoObservation
  BY DEF Uncertain, Outcome
<1>6. KnownOK'
  BY <1>2, <1>5, NothingKnown DEF Idle, Send
<1>7. NoReportRefused'
  BY <1>2 DEF NoReportRefused, NoReply
<1>8. request' = NoRequest \/ ReportOK(request')
  BY <1>1, <1>5 DEF Send, HangUp, ReportOK, ResultOK, Told, Holds
<1>9. RecordStays
  BY <1>1 DEF RecordStays
<1> QED
  BY <1>2, <1>4, <1>6, <1>7, <1>8, <1>9, CycleTells

\* The provider is at work, and the portal is told so.
LEMMA RunningTells ==
  ASSUME IInv, OutcomeInv, journal # NoJournal,
         journal.phase \notin {"terminal", "requires_reconciliation"},
         journal.job \in Mutations, Granted(journal.job),
         journal' = BeginObservation(journal),
         Send("result", journal.job, Observed), Goto("reporting"),
         UNCHANGED <<portalVars, hostVars>>
  PROVE  OutcomeInv'
<1>1. /\ journal.job \in Jobs
      /\ journal.phase \in Phases \ {"terminal"}
      /\ journal'.job = journal.job
      /\ journal'.phase = "observing"
  BY DEF BeginObservation, IInv, TypeOK, Journals
<1>2. reply' = NoReply /\ pc' = "reporting" /\ UNCHANGED late
  BY DEF Send, Goto
<1>3. ~Settled(journal.job)
  BY <1>1 DEF OutcomeInv, RecordsOK
<1>4. RecordsOK'
  BY <1>1, <1>3
     DEF RecordsOK, Granted, Settled, portalVars, jobVars
<1>5. Observed.status = "running" /\ Observed.snap = NoObservation
  BY DEF Observed, Outcome
<1>6. KnownOK'
  BY <1>1, <1>2 DEF KnownOK
<1>7. NoReportRefused'
  BY <1>2 DEF NoReportRefused, NoReply
<1>8. ReportOK(request')
  BY <1>1, <1>5 DEF Send, ReportOK, ResultOK, Told, Holds
<1>9. RecordStays
  BY <1>1 DEF RecordStays
<1> QED
  BY <1>2, <1>4, <1>6, <1>7, <1>8, <1>9, CycleTells

\* Bound is the journal's record, or a new one beside a settled or no record.
LEMMA BoundIs ==
  ASSUME IInv, HasAssignment
  PROVE  \/ Bound = journal /\ journal # NoJournal /\ journal.job = reply.job
         \/ /\ Bound = Prepare(reply.job) /\ pc = "polling"
            /\ journal # NoJournal =>
                 journal.phase = "terminal" /\ Terminal(journal.job)
<1>1. pc = "looking" => journal.job = reply.job /\ journal # NoJournal
  BY DEF IInv, ExchangeOK, PhaseOK, HasAssignment
<1>2. journal.job = reply.job => journal # NoJournal
  BY DEF HasAssignment, NoJournal
<1> QED
  BY <1>1, <1>2 DEF HasAssignment, Bound, IInv, PollOK

\* Cancelled work leaves no record.
LEMMA CancelledTells ==
  ASSUME IInv, OutcomeInv, ReceiveCancelled \/ ClaimCancelled
  PROVE  OutcomeInv'
<1>1. /\ UNCHANGED <<portalVars, hostVars, late>>
      /\ request' = NoRequest /\ pc' = "idle"
  BY DEF ReceiveCancelled, ClaimCancelled, HangUp, Goto
<1>2. CASE UNCHANGED journal
  BY <1>1, <1>2, EndTells
<1>3. CASE journal' = NoJournal /\ journal' # journal
  <2>1. RecordStays
    <3>1. CASE ReceiveCancelled
      BY <3>1, BoundIs
         DEF ReceiveCancelled, CancelledUnused, RecordStays, NoJournal
    <3>2. CASE ClaimCancelled
      BY <1>3, <3>2 DEF ClaimCancelled, RecordStays
    <3> QED
      BY <3>1, <3>2
  <2>2. RecordsOK'
    BY <1>3 DEF RecordsOK, NoJournal, Phases
  <2>3. KnownOK' /\ NoReportRefused'
    BY <1>1, NothingKnown DEF Idle, NoReportRefused
  <2> QED
    BY <1>1, <2>1, <2>2, <2>3, CycleTells
<1> QED
  BY <1>2, <1>3 DEF ReceiveCancelled, ClaimCancelled

\* A settled record is reported again, an interrupted write as in doubt.
LEMMA SettledTells ==
  ASSUME IInv, OutcomeInv, ReceiveSettledOrInterrupted
  PROVE  OutcomeInv'
<1>1. /\ UNCHANGED <<portalVars, hostVars, late>> /\ reply' = NoReply
      /\ HasAssignment /\ pc' = "reporting"
  BY DEF ReceiveSettledOrInterrupted, Send, Goto
<1>2. Bound = journal /\ journal # NoJournal /\ journal.job \in Jobs
  <2>1. Prepare(reply.job).phase = "prepared"
    BY DEF Prepare
  <2>2. Bound = journal /\ journal # NoJournal
    BY <1>1, <2>1, BoundIs DEF ReceiveSettledOrInterrupted, Interrupted
  <2> QED
    BY <2>2 DEF IInv, TypeOK, Journals
<1>3. CASE journal.phase = "terminal"
  <2>1. /\ UNCHANGED journal
        /\ request' = [action |-> "result", job |-> journal.job,
                       result |-> journal.result]
    BY <1>2, <1>3 DEF ReceiveSettledOrInterrupted, Send
  <2>2. journal.result.status \in {"succeeded", "failed"}
    BY <1>2, <1>3 DEF IInv, TypeOK, Journals, FinalResults
  <2>3. KnownOK' /\ NoReportRefused'
    BY <1>1, <2>1, <2>2, NothingKnown DEF NoReportRefused, NoReply
  <2>4. ReportOK(request')
    BY <1>2, <1>3, <2>1, <2>2 DEF ReportOK, OutcomeInv, RecordsOK
  <2> QED
    BY <1>1, <2>1, <2>3, <2>4, SameRecord, CycleTells
<1>4. CASE journal.phase # "terminal"
  <2>1. /\ journal' = RequireReconciliation(journal)
        /\ Send("result", journal.job, Uncertain)
        /\ Interrupted(journal)
    BY <1>2, <1>4 DEF ReceiveSettledOrInterrupted
  <2>2. journal.job \in Mutations /\ Granted(journal.job)
    BY <2>1 DEF Interrupted, OutcomeInv, RecordsOK, Phases
  <2> QED
    BY <1>1, <1>2, <1>4, <2>1, <2>2, UncertainTells
<1> QED
  BY <1>3, <1>4

\* What is claimed is not settled.
LEMMA SendClaimTells ==
  ASSUME IInv, OutcomeInv, SendClaim
  PROVE  OutcomeInv'
<1>1. /\ UNCHANGED <<portalVars, hostVars, late>> /\ reply' = NoReply
      /\ HasAssignment /\ pc' = "claiming" /\ journal' = Bound
      /\ request'.action = "claim"
  BY DEF SendClaim, Send, Goto
<1>2. KnownOK' /\ NoReportRefused' /\ ReportOK(request')
  BY <1>1, NothingKnown DEF Idle, NoReportRefused, ReportOK
<1>3. CASE UNCHANGED journal
  BY <1>1, <1>2, <1>3, SameRecord, CycleTells
<1>4. CASE /\ journal' = Prepare(reply.job) /\ pc = "polling"
           /\ journal # NoJournal =>
                journal.phase = "terminal" /\ Terminal(journal.job)
  <2>1. journal'.job = reply.job /\ journal'.phase = "prepared"
    BY <1>4 DEF Prepare
  <2>2. RecordStays
    BY <1>4 DEF RecordStays, NoJournal
  <2>3. ~Settled(reply.job)
    BY <1>1, <1>4 DEF OutcomeInv, KnownOK, HasAssignment
  <2>4. RecordsOK'
    BY <1>1, <2>1, <2>3 DEF RecordsOK, Settled, portalVars, jobVars
  <2> QED
    BY <1>1, <1>2, <2>2, <2>4, CycleTells
<1> QED
  BY <1>1, <1>3, <1>4, BoundIs

\* A claim without a grant is put on record as doubt, of a granted job.
LEMMA FencedTells ==
  ASSUME IInv, OutcomeInv, ClaimFenced
  PROVE  OutcomeInv'
<1>1. /\ journal # NoJournal /\ journal.phase = "prepared"
      /\ journal.job \in Mutations
  BY DEF ClaimFenced, HasClaim, IInv, PhaseOK
<1>2. Granted(journal.job)
  BY <1>1 DEF ClaimFenced, HasClaim, OutcomeInv, KnownOK
<1>3. /\ journal' = RequireReconciliation(journal)
      /\ HangUp /\ pc' = "idle"
      /\ UNCHANGED <<portalVars, hostVars>>
  BY DEF ClaimFenced, Goto
<1> QED
  BY <1>1, <1>2, <1>3, UncertainTells

\* What is inspected was granted.
LEMMA ClaimInspectionTells ==
  ASSUME IInv, OutcomeInv, ClaimInspection
  PROVE  OutcomeInv'
<1>1. /\ UNCHANGED <<portalVars, hostVars, late>> /\ request' = NoRequest
      /\ pc' = "inspecting" /\ journal.job \notin Mutations
      /\ journal' = IF journal.phase = "prepared" THEN BeginInvocation(journal)
                    ELSE journal
  BY DEF ClaimInspection, HangUp, Goto
<1>2. journal # NoJournal /\ journal.phase # "terminal" /\ Granted(journal.job)
  BY DEF ClaimInspection, HasClaim, IInv, PhaseOK, OutcomeInv, KnownOK
<1>3. journal.phase \in Phases \ {"terminal"} /\ ~Settled(journal.job)
  BY <1>2 DEF IInv, TypeOK, Journals, OutcomeInv, RecordsOK
<1>4. /\ journal'.job = journal.job
      /\ journal'.phase = IF journal.phase = "prepared" THEN "invoking"
                          ELSE journal.phase
  BY <1>1, <1>2 DEF BeginInvocation, IInv, TypeOK, Journals
<1>5. Granted(journal.job)' /\ ~Settled(journal.job)'
  BY <1>1, <1>2, <1>3, <1>4 DEF Granted, Settled, portalVars, jobVars
<1>6. RecordsOK'
  BY <1>3, <1>4, <1>5 DEF RecordsOK, OutcomeInv
<1>7. KnownOK' /\ NoReportRefused'
  BY <1>1, <1>4, <1>5 DEF KnownOK, NoReportRefused
<1>8. RecordStays
  BY <1>1, <1>2 DEF RecordStays
<1> QED
  BY <1>1, <1>6, <1>7, <1>8, CycleTells

\* The intent is recorded on the confirmed revision.
LEMMA SaveIntentTells ==
  ASSUME IInv, OutcomeInv, SaveIntent
  PROVE  OutcomeInv'
<1>1. /\ UNCHANGED <<portalVars, hostVars, request, reply, late>>
      /\ pc = "preflight" /\ pc' = "invoking"
      /\ journal.phase = "prepared" /\ RevisionConfirmed(journal.job)
      /\ journal' = BeginInvocation(journal)
  BY DEF SaveIntent, Goto, linkVars
<1>2. journal # NoJournal /\ Granted(journal.job) /\ ~Settled(journal.job)
  BY <1>1 DEF IInv, PhaseOK, GrantOK, Unused, Granted, Settled
<1>3. journal'.job = journal.job /\ journal'.phase = "invoking"
  BY <1>1, <1>2 DEF BeginInvocation, IInv, TypeOK, Journals
<1>4. RecordsOK'
  BY <1>1, <1>2, <1>3 DEF RecordsOK, Granted, Settled, portalVars, jobVars
<1>5. KnownOK' /\ NoReportRefused'
  BY <1>1, <1>3
     DEF KnownOK, NoReportRefused, RevisionConfirmed, portalVars, jobVars,
         hostVars
<1>6. RecordStays
  BY <1>1 DEF RecordStays
<1> QED
  BY <1>1, <1>4, <1>5, <1>6, CycleTells

\* Results that say nothing of an effect, and the confirmed one.
LEMMA ResultsAreSo ==
  ASSUME IInv, OutcomeInv, NEW j \in Jobs, Granted(j)
  PROVE  /\ j \notin Mutations \/ provider[j] \in {"none", "failed"} =>
              ResultOK(j, Failed) /\ ResultOK(j, Preflight)
         /\ j \notin Mutations \/ provider[j] = "done" =>
              ResultOK(j, Succeeded(j))
<1>1. /\ Failed.status = "failed" /\ Failed.snap = NoObservation
      /\ Preflight.status = "failed" /\ Preflight.snap = NoObservation
      /\ Succeeded(j).status = "succeeded"
      /\ Succeeded(j).snap = Observation(j)
  BY DEF Failed, Preflight, Succeeded, Outcome
<1>2. /\ Observation(j) # NoObservation
      /\ Observation(j).readAt = clock /\ clock <= clock
  BY DEF Observation, NoObservation, NotYet, IInv, TypeOK
<1>3. job[j].started <= clock
  BY DEF IInv, RowsOK, RowOK
<1> QED
  BY <1>1, <1>2, <1>3 DEF ResultOK, Told

\* Every step of the Agent keeps what is told true, but for the call itself.
LEMMA AgentTells ==
  ASSUME IInv, OutcomeInv, Agent, ~ExecMethod
  PROVE  OutcomeInv'
<1>0. /\ pc \in {"inspecting", "preflight", "invoking", "rejected", "applied",
                 "started", "unknown", "observing"}
           => /\ journal # NoJournal
              /\ journal.job \in Jobs
              /\ journal.phase \notin {"terminal", "requires_reconciliation"}
              /\ pc # "inspecting" => journal.job \in Mutations
              /\ Granted(journal.job)
      /\ pc \in {"preflight", "invoking"} => provider[journal.job] = "none"
  <2>1. pc \in {"preflight", "invoking"} =>
          Granted(journal.job) /\ calls[journal.job] = 0
    BY DEF IInv, GrantOK, Unused, Granted
  <2> QED
    BY <2>1
       DEF IInv, TypeOK, PhaseOK, Journals, OutcomeInv, RecordsOK, KnownOK,
           ProviderOK, Phases
<1>1. CASE BeginCycle \/ Acknowledged
  BY <1>1, AskTells
<1>2. CASE ReceiveNoWork \/ Reported \/ ExchangeRefused
  BY <1>2, EndTells
     DEF ReceiveNoWork, Reported, ExchangeRefused, HangUp, Goto
<1>3. CASE ReceiveAccepted \/ ClaimGranted
  BY <1>3, EndTells DEF ReceiveAccepted, ClaimGranted, HangUp, Goto
<1>4. CASE ReceiveCancelled \/ ClaimCancelled
  BY <1>4, CancelledTells
<1>5. CASE ReceiveSettledOrInterrupted
  BY <1>5, SettledTells
<1>6. CASE SendClaim
  BY <1>6, SendClaimTells
<1>7. CASE ClaimFenced
  BY <1>7, FencedTells
<1>8. CASE ClaimInspection
  BY <1>8, ClaimInspectionTells
<1>9. CASE SaveIntent
  BY <1>9, SaveIntentTells
<1>10. CASE Inspect
  <2>1. journal.job \notin Mutations
    BY <1>10 DEF Inspect, OutcomeInv, KnownOK
  <2> QED
    BY <1>0, <1>10, <2>1, ResultsAreSo, OutcomeTypes, FinalTells
       DEF Inspect, IInv
<1>11. CASE PreflightFails \/ IntentExpired
  BY <1>0, <1>11, ResultsAreSo, OutcomeTypes, FinalTells
     DEF PreflightFails, IntentExpired, IInv
<1>12. CASE ProviderRejected
  <2>1. provider[journal.job] = "none"
    BY <1>12 DEF ProviderRejected, OutcomeInv, KnownOK
  <2> QED
    BY <1>0, <1>12, <2>1, ResultsAreSo, OutcomeTypes, FinalTells
       DEF ProviderRejected, IInv
<1>13. ASSUME ReportUncertain, UNCHANGED <<portalVars, hostVars>>,
              pc \in {"applied", "started", "unknown", "observing"}
       PROVE  OutcomeInv'
  BY <1>0, <1>13, UncertainTells DEF ReportUncertain, Goto
<1>14. CASE ProviderApplied
  <2>1. provider[journal.job] = "done"
    BY <1>14 DEF ProviderApplied, OutcomeInv, KnownOK
  <2> QED
    BY <1>0, <1>13, <1>14, <2>1, ResultsAreSo, OutcomeTypes, FinalTells
       DEF ProviderApplied, IInv
<1>15. CASE ProviderStarted
  BY <1>0, <1>13, <1>15, RunningTells DEF ProviderStarted
<1>16. CASE AcceptanceUnknown
  BY <1>13, <1>16 DEF AcceptanceUnknown
<1>17. CASE ObserveProvider
  <2>1. CASE /\ Send("result", journal.job, Observed)
             /\ Goto("reporting")
             /\ UNCHANGED journal
    <3>1. journal' = BeginObservation(journal)
      BY <1>17, <2>1
         DEF ObserveProvider, BeginObservation, IInv, TypeOK, PhaseOK, Journals
    <3> QED
      BY <1>0, <1>17, <2>1, <3>1, RunningTells DEF ObserveProvider
  <2>2. CASE \/ provider[journal.job] = "done" /\ ReportFinal(Succeeded(journal.job))
             \/ provider[journal.job] = "failed" /\ ReportFinal(Failed)
    BY <1>0, <1>17, <2>2, ResultsAreSo, OutcomeTypes, FinalTells
       DEF ObserveProvider, IInv
  <2> QED
    BY <1>13, <1>17, <2>1, <2>2 DEF ObserveProvider
<1> QED
  BY ONLY Agent, ~ExecMethod, <1>1, <1>2, <1>3, <1>4, <1>5, <1>6, <1>7, <1>8,
     <1>9, <1>10, <1>11, <1>12, <1>14, <1>15, <1>16, <1>17
     DEF Agent

\* The call has its effect on one write, of which nothing was told yet.
LEMMA ExecMethodTells ==
  ASSUME IInv, OutcomeInv, ExecMethod
  PROVE  OutcomeInv'
<1> DEFINE j == journal.job
<1>1. /\ j \in Jobs /\ Holds(j, {"invoking"}) /\ Unused(j)
      /\ UNCHANGED <<portalVars, linkVars, journal>>
  BY DEF ExecMethod, IInv, TypeOK, PhaseOK, GrantOK, Journals, Holds
<1>2. /\ calls' = [calls EXCEPT ![j] = @ + 1] /\ calls[j] = 0
      /\ pc' \in {"rejected", "applied", "started", "unknown"}
      /\ \A k \in Jobs \ {j} : provider'[k] = provider[k]
      /\ pc' = "rejected" => provider'[j] = "none"
      /\ pc' = "applied" => provider'[j] = "done"
  BY <1>1 DEF ExecMethod, Goto, Effect, Unused, IInv, TypeOK
<1>3. \A k \in Jobs : k # j => calls'[k] = calls[k]
  BY <1>2 DEF IInv, TypeOK
<1>4. calls'[j] # 0 /\ j \in Mutations
  BY <1>1, <1>2 DEF IInv, TypeOK, PhaseOK, ExecMethod
<1>5. job[j].status = "running"
  BY <1>1 DEF Unused
<1> HIDE DEF j
<1>6. ASSUME NEW m \in late \cup {request}, m.action = "result"
      PROVE  m.job \in Jobs /\ m.job # j
  <2>1. m.job \in Jobs
    BY <1>6 DEF IInv, TypeOK, Requests, NoRequest, Poll
  <2>2. ~Terminal(j) /\ ~Holds(j, {"observing", "requires_reconciliation",
                                   "terminal"})
    BY <1>1, <1>5 DEF Terminal, TerminalStatuses, Holds
  <2> QED
    BY <1>6, <2>1, <2>2 DEF IInv, ReportsOK
<1>7. \A k \in Jobs \ {j} : \A result : ResultOK(k, result) => ResultOK(k, result)'
  BY <1>1, <1>2 DEF ResultOK, Granted, Settled, Told, portalVars, jobVars
<1>8. MessagesOK'
  BY <1>1, <1>6, <1>7
     DEF OutcomeInv, MessagesOK, FinalOK, Settled, Holds, linkVars, portalVars,
         jobVars
<1>9. RecordsOK'
  BY <1>1
     DEF OutcomeInv, RecordsOK, Holds, Granted, Settled, portalVars, jobVars
<1>10. TableOK'
  BY <1>1, <1>2, <1>5 DEF OutcomeInv, TableOK, Told, Holds, portalVars, jobVars
<1>11. KnownOK' /\ NoReportRefused'
  BY <1>1, <1>2 DEF KnownOK, NoReportRefused, j
<1>12. ProviderOK'
  BY <1>2, <1>3, <1>4 DEF OutcomeInv, ProviderOK
<1>13. MachinesOK' /\ SnapshotsOK' /\ SnapshotConservative'
  BY <1>1
     DEF OutcomeInv, MachinesOK, Active, SnapshotsOK, Observable,
         SnapshotConservative, portalVars, jobVars
<1> QED
  BY <1>8, <1>9, <1>10, <1>11, <1>12, <1>13 DEF OutcomeInv

\* A provider job that ends is one of an open job: no outcome was told, and no
\* other write of its machine is about to be executed.
LEMMA ProviderTells ==
  ASSUME IInv, OutcomeInv, NEW j \in Jobs, ProviderFinishes(j)
  PROVE  OutcomeInv'
<1>1. /\ provider[j] = "running"
      /\ \A k \in Jobs \ {j} : provider'[k] = provider[k]
      /\ UNCHANGED <<portalVars, linkVars, journal, pc, calls>>
  BY DEF ProviderFinishes, Effect, IInv, TypeOK
<1>2. \A v \in VMs \ {Target[j]} : config'[v] = config[v]
  BY DEF ProviderFinishes, Effect, IInv, TypeOK
<1>3. calls[j] # 0 /\ j \in Mutations
  BY <1>1 DEF OutcomeInv, ProviderOK
<1>4. \A status : Told(j, status) => Told(j, status)'
  BY <1>1, <1>3 DEF Told
<1>5. \A k \in Jobs : \A status : Told(k, status) => Told(k, status)'
  BY <1>1, <1>4 DEF Told
<1>6. \A k \in Jobs : \A result : ResultOK(k, result) => ResultOK(k, result)'
  BY <1>1, <1>5 DEF ResultOK, Granted, Settled, portalVars, jobVars
<1>7. MessagesOK'
  <2>1. \A m \in late \cup {request} : m.action = "result" => m.job \in Jobs
    BY DEF IInv, TypeOK, Requests, NoRequest, Poll
  <2> QED
    BY <1>1, <1>6, <2>1
       DEF OutcomeInv, MessagesOK, FinalOK, Settled, Holds, linkVars,
           portalVars, jobVars
<1>8. journal.phase \in Phases => journal.job \in Jobs
  BY DEF IInv, TypeOK, Journals, NoJournal, Phases
<1>9. RecordsOK'
  BY <1>1, <1>6, <1>8
     DEF OutcomeInv, RecordsOK, Granted, Settled, portalVars, jobVars, Phases
<1>10. TableOK'
  BY <1>1, <1>5 DEF OutcomeInv, TableOK, Holds, portalVars, jobVars
<1>11. KnownOK'
  <2>1. pc = "invoking" => Target[journal.job] # Target[j]
    <3>1. Active(j)
      BY <1>1, <1>3
         DEF IInv, CallsOK, OutcomeInv, TableOK, Told, Active, ActiveStatuses
    <3>2. pc = "invoking" =>
            /\ journal.job \in Jobs
            /\ Active(journal.job) /\ journal.job # j
      BY <1>3
         DEF IInv, TypeOK, PhaseOK, Journals, GrantOK, Unused, Active,
             ActiveStatuses
    <3> QED
      BY <3>1, <3>2 DEF OutcomeInv, MachinesOK
  <2>2. pc \in {"invoking", "rejected", "applied"} => journal.job \in Jobs
    BY DEF IInv, TypeOK, PhaseOK, Journals
  <2>3. pc = "invoking" => RevisionConfirmed(journal.job)'
    BY <1>1, <1>2, <2>1, <2>2, JobsAssumption
       DEF OutcomeInv, KnownOK, RevisionConfirmed, portalVars, jobVars
  <2> QED
    BY <1>1, <2>2, <2>3
       DEF OutcomeInv, KnownOK, Granted, Settled, linkVars, portalVars, jobVars
<1>12. ProviderOK'
  BY <1>1, <1>3 DEF OutcomeInv, ProviderOK
<1>13. /\ MachinesOK' /\ SnapshotsOK' /\ SnapshotConservative'
       /\ NoReportRefused'
  BY <1>1
     DEF OutcomeInv, MachinesOK, Active, SnapshotsOK, Observable,
         SnapshotConservative, NoReportRefused, linkVars, portalVars, jobVars
<1> QED
  BY <1>7, <1>9, <1>10, <1>11, <1>12, <1>13 DEF OutcomeInv

\* Nothing is told before there is a job.
LEMMA NothingTold == Init => OutcomeInv
<1> SUFFICES ASSUME Init PROVE OutcomeInv
  OBVIOUS
<1> USE DEF Init
<1>1. \A j \in Jobs : job[j].status = "absent"
  BY DEF NoRow
<1>2. MessagesOK /\ KnownOK /\ ProviderOK /\ NoReportRefused
  BY DEF MessagesOK, NoRequest, KnownOK, ProviderOK, NoReportRefused
<1>3. RecordsOK
  BY DEF RecordsOK, NoJournal, Phases
<1>4. TableOK /\ MachinesOK
  BY <1>1 DEF TableOK, Told, MachinesOK, Active, ActiveStatuses
<1>5. SnapshotsOK /\ SnapshotConservative
  BY <1>1
     DEF SnapshotsOK, SnapshotConservative, Observable, ObservableStatuses,
         NoStored, NotYet
<1> QED
  BY <1>2, <1>3, <1>4, <1>5 DEF OutcomeInv

\* Every step of the system keeps what is told true.
LEMMA OutcomeStep == IInv /\ OutcomeInv /\ [Next]_vars => OutcomeInv'
<1> SUFFICES ASSUME IInv, OutcomeInv, [Next]_vars PROVE OutcomeInv'
  OBVIOUS
<1>0. IInv'
  BY StepOK
<1>1. CASE Tick
  BY <1>1, TickTells
<1>2. CASE User /\ UNCHANGED agentVars
  BY <1>0, <1>2, UserTells
<1>3. ASSUME NEW m, NEW live \in BOOLEAN, Gateway(m, live), UNCHANGED agentVars
      PROVE  OutcomeInv'
  BY <1>0, <1>3, OfferTells, StatusTells, ClaimTells, RecordTells DEF Gateway
<1>4. CASE UNCHANGED agentVars /\ \/ Gateway(request, TRUE)
                                  \/ \E m \in late : Gateway(m, FALSE)
  BY <1>3, <1>4
<1>5. CASE Agent
  BY <1>5, AgentTells, ExecMethodTells
<1>6. CASE CycleFails
  BY <1>6, EndTells DEF CycleFails, Goto
<1>7. CASE \E j \in Jobs : ProviderFinishes(j)
  BY <1>7, ProviderTells
<1>8. CASE UNCHANGED vars
  <2>1. \A j \in Jobs : Quiet(j) /\ (Active(j)' => Active(j))
    BY <1>8, SameIsQuiet DEF vars, portalVars, jobVars
  <2> QED
    BY <1>0, <1>8, <2>1, NoneNewApart, QuietStep
       DEF NoneNew, vars, portalVars, jobVars, linkVars
<1> QED
  BY <1>1, <1>2, <1>4, <1>5, <1>6, <1>7, <1>8 DEF Next

\* In every reachable state what reports, records, rows and snapshots tell is
\* so, abandoned reports included.
THEOREM OutcomesHold == Spec => []OutcomeInv
BY InvariantHolds, NothingTold, OutcomeStep, PTL DEF Spec

\* A job is shown as succeeded only after its effect, and as failed only when
\* the provider neither works on it nor has applied it as a whole
\* (record_management_result believes the Agent's observe_hyperv_management).
THEOREM Truthful == Spec => []TruthfulOutcome
<1>1. IInv /\ OutcomeInv => TruthfulOutcome
  BY JobsAssumption DEF OutcomeInv, TableOK, Told, TruthfulOutcome
<1> QED
  BY <1>1, InvariantHolds, OutcomesHold, PTL

\* record_management_result never refuses a report the Agent waits for, which
\* its journal would keep for ever.
THEOREM ReportsAccepted == Spec => []NoReportRefused
<1>1. OutcomeInv => NoReportRefused
  BY DEF OutcomeInv
<1> QED
  BY <1>1, OutcomesHold, PTL

\* The stored time of a snapshot is not later than its reading, however late
\* the report arrives: record_management_result stores the time of the grant.
THEOREM SnapshotsNotTooFresh == Spec => []SnapshotConservative
<1>1. OutcomeInv => SnapshotConservative
  BY DEF OutcomeInv
<1> QED
  BY <1>1, OutcomesHold, PTL

\* A report never replaces a snapshot by an older reading.
THEOREM SnapshotsNeverRegress == Spec => SnapshotsAdvance
<1>1. ASSUME IInv, OutcomeInv, [Next]_vars, NEW v \in VMs
      PROVE  snapshot[v].readAt <= snapshot'[v].readAt
  <2>0. snapshot[v].readAt \in Int
    BY <1>1 DEF IInv, TypeOK, Stored, NoStored, NotYet
  <2>1. CASE UNCHANGED snapshot
    BY <2>0, <2>1, <1>1 DEF IInv, TypeOK, Stored, NoStored, NotYet
  <2>2. ASSUME NEW m, NEW live \in BOOLEAN, RecordManagementResult(m, live),
               Acceptable(job[m.job], m.result),
               StoreSnapshot(m.job, m.result.snap)
        PROVE  snapshot[v].readAt <= snapshot'[v].readAt
    <3>1. m.job \in Jobs /\ ResultOK(m.job, m.result) /\ m.result \in Results
      BY <1>1, <2>2, ReportFinds
    <3>2. CASE UNCHANGED snapshot
      BY <2>1, <3>2
    <3>3. CASE /\ m.result.snap # NoObservation
               /\ snapshot' = [snapshot EXCEPT ![Target[m.job]] =
                    [rev |-> m.result.snap.rev,
                     readAt |-> m.result.snap.readAt,
                     observedAt |-> job[m.job].started]]
      <4>1. /\ job[m.job].started <= m.result.snap.readAt
            /\ snapshot[Target[m.job]].readAt <= job[m.job].started
        BY <1>1, <2>2, <3>1, <3>3
           DEF ResultOK, OutcomeInv, SnapshotsOK, Acceptable, Observable
      <4>2. /\ m.result.snap.readAt \in Int
            /\ job[m.job].started \in Int
            /\ snapshot[Target[m.job]].readAt \in Int
        BY <1>1, <3>1, JobsAssumption
           DEF IInv, TypeOK, Rows, Instant, NotYet, Results, Observations,
               NoObservation, Stored, NoStored
      <4>3. CASE v = Target[m.job]
        <5>1. snapshot'[v].readAt = m.result.snap.readAt
          BY <1>1, <3>3, <4>3 DEF IInv, TypeOK
        <5> QED
          BY <4>1, <4>2, <4>3, <5>1
      <4>4. CASE v # Target[m.job]
        <5>1. snapshot'[v] = snapshot[v]
          BY <1>1, <3>3, <4>4 DEF IInv, TypeOK
        <5> QED
          BY <2>0, <5>1
      <4> QED
        BY <4>3, <4>4
    <3> QED
      BY <2>2, <3>2, <3>3 DEF StoreSnapshot
  <2>3. ASSUME NEW m, NEW live \in BOOLEAN, Gateway(m, live)
        PROVE  snapshot[v].readAt <= snapshot'[v].readAt
    BY <2>1, <2>2, <2>3
       DEF Gateway, OfferManagementJob, ManagementJobStatus,
           ClaimManagementJob, RecordManagementResult
  <2>4. CASE User \/ UNCHANGED vars
    BY <2>1, <2>4
       DEF User, CreateManagementJob, SuspendTenant, ReactivateTenant,
           WithdrawIdentityOperations, ChangeMembership, vars, portalVars,
           jobVars
  <2>5. CASE Agent \/ CycleFails \/ Tick \/ \E j \in Jobs : ProviderFinishes(j)
    BY <2>1, <2>5, AgentChangesNoRow
  <2> QED
    BY <1>1, <2>3, <2>4, <2>5 DEF Next
<1>2. IInv /\ OutcomeInv /\ [Next]_vars =>
        [\A v \in VMs : snapshot[v].readAt <= snapshot'[v].readAt]_vars
  BY <1>1
<1> QED
  BY <1>2, InvariantHolds, OutcomesHold, PTL DEF Spec, SnapshotsAdvance

\* The provider is called on the revision the requester confirmed: between
\* validate_management_command and ExecMethod no other write of the machine is
\* at work, because a machine has one active job and none of an ended job.
THEOREM OnConfirmedRevision == Spec => ExecutionOnConfirmedRevision
<1>1. ASSUME IInv, OutcomeInv, [Next]_vars, NEW j \in Jobs, Executes(j)
      PROVE  config[Target[j]] = job[j].expected
  <2>1. ExecMethod
    BY <1>1, AgentChangesNoRow DEF Executes, Next, vars, agentVars, hostVars
  <2>2. journal.job = j /\ pc = "invoking"
    BY <1>1, <2>1 DEF Executes, ExecMethod
  <2> QED
    BY <1>1, <2>2 DEF OutcomeInv, KnownOK, RevisionConfirmed
<1>2. IInv /\ OutcomeInv /\ [Next]_vars =>
        [\A j \in Jobs : Executes(j) =>
           config[Target[j]] = job[j].expected]_vars
  BY <1>1
<1> QED
  BY <1>2, InvariantHolds, OutcomesHold, PTL
     DEF Spec, ExecutionOnConfirmedRevision

=============================================================================
