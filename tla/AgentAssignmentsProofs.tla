----------------------- MODULE AgentAssignmentsProofs -----------------------
(***************************************************************************)
(* Proofs about AgentAssignments.                                          *)
(***************************************************************************)
EXTENDS AssignmentStepProofs

USE DEF InHand

\* A user's step reaches neither the link nor the Agent.
LEMMA UserKeeps ==
  ASSUME User, UNCHANGED agentVars, NEW j \in Jobs, ~InHand(j)
  PROVE  ~InHand(j)'
<1>1. reply' = reply
  BY DEF User, CreateHyperVActionJob, CreateLifecycleJob, Queue,
         WithdrawIdentityOperations, ChangeMembership, SuspendTenant,
         ReactivateTenant, linkVars
<1>2. work' = work
  BY DEF agentVars, cycleVars
<1> QED  BY <1>1, <1>2

\* Only the answer to a cycle offers a job, and one that may be offered.
LEMMA GatewayOffers ==
  ASSUME AssignmentAssumption,
         NEW m, NEW live \in BOOLEAN, Gateway(m, live), UNCHANGED agentVars,
         NEW j \in Jobs, ~InHand(j), InHand(j)'
  PROVE  Offerable(j)
<1>1. work' = work
  BY DEF agentVars, cycleVars
<1>2. j # NoJob
  BY DEF AssignmentAssumption
<1>3. ASSUME NEW d, Answer(m, live, d)
      PROVE  d.type = "assignment" /\ d.job = j
  BY <1>1, <1>3 DEF Answer
<1>4. ASSUME AnswerCycle(m, live)
      PROVE  Offerable(j)
  <2>1. CASE OfferLifecycleJob(m, live)
    BY <2>1, <1>3 DEF OfferLifecycleJob, FirstOfferable, Document
  <2>2. CASE OfferHyperVActionJob(m, live)
    <3>1. ~Answer(m, live, NoAssignment)
      BY <1>2, <1>3 DEF NoAssignment, Document
    <3>2. PICK k \in FirstOfferable(VMActions) :
            Answer(m, live, Document("assignment", k))
      BY <2>2, <3>1 DEF OfferHyperVActionJob
    <3> QED  BY <3>2, <1>3 DEF FirstOfferable, Document
  <2>3. CASE Answer(m, live, Rejected)
    BY <2>3, <1>3 DEF Rejected, Document
  <2> QED  BY <1>4, <2>1, <2>2, <2>3 DEF AnswerCycle
<1>5. ~LifecycleArtifact(m, live)
  BY <1>3 DEF LifecycleArtifact, Rejected, Document
<1>6. ~RecordHyperVActionResult(m, live) /\ ~RecordLifecycleResult(m, live)
  BY <1>3 DEF RecordHyperVActionResult, RecordLifecycleResult, RecordResult,
              Accepted, Rejected, Document
<1> QED  BY <1>4, <1>5, <1>6 DEF Gateway

\* What the main thread works on it was offered before.
LEMMA AgentKeeps ==
  ASSUME AssignmentAssumption, Agent \/ ExchangeLost,
         NEW j \in Jobs, ~InHand(j)
  PROVE  ~InHand(j)'
<1>1. j # NoJob
  BY DEF AssignmentAssumption
<1>2. reply' = NoReply \/ reply' = reply
  BY DEF Agent, BeginCycle, LifecycleReported, ActionReported, ReceiveNothing,
         PassOverLifecycle, AcceptLifecycle, ReceiveBinary, LaunchUpdater,
         AcceptAction, ActionAccepted, ExecuteAction, ConfirmAction,
         ActionFinished, ExchangeRefused, ServiceRuns, ServiceStops,
         ExchangeLost, SendPendingAction, SendCycle, Send, HangUp, GiveUp,
         linkVars
<1>3. work' \in {work, NoFile} \/ work'.job = work.job
      \/ (reply.type = "assignment" /\ work'.job = reply.job)
  <2>1. CASE AcceptLifecycle \/ AcceptAction
    BY <2>1 DEF AcceptLifecycle, AcceptAction, Assigned, File
  <2>2. CASE ConfirmAction
    BY <2>2 DEF ConfirmAction, File
  <2>3. CASE LaunchUpdater \/ ActionFinished \/ ReceiveNothing
             \/ PassOverLifecycle \/ ExchangeRefused \/ ExchangeLost
    BY <2>3 DEF LaunchUpdater, ActionFinished, ReceiveNothing,
                PassOverLifecycle, ExchangeRefused, ExchangeLost, EndCycle
  <2>4. CASE BeginCycle \/ LifecycleReported \/ ActionReported
             \/ ReceiveBinary \/ ActionAccepted \/ ExecuteAction
             \/ ServiceRuns \/ ServiceStops
    BY <2>4 DEF BeginCycle, LifecycleReported, ActionReported, ReceiveBinary,
                ActionAccepted, ExecuteAction, ServiceRuns, ServiceStops,
                cycleVars
  <2> QED  BY <2>1, <2>2, <2>3, <2>4 DEF Agent
<1> QED  BY <1>1, <1>2, <1>3 DEF NoReply, Document, NoFile, File

\* The updater has a process and an exchange of its own.
LEMMA UpdaterKeeps ==
  ASSUME NEW k \in Lifecycle, Updater(k), NEW j \in Jobs, ~InHand(j)
  PROVE  ~InHand(j)'
<1>1. reply' = reply /\ work' = work
  BY DEF Updater, CheckUpdate, CheckFails, StopService, SeeStopped,
         StopRefused, StopTimesOut, ReplaceBinary, SetDisplayVersion,
         RecordSuccess, StartService, SeeRunning, UpdateFails, RestoreBinary,
         ResetDisplayVersion, RecordFailure, RestartService, RestartFails,
         RemoveRegistration, ReportUninstalled, ReportUninstalledFails,
         RemoveFails, Step, linkVars, cycleVars
<1> QED  BY <1>1

\* A killed process holds nothing.
LEMMA KilledHoldsNothing ==
  ASSUME AssignmentAssumption, ProcessEnds, NEW j \in Jobs
  PROVE  ~InHand(j)'
<1>1. j # NoJob
  BY DEF AssignmentAssumption
<1> QED
  BY <1>1
     DEF ProcessEnds, GiveUp, EndCycle, NoReply, Document, NoFile, File

\* A job comes into the Agent's hands only while it may be offered.
LEMMA OnlyOffersArrive ==
  ASSUME AssignmentAssumption, Next, NEW j \in Jobs, ~InHand(j), InHand(j)'
  PROVE  Offerable(j)
<1>1. CASE User /\ UNCHANGED agentVars
  BY <1>1, UserKeeps
<1>2. CASE Gateway(request, TRUE) /\ UNCHANGED agentVars
  BY <1>2, GatewayOffers
<1>3. CASE \E m \in late : Gateway(m, FALSE) /\ UNCHANGED agentVars
  BY <1>3, GatewayOffers
<1>4. CASE Agent \/ ExchangeLost
  BY <1>4, AgentKeeps
<1>5. CASE \E k \in Lifecycle : Updater(k)
  BY <1>5, UpdaterKeeps
<1>6. CASE ServiceCrashes \/ HostRestarts
  BY <1>6, KilledHoldsNothing DEF ServiceCrashes, HostRestarts
<1> QED
  BY <1>1, <1>2, <1>3, <1>4, <1>5, <1>6 DEF Next, Steady

\* Once authority_revoked_at is set, no answer of the gateway brings the job
\* to an Agent that does not hold it already: for any jobs, machines, users,
\* versions and abandoned requests.
THEOREM NoOfferAfterWithdrawal ==
  ASSUME AssignmentAssumption
  PROVE  Spec => NotOfferedAfterWithdrawal
<1>1. ASSUME [Next]_vars, NEW j \in Jobs, job[j].revoked, ~InHand(j)
      PROVE  ~InHand(j)'
  <2>1. CASE Next
    BY <2>1, <1>1, OnlyOffersArrive DEF Offerable
  <2>2. CASE UNCHANGED vars
    BY <2>2, <1>1 DEF vars, linkVars, agentVars, cycleVars
  <2> QED  BY <1>1, <2>1, <2>2
<1>2. [Next]_vars =>
        [\A j \in Jobs : job[j].revoked /\ ~InHand(j) => ~InHand(j)']_vars
  BY <1>1
<1> QED  BY <1>2, PTL DEF Spec, NotOfferedAfterWithdrawal

-----------------------------------------------------------------------------
(* The inductive invariant. *)

\* A registered Agent that was never given work satisfies the invariant.
LEMMA AssignmentsInit == Init => IInv
<1> SUFFICES ASSUME Init PROVE IInv
  OBVIOUS
<1>1. FirstVersion \in Nat \ {0}
  BY VersionAssumption
<1>2. TypeOK
  <2>1. job \in [Jobs -> Rows]
    BY DEF Init, Rows, NoRow, Statuses
  <2>2. created \in Seq(Jobs) /\ permitted \subseteq Actors \X Permissions
    BY DEF Init
  <2>3. ran \in [Jobs -> Nat] /\ source \in [Updates -> Nat] /\
          updater \in [Jobs -> UpdaterStates]
    BY DEF Init, UpdaterStates
  <2>4. version \in Nat \ {0} /\ registered \in Nat /\ backup \in Nat
    BY <1>1 DEF Init
  <2> QED
    BY <2>1, <2>2, <2>3, <2>4
       DEF Init, TypeOK, Replies, ServiceStates, Places, Works, Files
<1>3. \A j \in Jobs : Untouched(j) /\ ~Active(j) /\ ~InHand(j)
  BY JobKinds
     DEF Init, Untouched, Untold, Tells, Active, NoRow, ActiveStatuses,
         OfferableStatuses, InHand, NoRequest, Message, NoReply, Document,
         NoFile, File, Finals
<1>4. CycleOK /\ FilesOK /\ RunOnce /\ AcceptedUntouched /\ ConfirmingUntold
  BY DEF Init, CycleOK, FilesOK, RunOnce, AcceptedUntouched,
         ConfirmingUntold, NoRequest, Message, NoReply, Document, NoFile, File
<1>5. WaitingUntouched /\ OneStory /\ OneActive /\ InHandUntouched
  BY <1>3, JobKinds
     DEF WaitingUntouched, OneStory, OneActive, InHandUntouched, Untouched,
         Untold
<1>6. \A j \in Jobs : updater[j] = "none"
  BY DEF Init
<1>7. EarlyUntold /\ UpdaterKinds /\ OneDepends /\ BackupOK /\ Rises
  BY <1>6, JobKinds
     DEF Init, EarlyUntold, UpdaterKinds, OneDepends, BackupOK, BackupOf,
         Depends, Rises, Early, Saved, Replaced
<1> QED  BY <1>2, <1>4, <1>5, <1>7 DEF IInv

\* Every step of the system preserves the invariant: one case per disjunct of
\* Next.
LEMMA AssignmentsStep == IInv /\ [Next]_vars => IInv'
<1> SUFFICES ASSUME IInv, [Next]_vars PROVE IInv'
  OBVIOUS
<1>1. CASE User /\ UNCHANGED agentVars
  BY <1>1, UserStep
<1>2. CASE Gateway(request, TRUE) /\ UNCHANGED agentVars
  BY <1>2, GatewayStep
<1>3. CASE \E m \in late : Gateway(m, FALSE) /\ UNCHANGED agentVars
  BY <1>3, GatewayStep
<1>4. CASE Agent \/ ExchangeLost \/ ServiceCrashes
  BY <1>4, AgentStep
<1>5. CASE \E j \in Lifecycle : Updater(j)
  BY <1>5, UpdaterStep
<1>6. CASE HostRestarts
  BY <1>6, RestartStep
<1>7. CASE UNCHANGED vars
  <2>1. /\ UNCHANGED <<job, created, tenantActive, permitted, request, reply,
             late>>
        /\ UNCHANGED agentVars
    BY <1>7 DEF vars, portalVars, authorityVars, linkVars
  <2>2. OneActive' /\ (\A j \in Jobs : Follows(j)) /\ Answers
    BY <2>1 DEF IInv, OneActive, Active, Follows, Answers
  <2> QED  BY <2>1, <2>2, PortalStep DEF IInv, TypeOK
<1> QED
  BY <1>1, <1>2, <1>3, <1>4, <1>5, <1>6, <1>7 DEF Next, Steady

\* The invariant holds in every reachable state, whatever users, abandoned
\* requests, crashes and restarts of the host do.
THEOREM AssignmentsInvariant == Spec => []IInv
BY AssignmentsInit, AssignmentsStep, PTL DEF Spec

\* Every variable keeps its type: rows, files, messages, updaters and versions
\* are well formed in every reachable state.
THEOREM AssignmentsTyped == Spec => []TypeOK
<1>1. IInv => TypeOK
  BY DEF IInv
<1> QED  BY <1>1, AssignmentsInvariant, PTL

\* The result stored for a power action is never refuted by its row: the
\* portal shows the action as running, or with that very result (pending-
\* action-result against record_hyperv_action_result).
THEOREM StoredConsistent == Spec => []StoredOutcomeConsistent
<1>1. IInv => StoredOutcomeConsistent
  <2> SUFFICES ASSUME IInv, pendingAction # NoFile
               PROVE  job[pendingAction.job].status \in {"running",
                        pendingAction.result}
    BY DEF StoredOutcomeConsistent
  <2>1. pendingAction.job \in Jobs /\ pendingAction.result \in Finals /\
          pendingAction = File(pendingAction.job, pendingAction.result)
    BY DEF IInv, TypeOK, Files, File
  <2>2. pendingAction.job \in VMActions
    BY <2>1, JobKinds DEF IInv, FilesOK
  <2>3. Tells(pendingAction.job, pendingAction.result)
    BY <2>1 DEF Tells
  <2> QED  BY <2>1, <2>2, <2>3 DEF IInv, OneStory
<1> QED  BY <1>1, AssignmentsInvariant, PTL

\* Between the checks of an update and its outcome the rollback file holds the
\* binary to go back to, never the one being installed, even when a second
\* updater is launched after the first was interrupted.
THEOREM RollbackAlwaysPossible == Spec => []RollbackPossible
<1>1. IInv => RollbackPossible
  <2> SUFFICES ASSUME IInv, NEW j \in Updates
               PROVE  /\ updater[j] \in {"checked", "stopping", "stopped"} =>
                           backup = version
                      /\ updater[j] \in {"replaced", "registered", "recorded",
                           "starting", "rolling back"} =>
                           backup \notin {0, Version[j]}
    BY DEF RollbackPossible
  <2>1. BackupOf(j) /\ backup \in Nat /\ Version[j] \in Nat
    BY VersionAssumption DEF IInv, BackupOK, TypeOK
  <2>2. backup > 0 /\ backup < Version[j] => backup \notin {0, Version[j]}
    BY <2>1
  <2> QED  BY <2>1, <2>2 DEF BackupOf, Saved, Replaced
<1> QED  BY <1>1, AssignmentsInvariant, PTL

-----------------------------------------------------------------------------
(* The refinement of ManagedOperation. *)

\* The rows as the promise sees them.
stages == [j \in Jobs |-> StageOf(job[j].status)]

\* The stage of the promise each status of a row stands for.
LEMMA AssignmentStages ==
  /\ StageOf("absent") = "absent"
  /\ StageOf("queued") = "waiting"
  /\ StageOf("delivered") = "waiting"
  /\ StageOf("running") = "granted"
  /\ StageOf("succeeded") = "settled"
  /\ StageOf("failed") = "settled"
  /\ StageOf("cancelled") = "withdrawn"
BY DEF StageOf, OfferableStatuses, Finals

\* One row moves on: a step of the promise.
LEMMA AssignmentMoves ==
  ASSUME NEW j \in Jobs, \A k \in Jobs \ {j} : stages'[k] = stages[k],
         ran' = ran,
         <<stages[j], stages'[j]>> \in {<<"absent", "waiting">>,
           <<"waiting", "granted">>, <<"granted", "settled">>}
  PROVE  Promise!Next
<1>1. stages' = [stages EXCEPT ![j] = stages'[j]]
  BY DEF stages
<1>2. \/ stages[j] = "absent" /\ stages'[j] = "waiting"
      \/ stages[j] = "waiting" /\ stages'[j] = "granted"
      \/ stages[j] = "granted" /\ stages'[j] = "settled"
  OBVIOUS
<1>3. Promise!Request(j) \/ Promise!Grant(j) \/ Promise!Settle(j)
  BY <1>1, <1>2
     DEF Promise!Request, Promise!Grant, Promise!Settle, Promise!Move,
         stages
<1> QED  BY <1>3 DEF Promise!Next

\* Waiting rows are offered or withdrawn: a step of the promise.
LEMMA AssignmentWithdrawals ==
  ASSUME ran' = ran,
         \A j \in Jobs : \/ stages'[j] = stages[j]
                         \/ stages[j] = "waiting" /\ stages'[j] = "withdrawn"
  PROVE  Promise!Next
<1> DEFINE set == {j \in Jobs : stages[j] = "waiting" /\
  stages'[j] = "withdrawn"}
<1>1. stages' = [j \in Jobs |-> IF j \in set THEN "withdrawn" ELSE stages[j]]
  BY DEF stages
<1>2. \A j \in set : stages[j] = "waiting"
  OBVIOUS
<1> HIDE DEF set
<1>3. Promise!Withdraw(set)
  BY <1>1, <1>2 DEF Promise!Withdraw, stages
<1>4. set \in SUBSET Jobs
  BY DEF set
<1> QED  BY <1>3, <1>4 DEF Promise!Next

\* Whatever one message changes about the rows is a step of the promise.
LEMMA StatusMoves ==
  ASSUME IInv, ran' = ran, job' \in [Jobs -> Rows],
         \/ \A j \in Jobs :
              \/ job'[j].status = job[j].status
              \/ job[j].status \in OfferableStatuses /\
                   job'[j].status \in {"delivered", "cancelled"}
         \/ \E j \in Jobs :
              /\ \A k \in Jobs \ {j} : job'[k] = job[k]
              /\ \/ job[j].status = "absent" /\ job'[j].status = "queued"
                 \/ job[j].status = "delivered" /\ job'[j].status = "running"
                 \/ job[j].status = "running" /\ job'[j].status \in Finals
  PROVE  Promise!Next
<1>1. \A j \in Jobs : stages[j] = StageOf(job[j].status) /\
        stages'[j] = StageOf(job'[j].status)
  BY DEF stages
<1>2. CASE \A j \in Jobs :
              \/ job'[j].status = job[j].status
              \/ job[j].status \in OfferableStatuses /\
                   job'[j].status \in {"delivered", "cancelled"}
  BY <1>1, <1>2, AssignmentStages, AssignmentWithdrawals DEF OfferableStatuses
<1>3. CASE \E j \in Jobs :
              /\ \A k \in Jobs \ {j} : job'[k] = job[k]
              /\ \/ job[j].status = "absent" /\ job'[j].status = "queued"
                 \/ job[j].status = "delivered" /\ job'[j].status = "running"
                 \/ job[j].status = "running" /\ job'[j].status \in Finals
  <2>1. PICK j \in Jobs :
              /\ \A k \in Jobs \ {j} : job'[k] = job[k]
              /\ \/ job[j].status = "absent" /\ job'[j].status = "queued"
                 \/ job[j].status = "delivered" /\ job'[j].status = "running"
                 \/ job[j].status = "running" /\ job'[j].status \in Finals
    BY <1>3
  <2> QED  BY <1>1, <2>1, AssignmentStages, AssignmentMoves DEF Finals
<1> QED  BY <1>2, <1>3

\* Every step of a user is a step of the promise.
LEMMA AssignmentUserMoves ==
  ASSUME IInv, IInv', User, UNCHANGED agentVars
  PROVE  Promise!Next
<1>1. ran' = ran /\ job' \in [Jobs -> Rows]
  BY DEF agentVars, IInv, TypeOK
<1>2. CASE \E j \in Jobs : CreateHyperVActionJob(j) \/ CreateLifecycleJob(j)
  <2>1. PICK j \in Jobs : Queue(j)
    BY <1>2 DEF CreateHyperVActionJob, CreateLifecycleJob
  <2>2. job[j].status = "absent" /\ job'[j].status = "queued" /\
          \A k \in Jobs \ {j} : job'[k] = job[k]
    BY <2>1 DEF Queue, IInv, TypeOK, Rows
  <2> QED  BY <1>1, <2>2, StatusMoves
<1>3. CASE \E set \in SUBSET Jobs : job' = Withdraw(set)
  BY <1>1, <1>3, WithdrawRows, StatusMoves DEF OfferableStatuses
<1>4. CASE job' = job
  BY <1>1, <1>4, StatusMoves
<1>5. SuspendTenant \/ (\E a \in Actors : WithdrawIdentityOperations(a)) =>
        \E set \in SUBSET Jobs : job' = Withdraw(set)
  BY DEF SuspendTenant, WithdrawIdentityOperations
<1> QED
  BY <1>2, <1>3, <1>4, <1>5 DEF User, ReactivateTenant, ChangeMembership

\* Every message the gateway processes is a step of the promise.
LEMMA AssignmentGatewayMoves ==
  ASSUME IInv, IInv', NEW live \in BOOLEAN, NEW m, Gateway(m, live),
         UNCHANGED agentVars
  PROVE  Promise!Next
<1>1. ran' = ran /\ job' \in [Jobs -> Rows]
  BY DEF agentVars, IInv, TypeOK
<1>2. CASE UNCHANGED job
  BY <1>1, <1>2, StatusMoves
<1>3. CASE OfferLifecycleJob(m, live)
  <2>1. PICK j \in FirstOfferable(Lifecycle) : job' = Deliver(job, j)
    BY <1>3 DEF OfferLifecycleJob
  <2>2. j \in Jobs /\ job[j].status \in OfferableStatuses
    BY JobKinds DEF FirstOfferable, Offerable
  <2>3. job'[j].status = "delivered" /\ \A k \in Jobs \ {j} : job'[k] = job[k]
    BY <2>1, <2>2 DEF Deliver, IInv, TypeOK, Rows
  <2> QED  BY <1>1, <2>2, <2>3, StatusMoves
<1>4. CASE OfferHyperVActionJob(m, live)
  <2>1. PICK withdrawn \in {{}, Unauthorized(Lifecycle)} :
         \/ \E j \in FirstOfferable(VMActions) :
              job' = Deliver(Withdraw(withdrawn), j)
         \/ job' = Withdraw(withdrawn \cup Unauthorized(VMActions))
    BY <1>4 DEF OfferHyperVActionJob
  <2>2. withdrawn \in SUBSET Jobs /\
          withdrawn \cup Unauthorized(VMActions) \in SUBSET Jobs
    BY JobKinds DEF Unauthorized, FirstOfferable
  <2>3. CASE \E j \in FirstOfferable(VMActions) :
               job' = Deliver(Withdraw(withdrawn), j)
    <3>1. PICK j \in FirstOfferable(VMActions) :
                 job' = Deliver(Withdraw(withdrawn), j)
      BY <2>3
    <3>2. j \in Jobs /\ job[j].status \in OfferableStatuses
      BY JobKinds DEF FirstOfferable, Offerable
    <3>3. Withdraw(withdrawn) \in [Jobs -> Rows] /\ \A k \in Jobs :
            \/ Withdraw(withdrawn)[k].status = job[k].status
            \/ job[k].status = "queued" /\
                 Withdraw(withdrawn)[k].status = "cancelled"
      BY <2>2, WithdrawRows
    <3>4. job'[j].status = "delivered" /\
            \A k \in Jobs \ {j} : job'[k] = Withdraw(withdrawn)[k]
      BY <3>1, <3>2, <3>3 DEF Deliver, Rows
    <3> QED  BY <1>1, <3>2, <3>3, <3>4, StatusMoves DEF OfferableStatuses
  <2>4. CASE job' = Withdraw(withdrawn \cup Unauthorized(VMActions))
    BY <1>1, <2>2, <2>4, WithdrawRows, StatusMoves DEF OfferableStatuses
  <2> QED  BY <2>1, <2>3, <2>4
<1>5. CASE RecordHyperVActionResult(m, live) \/ RecordLifecycleResult(m, live)
  <2>1. CASE /\ Takes(job[m.job], m.result)
             /\ job' = [job EXCEPT ![m.job].status = m.result]
    <3>1. m.job \in Jobs /\ m.result \in Results
      BY <1>5
         DEF RecordHyperVActionResult, RecordLifecycleResult, Arrives, IInv,
             TypeOK, Requests, NoRequest, Message
    <3>2. job'[m.job].status = m.result /\
            \A k \in Jobs \ {m.job} : job'[k] = job[k]
      BY <2>1, <3>1 DEF IInv, TypeOK, Rows
    <3> QED  BY <1>1, <2>1, <3>1, <3>2, StatusMoves DEF Takes, Results
  <2> QED
    BY <1>2, <1>5, <2>1
       DEF RecordHyperVActionResult, RecordLifecycleResult, RecordResult
<1> QED
  BY <1>2, <1>3, <1>4, <1>5 DEF Gateway, AnswerCycle, LifecycleArtifact

\* A power action is carried out, or an updater launched, once, and for a job
\* the portal shows as running.
LEMMA AssignmentExecutes ==
  ASSUME IInv, job' = job, NEW j \in Jobs, job[j].status = "running",
         ran[j] = 0,
         ran' = [ran EXCEPT ![j] = @ + 1]
  PROVE  Promise!Next
<1>1. stages[j] = "granted" /\ stages' = stages /\ ran' = [ran EXCEPT ![j] = 1]
  BY AssignmentStages DEF stages
<1>2. Promise!Execute(j)
  BY <1>1 DEF Promise!Execute, stages
<1> QED  BY <1>2 DEF Promise!Next

\* The main thread's steps change no row, and carry out at most what was
\* granted.
LEMMA AssignmentAgentMoves ==
  ASSUME IInv, Agent \/ ExchangeLost \/ ServiceCrashes \/ HostRestarts
  PROVE  [Promise!Next]_(Promise!opVars)
<1>1. job' = job
  BY DEF Agent, BeginCycle, LifecycleReported, ActionReported, ReceiveNothing,
         PassOverLifecycle, AcceptLifecycle, ReceiveBinary, LaunchUpdater,
         AcceptAction, ActionAccepted, ExecuteAction, ConfirmAction,
         ActionFinished, ExchangeRefused, ServiceRuns, ServiceStops,
         ExchangeLost, ServiceCrashes, HostRestarts, portalVars
<1>2. CASE ran' = ran
  BY <1>1, <1>2 DEF Promise!opVars
<1>3. CASE LaunchUpdater /\ Launch(work.job)
  <2>1. work.job \in Jobs /\ job[work.job].status = "running" /\
          ran[work.job] = 0
    BY <1>3, JobKinds DEF LaunchUpdater, IInv, AcceptedUntouched, Untouched
  <2> QED  BY <1>1, <1>3, <2>1, AssignmentExecutes DEF Launch
<1>4. CASE ExecuteAction /\ ran' = [ran EXCEPT ![work.job] = @ + 1]
  <2>1. work.job \in Jobs /\ job[work.job].status = "running" /\
          ran[work.job] = 0
    BY <1>4, JobKinds
       DEF ExecuteAction, IInv, AcceptedUntouched, Untouched, CycleOK,
           Holding
  <2> QED  BY <1>1, <1>4, <2>1, AssignmentExecutes
<1> QED
  BY <1>2, <1>3, <1>4
     DEF Agent, BeginCycle, LifecycleReported, ActionReported,
         ReceiveNothing,
         PassOverLifecycle, AcceptLifecycle, ReceiveBinary, LaunchUpdater,
         AcceptAction, ActionAccepted, ExecuteAction, ConfirmAction,
         ActionFinished, ExchangeRefused, ServiceRuns, ServiceStops,
         ExchangeLost, ServiceCrashes, HostRestarts

\* What an updater reports settles its own running job.
LEMMA AssignmentUpdaterMoves ==
  ASSUME IInv, IInv', NEW j \in Lifecycle, Updater(j)
  PROVE  Promise!Next
<1>1. /\ ran' = ran
      /\ \/ job' = job
         \/ job' = [job EXCEPT ![j].status = "succeeded"] /\
              job[j].status = "running"
  BY DEF Updater, CheckUpdate, CheckFails, StopService, SeeStopped,
         StopRefused, StopTimesOut, ReplaceBinary, SetDisplayVersion,
         RecordSuccess, StartService, SeeRunning, UpdateFails, RestoreBinary,
         ResetDisplayVersion, RecordFailure, RestartService, RestartFails,
         RemoveRegistration, ReportUninstalled, ReportUninstalledFails,
         RemoveFails, Step, portalVars, Takes
<1>2. job' \in [Jobs -> Rows]
  BY DEF IInv, TypeOK
<1>3. CASE job' = job
  BY <1>1, <1>2, <1>3, StatusMoves
<1>4. CASE job' = [job EXCEPT ![j].status = "succeeded"] /\
             job[j].status = "running"
  <2>1. job'[j].status = "succeeded" /\ \A k \in Jobs \ {j} : job'[k] = job[k]
    BY <1>4, JobKinds DEF IInv, TypeOK, Rows
  <2> QED  BY <1>1, <1>2, <1>4, <2>1, JobKinds, StatusMoves DEF Finals
<1> QED  BY <1>1, <1>3, <1>4

\* The portal, the service, its updaters and the link between them implement
\* ManagedOperation: a job is requested, granted or withdrawn, carried out at
\* most once while granted, and settled once.
THEOREM AssignmentsImplement == Spec => ImplementsManagedOperation
<1>1. Init => Promise!Init
  BY AssignmentStages DEF Init, Promise!Init, NoRow
<1>2. IInv /\ IInv' /\ [Next]_vars => [Promise!Next]_(Promise!opVars)
  <2> SUFFICES ASSUME IInv, IInv', [Next]_vars
               PROVE  [Promise!Next]_(Promise!opVars)
    OBVIOUS
  <2>1. CASE User /\ UNCHANGED agentVars
    BY <2>1, AssignmentUserMoves
  <2>2. CASE Gateway(request, TRUE) /\ UNCHANGED agentVars
    BY <2>2, AssignmentGatewayMoves
  <2>3. CASE \E m \in late : Gateway(m, FALSE) /\ UNCHANGED agentVars
    BY <2>3, AssignmentGatewayMoves
  <2>4. CASE Agent \/ ExchangeLost \/ ServiceCrashes \/ HostRestarts
    BY <2>4, AssignmentAgentMoves
  <2>5. CASE \E j \in Lifecycle : Updater(j)
    BY <2>5, AssignmentUpdaterMoves
  <2>6. CASE UNCHANGED vars
    BY <2>6 DEF vars, portalVars, agentVars, Promise!opVars
  <2> QED
    BY <2>1, <2>2, <2>3, <2>4, <2>5, <2>6 DEF Next, Steady
<1> QED
  BY <1>1, <1>2, AssignmentsInvariant, PTL
     DEF Spec, ImplementsManagedOperation, Promise!Spec

=============================================================================
