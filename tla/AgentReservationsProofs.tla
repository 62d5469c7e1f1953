----------------------- MODULE AgentReservationsProofs -----------------------
(***************************************************************************)
(* Theorems about AgentReservations: the looks the handlers take at each   *)
(* other's rows keep maintenance and work on one host apart.               *)
(***************************************************************************)
EXTENDS AgentReservations, TLAPS

\* What makes the exclusions inductive: they hold from the creation of a row
\* on, because each of two kinds looks at the other's row when it creates its
\* own, or one looks at every later step.  An HGS plan may be approved beside
\* a lifecycle job, and its step then waits.
CreatedApart ==
  /\ row["lifecycle"] # "absent" =>
       /\ row["management"] = "absent"
       /\ row["hgs"] \notin {"running", "waiting"}
  /\ row["management"] # "absent" => row["action"] = "absent"

IInv ==
  /\ TypeOK
  /\ CreatedApart
  /\ MaintenanceExcludesWork
  /\ VirtualMachineSerialized
  /\ SecretsGoWithWork

\* The six kinds, and what the rows of each may be.
LEMMA Rows ==
  /\ Kinds = {"management", "action", "lifecycle", "deployment", "gpo", "hgs"}
  /\ Statuses["management"] =
       {"queued", "delivered", "running", "requires_reconciliation"}
  /\ Statuses["action"] = {"queued", "delivered", "running"}
  /\ Statuses["lifecycle"] = {"queued", "delivered", "running"}
  /\ Statuses["deployment"] = {"queued", "running"}
  /\ Statuses["gpo"] =
       {"waiting", "lapsed", "running", "unresolved", "reported"}
  /\ Statuses["hgs"] =
       {"inspecting", "reserved", "queued", "offered", "running", "waiting",
        "unresolved"}
BY DEF Kinds, Statuses

\* A row that ends leaves the others as apart as they were.
LEMMA RowEnds ==
  ASSUME IInv, NEW k \in Kinds \ {"deployment"}, Become(k, "absent"), KeepAll
  PROVE  IInv'
<1> USE DEF Become, Keep, KeepAll
<1>1. /\ DOMAIN row' = Kinds
      /\ row'[k] = "absent"
      /\ \A i \in Kinds \ {k} : row'[i] = row[i]
  BY DEF IInv, TypeOK
<1>2. \A i \in Kinds : row'[i] \in {row[i], "absent"}
  BY <1>1
<1>3. row'["deployment"] = row["deployment"]
  BY <1>1, Rows
<1>4. TypeOK'
  BY <1>1, <1>2, <1>3 DEF IInv, TypeOK
<1>5. /\ CreatedApart' /\ MaintenanceExcludesWork'
      /\ VirtualMachineSerialized' /\ SecretsGoWithWork'
  BY <1>2, <1>3, Rows
     DEF IInv, CreatedApart, MaintenanceExcludesWork,
         VirtualMachineSerialized, SecretsGoWithWork
<1> QED
  BY <1>4, <1>5 DEF IInv

\* A management job is created, offered, claimed or settled.
LEMMA ManagementStep == IInv /\ ManagementNext => IInv'
<1> SUFFICES ASSUME IInv, ManagementNext PROVE IInv'
  OBVIOUS
<1> USE Rows DEF IInv, TypeOK, CreatedApart, MaintenanceExcludesWork,
       VirtualMachineSerialized, SecretsGoWithWork, Become, Keep, KeepAll,
       Reserved, Free, NoConflict, Executable, GpoAllowsMaintenance, GpoReady,
       DeploymentGuard, WithdrawAgentJob, Proceed, FencePlan, Fenced
<1>1. CASE CreateManagementJob
  BY <1>1 DEF CreateManagementJob
<1>2. CASE OfferManagementJob
  <2>1. CASE Executable /\ Become("management", "delivered")
    BY <1>2, <2>1 DEF OfferManagementJob
  <2>2. CASE Become("management", "absent")
    BY <1>2, <2>2, RowEnds DEF OfferManagementJob
  <2> QED
    BY <1>2, <2>1, <2>2 DEF OfferManagementJob
<1>3. CASE ClaimManagementJob
  <2>1. CASE Executable /\ Become("management", "running")
    BY <1>3, <2>1 DEF ClaimManagementJob
  <2>2. CASE Become("management", "absent")
    BY <1>3, <2>2, RowEnds DEF ClaimManagementJob
  <2> QED
    BY <1>3, <2>1, <2>2 DEF ClaimManagementJob
<1>4. CASE RecordManagementResult
  BY <1>4 DEF RecordManagementResult
<1> QED
  BY <1>1, <1>2, <1>3, <1>4 DEF ManagementNext

\* A power action is created beside no management job of its machine.
LEMMA ActionStep == IInv /\ ActionNext => IInv'
<1> SUFFICES ASSUME IInv, ActionNext PROVE IInv'
  OBVIOUS
<1> USE Rows DEF IInv, TypeOK, CreatedApart, MaintenanceExcludesWork,
       VirtualMachineSerialized, SecretsGoWithWork, Become, Keep, KeepAll,
       Reserved, Free, NoConflict, Executable, GpoAllowsMaintenance, GpoReady,
       DeploymentGuard, WithdrawAgentJob, Proceed, FencePlan, Fenced
<1>1. CASE CreateHyperVActionJob
  BY <1>1 DEF CreateHyperVActionJob
<1>2. CASE OfferHyperVActionJob
  <2> USE <1>2 DEF OfferHyperVActionJob
  <2>1. CASE Become("action", "delivered")
    BY <2>1
  <2>2. CASE Become("action", "absent")
    BY <2>2, RowEnds
  <2>3. CASE revoked' = revoked \cup {"action"} /\ UNCHANGED row
    BY <2>3
  <2> QED
    BY <2>1, <2>2, <2>3
<1>3. CASE RecordHyperVActionResult
  <2>1. CASE Become("action", "running")
    BY <1>3, <2>1 DEF RecordHyperVActionResult
  <2>2. CASE Become("action", "absent")
    BY <1>3, <2>2, RowEnds DEF RecordHyperVActionResult
  <2> QED
    BY <1>3, <2>1, <2>2 DEF RecordHyperVActionResult
<1> QED
  BY <1>1, <1>2, <1>3 DEF ActionNext

\* A lifecycle job is created beside no management job and no HGS plan, and
\* waits for GPO jobs.
LEMMA LifecycleStep == IInv /\ LifecycleNext => IInv'
<1> SUFFICES ASSUME IInv, LifecycleNext PROVE IInv'
  OBVIOUS
<1> USE Rows DEF IInv, TypeOK, CreatedApart, MaintenanceExcludesWork,
       VirtualMachineSerialized, SecretsGoWithWork, Become, Keep, KeepAll,
       Reserved, Free, NoConflict, Executable, GpoAllowsMaintenance, GpoReady,
       DeploymentGuard, WithdrawAgentJob, Proceed, FencePlan, Fenced
<1>1. CASE CreateLifecycleJob
  BY <1>1 DEF CreateLifecycleJob
<1>2. CASE OfferLifecycleJob
  <2> USE <1>2 DEF OfferLifecycleJob
  <2>1. CASE Become("lifecycle", "delivered")
    BY <2>1
  <2>2. CASE Become("lifecycle", "absent")
    BY <2>2, RowEnds
  <2>3. CASE revoked' = revoked \cup {"lifecycle"} /\ UNCHANGED row
    BY <2>3
  <2> QED
    BY <2>1, <2>2, <2>3
<1>3. CASE RecordLifecycleResult
  <2>1. CASE Become("lifecycle", "running")
    BY <1>3, <2>1 DEF RecordLifecycleResult
  <2>2. CASE Become("lifecycle", "absent")
    BY <1>3, <2>2, RowEnds DEF RecordLifecycleResult
  <2> QED
    BY <1>3, <2>1, <2>2 DEF RecordLifecycleResult
<1> QED
  BY <1>1, <1>2, <1>3 DEF LifecycleNext

\* The deployment's row runs under the guard only, and its credentials are
\* stored with it.
LEMMA DeploymentMoves ==
  ASSUME IInv, NEW status \in Statuses["deployment"] \cup {"absent"},
         Become("deployment", status), Keep, UNCHANGED removal,
         secret' \subseteq Deployments,
         "active" \in secret' <=> status # "absent",
         "ending" \in secret' <=> worker' = "ended",
         worker' \in {"idle", "claimed", "ended"},
         worker' = "claimed" => status = "running",
         status = "running" => DeploymentGuard
  PROVE  IInv'
<1> USE DEF Become, Keep
<1>1. /\ DOMAIN row' = Kinds
      /\ row'["deployment"] = status
      /\ \A i \in Kinds \ {"deployment"} : row'[i] = row[i]
  BY Rows DEF IInv, TypeOK
<1>2. /\ row'["management"] = row["management"]
      /\ row'["action"] = row["action"]
      /\ row'["lifecycle"] = row["lifecycle"]
      /\ row'["gpo"] = row["gpo"]
      /\ row'["hgs"] = row["hgs"]
  BY <1>1, Rows
<1>3. TypeOK'
  <2>1. \A k \in Kinds : row'[k] \in Statuses[k] \cup {"absent"}
    BY <1>1 DEF IInv, TypeOK
  <2>2. revoked' \subseteq {k \in Kinds : row'[k] # "absent"}
    BY <1>1 DEF IInv, TypeOK
  <2> QED
    BY <1>1, <2>1, <2>2 DEF IInv, TypeOK
<1>4. status = "running" =>
        /\ row["management"] \in {"absent", "lapsed"}
        /\ row["gpo"] \in {"absent", "lapsed"}
  BY DEF DeploymentGuard, Free, Reserved
<1>5. MaintenanceExcludesWork'
  BY <1>1, <1>2, <1>4 DEF IInv, MaintenanceExcludesWork
<1>6. CreatedApart' /\ VirtualMachineSerialized' /\ SecretsGoWithWork'
  BY <1>1, <1>2
     DEF IInv, CreatedApart, VirtualMachineSerialized, SecretsGoWithWork
<1> QED
  BY <1>3, <1>5, <1>6 DEF IInv

\* The deployment worker goes on, is done or dies, and leaves all rows alone.
LEMMA WorkerMoves ==
  ASSUME IInv, Keep, UNCHANGED <<row, revoked, removal>>,
         worker # "idle",
         worker' \in {"idle", "connected", "updating", "installing", "executing"},
         worker = "ended" => worker' = "idle",
         secret' \subseteq Deployments,
         "active" \in secret' <=> "active" \in secret,
         "ending" \notin secret'
  PROVE  IInv'
BY DEF IInv, TypeOK, CreatedApart, MaintenanceExcludesWork,
     VirtualMachineSerialized, SecretsGoWithWork, Keep

\* A deployment is guarded when it is claimed, and its worker has its row.
LEMMA DeploymentStep == IInv /\ DeploymentNext => IInv'
<1> SUFFICES ASSUME IInv, DeploymentNext PROVE IInv'
  OBVIOUS
<1>0. /\ TypeOK /\ SecretsGoWithWork
      /\ Statuses["deployment"] \cup {"absent"} = {"queued", "running", "absent"}
      /\ Deployments = {"active", "ending", "left"}
      /\ secret \subseteq Deployments
      /\ worker \in {"idle", "ended"} \/ row["deployment"] = "running"
  BY Rows DEF IInv, TypeOK, Deployments
<1>1. CASE QueueDeployment
  <2>1. worker \in {"idle", "ended"}
    BY <1>0, <1>1, Rows DEF QueueDeployment, Reserved, TypeOK
  <2>2. /\ secret' = secret \cup {"active"} /\ worker' = worker
        /\ Become("deployment", "queued") /\ Keep /\ UNCHANGED removal
    BY <1>1 DEF QueueDeployment
  <2> QED
    BY <1>0, <2>1, <2>2, DeploymentMoves DEF SecretsGoWithWork
<1>2. CASE ClaimNextDeployment
  <2>1. "active" \in secret /\ "ending" \notin secret
    BY <1>0, <1>2 DEF SecretsGoWithWork, ClaimNextDeployment
  <2>2. CASE Become("deployment", "running") /\ DeploymentGuard
    BY <1>0, <1>2, <2>1, <2>2, DeploymentMoves
       DEF ClaimNextDeployment, TypeOK
  <2>3. CASE Become("deployment", "absent") /\ ~DeploymentGuard
    BY <1>0, <1>2, <2>1, <2>3, DeploymentMoves DEF ClaimNextDeployment
  <2> QED
    BY <1>2, <2>2, <2>3 DEF ClaimNextDeployment
<1>3. CASE ConnectToHost
  BY <1>0, <1>3, WorkerMoves DEF ConnectToHost, Proceed, SecretsGoWithWork
<1>4. CASE AssessHost
  BY <1>0, <1>4, WorkerMoves DEF AssessHost, Proceed, SecretsGoWithWork
<1>5. CASE ExecuteScript
  BY <1>0, <1>5, WorkerMoves DEF ExecuteScript, Proceed, SecretsGoWithWork
<1>6. CASE EndDeployment
  <2>1. secret' = (secret \ {"active"}) \cup {"ending"} /\ worker' = "ended"
    BY <1>6 DEF EndDeployment
  <2> QED
    BY <1>0, <1>6, <2>1, DeploymentMoves DEF EndDeployment
<1>7. CASE DeleteSecret
  BY <1>0, <1>7, WorkerMoves DEF DeleteSecret
<1>8. CASE WorkerDies
  <2>1. CASE worker = "ended"
    BY <1>0, <1>8, <2>1, WorkerMoves DEF WorkerDies
  <2>2. CASE worker # "ended"
    BY <1>0, <1>8, <2>2, WorkerMoves DEF WorkerDies, SecretsGoWithWork
  <2> QED
    BY <2>1, <2>2
<1> QED
  BY <1>1, <1>2, <1>3, <1>4, <1>5, <1>6, <1>7, <1>8 DEF DeploymentNext

\* A GPO job is claimed beside no maintenance.
LEMMA GpoStep == IInv /\ GpoNext => IInv'
<1> SUFFICES ASSUME IInv, GpoNext PROVE IInv'
  OBVIOUS
<1> USE Rows DEF IInv, TypeOK, CreatedApart, MaintenanceExcludesWork,
       VirtualMachineSerialized, SecretsGoWithWork, Become, Keep, KeepAll,
       Reserved, Free, NoConflict, Executable, GpoAllowsMaintenance, GpoReady,
       DeploymentGuard, WithdrawAgentJob, Proceed, FencePlan, Fenced
<1>1. CASE QueueGpoJob
  BY <1>1 DEF QueueGpoJob
<1>2. CASE GpoJobLapses
  BY <1>2 DEF GpoJobLapses
<1>3. CASE ClaimGpoJob
  <2>1. CASE Become("gpo", "running")
    BY <1>3, <2>1 DEF ClaimGpoJob
  <2>2. CASE Become("gpo", "absent")
    BY <1>3, <2>2, RowEnds DEF ClaimGpoJob
  <2> QED
    BY <1>3, <2>1, <2>2 DEF ClaimGpoJob
<1>4. CASE SettleGpoJob
  BY <1>4 DEF SettleGpoJob
<1>5. CASE ReconcileGpoJob
  BY <1>5 DEF ReconcileGpoJob
<1> QED
  BY <1>1, <1>2, <1>3, <1>4, <1>5 DEF GpoNext

\* An HGS step is offered and claimed beside no lifecycle job.
LEMMA HgsStep == IInv /\ HgsNext => IInv'
<1> SUFFICES ASSUME IInv, HgsNext PROVE IInv'
  OBVIOUS
<1> USE Rows DEF IInv, TypeOK, CreatedApart, MaintenanceExcludesWork,
       VirtualMachineSerialized, SecretsGoWithWork, Become, Keep, KeepAll,
       Reserved, Free, NoConflict, Executable, GpoAllowsMaintenance, GpoReady,
       DeploymentGuard, WithdrawAgentJob, Proceed, FencePlan, Fenced
<1>1. CASE RequestInspection
  BY <1>1 DEF RequestInspection
<1>2. CASE InspectionEnds
  BY <1>2 DEF InspectionEnds
<1>3. CASE Authorize
  BY <1>3 DEF Authorize
<1>4. CASE OfferStep
  BY <1>4 DEF OfferStep
<1>5. CASE ClaimStep
  BY <1>5 DEF ClaimStep
<1>6. CASE StepReported
  <2>1. CASE row["hgs"] \in {"running", "waiting"}
    <3>1. row["lifecycle"] = "absent"
      BY <2>1
    <3>2. PICK status \in {"absent", "unresolved", "waiting", "queued",
                          "reserved"} :
            /\ row' = [row EXCEPT !["hgs"] = status]
            /\ revoked' = IF status = "absent" THEN revoked \ {"hgs"}
                          ELSE IF authority THEN revoked
                          ELSE revoked \cup {"hgs"}
      BY <1>6, <2>1 DEF StepReported
    <3>3. KeepAll
      BY <1>6 DEF StepReported
    <3> QED
      BY <2>1, <3>1, <3>2, <3>3
  <2>2. CASE row["hgs"] # "running" /\ row["hgs"] # "waiting"
    <3>1. Become("hgs", "absent") /\ KeepAll
      BY <1>6, <2>2 DEF StepReported
    <3> QED
      BY <3>1, RowEnds
  <2> QED
    BY <1>6, <2>1, <2>2 DEF StepReported
<1>7. CASE PlanProceeds
  BY <1>7 DEF PlanProceeds
<1>8. CASE ResolveStep
  BY <1>8 DEF ResolveStep
<1> QED
  BY <1>1, <1>2, <1>3, <1>4, <1>5, <1>6, <1>7, <1>8 DEF HgsNext

\* Withdrawal ends what is queued and leaves what is begun.
LEMMA WithdrawStep == IInv /\ Withdraw => IInv'
<1> SUFFICES ASSUME IInv, Withdraw PROVE IInv'
  OBVIOUS
<1> USE Rows DEF IInv, TypeOK
<1>1. PICK plan \in Fenced(row["hgs"]) :
        row' = [k \in Kinds |->
                 CASE k = "management" -> ManagementWithdrawn
                   [] k = "gpo" -> GpoInvalidated
                   [] k = "hgs" -> plan
                   [] OTHER -> Withdrawn(k)]
  BY DEF Withdraw
<1>2. /\ row'["management"] = ManagementWithdrawn
      /\ row'["gpo"] = GpoInvalidated
      /\ row'["hgs"] = plan
      /\ row'["action"] = Withdrawn("action")
      /\ row'["lifecycle"] = Withdrawn("lifecycle")
      /\ row'["deployment"] = Withdrawn("deployment")
  BY <1>1
<1>3. TypeOK'
  BY <1>1, <1>2
     DEF Withdraw, ManagementWithdrawn, GpoInvalidated, Withdrawn, Fenced
<1>4. CreatedApart' /\ VirtualMachineSerialized'
  BY <1>2
     DEF ManagementWithdrawn, Withdrawn, Fenced, CreatedApart,
         VirtualMachineSerialized
<1>5. MaintenanceExcludesWork'
  BY <1>2
     DEF Withdraw, ManagementWithdrawn, GpoInvalidated, Withdrawn, Fenced,
         CreatedApart, MaintenanceExcludesWork
<1>6. SecretsGoWithWork'
  BY <1>2 DEF Withdraw, Withdrawn, SecretsGoWithWork
<1> QED
  BY <1>3, <1>4, <1>5, <1>6

\* A host without work.
LEMMA InitOK == Init => IInv
BY Rows DEF Init, IInv, TypeOK, CreatedApart, MaintenanceExcludesWork,
     VirtualMachineSerialized, SecretsGoWithWork

\* Every step, one lemma per kind of work.
LEMMA StepOK == IInv /\ [Next]_vars => IInv'
<1> SUFFICES ASSUME IInv, [Next]_vars PROVE IInv'
  OBVIOUS
<1> USE DEF IInv, TypeOK, CreatedApart, MaintenanceExcludesWork,
       VirtualMachineSerialized, SecretsGoWithWork
<1>1. CASE ChangeAuthority
  BY <1>1 DEF ChangeAuthority
<1>2. CASE UNCHANGED vars
  BY <1>2 DEF vars
<1> QED
  BY <1>1, <1>2, ManagementStep, ActionStep, LifecycleStep, DeploymentStep,
     GpoStep, HgsStep, WithdrawStep DEF Next

\* Whatever is created, offered, claimed, carried out, withdrawn or killed, in
\* any order: the rows stay well formed and apart.
THEOREM ReservationsInvariant == Spec => []IInv
BY InitOK, StepOK, PTL DEF Spec

\* A deployment that is worked on keeps its running row (TypeOK): withdrawal
\* leaves it to its worker.
THEOREM ReservationsTyped == Spec => []TypeOK
<1>1. IInv => TypeOK
  BY DEF IInv
<1> QED
  BY <1>1, ReservationsInvariant, PTL

\* Maintenance and claimed work never hold one host together, although each
\* handler looks only at the rows it finds and takes no lock that lasts.
THEOREM MaintenanceApart == Spec => []MaintenanceExcludesWork
<1>1. IInv => MaintenanceExcludesWork
  BY DEF IInv
<1> QED
  BY <1>1, ReservationsInvariant, PTL

\* A claimed management job has its virtual machine to itself.
THEOREM MachinesSerialized == Spec => []VirtualMachineSerialized
<1>1. IInv => VirtualMachineSerialized
  BY DEF IInv
<1> QED
  BY <1>1, ReservationsInvariant, PTL

\* Credentials are stored while their deployment is active, and after it only
\* until its worker has come to their deletion: whatever else holds the host,
\* is withdrawn or refused.  A worker killed before that leaves them.
THEOREM SecretsDeleted == Spec => []SecretsGoWithWork
<1>1. IInv => SecretsGoWithWork
  BY DEF IInv
<1> QED
  BY <1>1, ReservationsInvariant, PTL

=============================================================================
