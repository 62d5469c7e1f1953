--------------------------- MODULE HyperVManagement ---------------------------
(***************************************************************************)
(* The Hyper-V management channel as a whole: portal users, the portal     *)
(* (ManagementPortal), an unreliable link, the Agent with its journal and  *)
(* the Hyper-V provider (ManagementAgent).                                 *)
(***************************************************************************)
EXTENDS ManagementAgent

CONSTANT MaxClock   \* bounds the clock

ASSUME MaxClockAssumption == MaxClock \in Nat

vars == <<portalVars, linkVars, agentVars>>

\* An enrolled Agent without a journal.  A machine may have a stored snapshot
\* from an inspection that is not one of Jobs.
Init ==
  /\ job = [j \in Jobs |-> NoRow]
  /\ created = <<>>
  /\ tenantActive = TRUE
  /\ permitted = Actors
  /\ snapshot \in [VMs -> {NoStored, [rev |-> 0, readAt |-> 0, observedAt |-> 0]}]
  /\ clock = 0
  /\ request = NoRequest
  /\ reply = NoReply
  /\ late = {}
  /\ journal = NoJournal
  /\ pc = "idle"
  /\ claimStarted = NotYet
  /\ provider = [j \in Jobs |-> "none"]
  /\ calls = [j \in Jobs |-> 0]
  /\ config = [v \in VMs |-> 0]

Tick ==
  /\ clock < MaxClock
  /\ clock' = clock + 1
  /\ UNCHANGED <<jobVars, authorityVars, linkVars, agentVars>>

User ==
  \/ \E j \in Jobs : CreateManagementJob(j)
  \/ \E a \in Actors : WithdrawIdentityOperations(a) \/ ChangeMembership(a)
  \/ SuspendTenant
  \/ ReactivateTenant

Gateway(m, live) ==
  \/ OfferManagementJob(m, live)
  \/ ManagementJobStatus(m, live)
  \/ ClaimManagementJob(m, live)
  \/ RecordManagementResult(m, live)

Agent ==
  \/ BeginCycle
  \/ Acknowledged
  \/ ReceiveNoWork
  \/ ReceiveCancelled
  \/ ReceiveSettledOrInterrupted
  \/ ReceiveAccepted
  \/ SendClaim
  \/ ClaimCancelled
  \/ ClaimFenced
  \/ ClaimGranted
  \/ ClaimInspection
  \/ Inspect
  \/ PreflightFails
  \/ SaveIntent
  \/ IntentExpired
  \/ ExecMethod
  \/ ProviderRejected
  \/ ProviderApplied
  \/ ProviderStarted
  \/ AcceptanceUnknown
  \/ ObserveProvider
  \/ Reported
  \/ ExchangeRefused

Next ==
  \/ Tick
  \/ User /\ UNCHANGED agentVars
  \/ Gateway(request, TRUE) /\ UNCHANGED agentVars
  \/ \E m \in late : Gateway(m, FALSE) /\ UNCHANGED agentVars
  \/ Agent
  \/ CycleFails
  \/ \E j \in Jobs : ProviderFinishes(j)

Spec == Init /\ [][Next]_vars

TypeOK ==
  /\ job \in [Jobs -> Rows]
  /\ created \in Seq(Jobs)
  /\ tenantActive \in BOOLEAN
  /\ permitted \subseteq Actors
  /\ snapshot \in [VMs -> Stored]
  /\ clock \in Nat
  /\ request \in Requests \cup {NoRequest}
  /\ reply \in Replies \cup {NoReply}
  /\ late \subseteq Requests
  /\ journal \in Journals \cup {NoJournal}
  /\ pc \in {"idle", "acknowledging", "polling", "looking", "claiming",
             "inspecting", "preflight", "invoking", "rejected", "applied",
             "started", "unknown", "observing", "reporting"}
  /\ claimStarted \in Instant
  /\ provider \in [Jobs -> ProviderStates]
  /\ calls \in [Jobs -> Nat]
  /\ config \in [VMs -> Nat]


-----------------------------------------------------------------------------
(* Safety. *)

Executes(j) == calls'[j] # calls[j]

\* The channel keeps the promises of ManagedOperation: whatever is lost,
\* delayed or interrupted, a job is granted once, its provider method runs at
\* most once and only under an undoubted grant, withdrawn work never ran, and
\* a settled job stays settled.
StageOf(status) ==
  CASE status = "absent" -> "absent"
    [] status \in {"queued", "delivered"} -> "waiting"
    [] status = "running" -> "granted"
    [] status = "requires_reconciliation" -> "doubtful"
    [] status \in {"succeeded", "failed"} -> "settled"
    [] status = "cancelled" -> "withdrawn"

Promise == INSTANCE ManagedOperation
             WITH stage <- [j \in Jobs |-> StageOf(job[j].status)],
                  executed <- calls

ImplementsManagedOperation == Promise!Spec

\* The two halves of that promise a reader asks for first: no retry, crash or
\* late message makes the Agent execute a job's provider method twice, and the
\* portal never shows as cancelled a job that was executed.
ExecutedAtMostOnce ==
  \A j \in Jobs :
     /\ calls[j] <= 1
     /\ job[j].status \in {"absent", "queued", "delivered", "cancelled"}
          => calls[j] = 0

\* The Agent measures the lease from before its claim (claim_started), so that
\* no provider call starts after the portal's execution_lease_expires_at.
ExecutionWithinGrant ==
  [][\A j \in Jobs : Executes(j) =>
        /\ job[j].status = "running"
        /\ clock < job[j].started + LeaseTicks]_vars

\* Withdrawal of the requester's authority (suspension, rename, password)
\* recalls no grant, but nothing starts a lease's length after it.
ExecutionSoonAfterWithdrawal ==
  [][\A j \in Jobs : Executes(j) /\ job[j].revoked # NotYet =>
        clock < job[j].revoked + LeaseTicks]_vars

\* The provider method is executed on the very configuration the requester
\* confirmed, though operations of other jobs change it asynchronously.
ExecutionOnConfirmedRevision ==
  [][\A j \in Jobs : Executes(j) =>
        config[Target[j]] = job[j].expected]_vars

\* The portal reports what happened: success only after the effect, failure
\* only when the provider is not still working and applied nothing as a whole.
TruthfulOutcome ==
  \A j \in Mutations :
     /\ job[j].status = "succeeded" => provider[j] = "done"
     /\ job[j].status = "failed" => provider[j] \in {"none", "failed"}

\* "Fresh" is never claimed of an observation older than it looks: the stored
\* time precedes the moment the provider was read, however late the report.
SnapshotConservative ==
  \A v \in VMs : snapshot[v].observedAt <= snapshot[v].readAt

\* A late or repeated report never puts an older observation over a newer one.
SnapshotsAdvance ==
  [][\A v \in VMs : snapshot[v].readAt <= snapshot'[v].readAt]_vars

\* A report the Agent waits for is never refused: its journal would keep a
\* result the portal does not take, and every later cycle would end there.
NoReportRefused ==
  pc \in {"acknowledging", "reporting"} => reply.type # "rejected"

\* Work offered by a poll was never executed before, though the journal that
\* could tell has been overwritten by then.
NeverReassigned ==
  pc = "polling" /\ reply.job # NoJob => calls[reply.job] = 0

-----------------------------------------------------------------------------
(* Liveness.  The service repeats its cycle every five seconds and the     *)
(* gateway answers what reaches it; the provider's jobs end.  Cycles may   *)
(* fail as often as they like, but not for ever (some ends of a cycle look *)
(* the same whether it fails or returns).  Users, the clock and abandoned  *)
(* requests owe nothing.                                                   *)

Fairness ==
  /\ WF_vars(Agent)
  /\ WF_vars(Gateway(request, TRUE) /\ UNCHANGED agentVars)
  /\ \A j \in Jobs : WF_vars(ProviderFinishes(j))
  /\ <>[][CycleFails => Agent]_vars

FairSpec == Spec /\ Fairness

\* Granted work ends, or is handed over for reconciliation, provided the
\* Tenant is not suspended for ever.
GrantedWorkSettles ==
  <>[]tenantActive =>
     \A j \in Jobs : job[j].status = "running" ~> job[j].status # "running"

\* Accepted work does not wait for ever, unless the Agent is held by a job
\* that requires reconciliation.
AcceptedWorkMoves ==
  \A j \in Jobs :
     job[j].status \in {"queued", "delivered"} ~>
        \/ job[j].status \notin {"queued", "delivered"}
        \/ \E k \in Jobs : job[k].status = "requires_reconciliation"

=============================================================================

