--------------------------- MODULE ManagementAgent ---------------------------
(***************************************************************************)
(* The Windows Agent's half of the Hyper-V management channel: the durable *)
(* journal (hyperv_management_journal.cpp), the management worker's cycle  *)
(* (run_management_cycle in windows_transport.cpp) and the calls it makes  *)
(* of the Hyper-V provider (hyperv_management_operations.cpp).             *)
(*                                                                         *)
(* One worker runs at a time (a mutex held for the whole cycle).  An       *)
(* action of the Agent ends where something else may happen: at an         *)
(* exchange with the portal, at a flush of the journal whose loss another  *)
(* step does not cover, at a call of the provider.                         *)
(***************************************************************************)
EXTENDS ManagementPortal

CONSTANT LateBound   \* how many abandoned requests may be on their way

ASSUME LateAssumption == LateBound \in Nat

VARIABLES
  journal,        \* current.json
  pc,             \* where the cycle is; "idle" between cycles
  claimStarted,   \* GetTickCount64() before the claim was sent
  provider,       \* what the provider does for each job
  calls,          \* how often the provider's method was executed for a job
  config          \* revision of each machine's configuration

hostVars == <<provider, calls, config>>
agentVars == <<journal, pc, claimStarted, hostVars>>

-----------------------------------------------------------------------------
(* The journal: at most one record. *)

Phases ==
  {"prepared", "invoking", "observing", "requires_reconciliation", "terminal"}
NoJournal == [job |-> NoJob, phase |-> "none", result |-> NoResult]
FinalResults == {result \in Results : result.status \in {"succeeded", "failed"}}
Journals ==
  [job : Jobs, phase : Phases \ {"terminal"}, result : {NoResult}]
    \cup [job : Jobs, phase : {"terminal"}, result : FinalResults]

Prepare(j) == [job |-> j, phase |-> "prepared", result |-> NoResult]
BeginInvocation(record) == [record EXCEPT !.phase = "invoking"]
BeginObservation(record) == [record EXCEPT !.phase = "observing"]
RequireReconciliation(record) ==
  [record EXCEPT !.phase = "requires_reconciliation"]
Complete(record, result) ==
  [record EXCEPT !.phase = "terminal", !.result = result]

ProviderStates == {"none", "running", "done", "failed"}

-----------------------------------------------------------------------------
(* Exchanges. *)

Send(action, j, result) ==
  /\ request' = [action |-> action, job |-> j, result |-> result]
  /\ reply' = NoReply
  /\ UNCHANGED late

HangUp == request' = NoRequest /\ reply' = NoReply /\ UNCHANGED late

\* Defect: the lease is measured from the receipt of the grant.
GotoFromReceipt(state) ==
  /\ pc' = state
  /\ claimStarted' = IF state \in {"claiming", "preflight"} THEN clock
                     ELSE IF state = "invoking" THEN claimStarted ELSE NotYet

\* claim_started lives from the sending of a claim to the end of the cycle's
\* way to the provider.
Goto(state) ==
  /\ pc' = state
  /\ claimStarted' = IF state = "claiming" THEN clock
                     ELSE IF state \in {"preflight", "invoking"} THEN claimStarted
                     ELSE NotYet

Outcome(status, phase, snap) ==
  [status |-> status, phase |-> phase, snap |-> snap]

Uncertain == Outcome("requires_reconciliation", "reconciliation", NoObservation)
Preflight == Outcome("failed", "preflight", NoObservation)
Failed == Outcome("failed", "completed", NoObservation)
\* Defect: the journal's phase is reported as the status.
ObservedPhase == Outcome("observing", "observing", NoObservation)
Observed == Outcome("running", "observing", NoObservation)

\* inspect_hyperv_virtual_machine: what the machine looks like now.
Observation(j) == [rev |-> config[Target[j]], readAt |-> clock]
Succeeded(j) == Outcome("succeeded", "completed", Observation(j))

\* Ends of a cycle that hold a result: final ones are journalled first.
ReportFinal(result) ==
  /\ journal' = Complete(journal, result)
  /\ Send("result", journal.job, result)
  /\ Goto("reporting")

ReportUncertain ==
  /\ journal' = RequireReconciliation(journal)
  /\ Send("result", journal.job, Uncertain)
  /\ Goto("reporting")

-----------------------------------------------------------------------------
(* The cycle up to the claim. *)

\* Defect: a settled record is not reported before the next work is asked for.
BeginCycleUnacknowledged ==
  /\ pc = "idle"
  /\ \/ /\ journal.phase \in {"none", "terminal"}
        /\ Send("poll", NoJob, NoResult)
        /\ Goto("polling")
     \/ /\ journal.phase \in Phases \ {"terminal"}
        /\ Send("lookup", journal.job, NoResult)
        /\ Goto("looking")
  /\ UNCHANGED <<portalVars, journal, hostVars>>

BeginCycle ==
  /\ pc = "idle"
  /\ \/ /\ journal = NoJournal
        /\ Send("poll", NoJob, NoResult)
        /\ Goto("polling")
     \/ /\ journal.phase = "terminal"
        /\ Send("result", journal.job, journal.result)
        /\ Goto("acknowledging")
     \/ /\ journal.phase \in Phases \ {"terminal"}
        /\ Send("lookup", journal.job, NoResult)
        /\ Goto("looking")
  /\ UNCHANGED <<portalVars, journal, hostVars>>

Acknowledged ==
  /\ pc = "acknowledging"
  /\ reply.type = "accepted"
  /\ Send("poll", NoJob, NoResult)
  /\ Goto("polling")
  /\ UNCHANGED <<portalVars, journal, hostVars>>

\* The record the rest of the cycle works on: a new binding replaces a
\* terminal record and is saved before anything else happens.
Bound == IF journal.job = reply.job THEN journal ELSE Prepare(reply.job)

HasAssignment ==
  /\ pc \in {"polling", "looking"}
  /\ reply.type = "assignment"
  /\ reply.job # NoJob

Interrupted(record) ==
  /\ record.phase \in {"invoking", "requires_reconciliation"}
  /\ record.job \in Mutations

CancelledUnused(record) ==
  reply.status = "cancelled" /\ record.phase = "prepared"

ReceiveNoWork ==
  /\ pc = "polling"
  /\ reply = NoOffer
  /\ HangUp
  /\ Goto("idle")
  /\ UNCHANGED <<portalVars, journal, hostVars>>

\* Defect: the record of cancelled work stays in place.
ReceiveCancelledUnarchived ==
  /\ HasAssignment
  /\ CancelledUnused(Bound)
  /\ HangUp
  /\ Goto("idle")
  /\ UNCHANGED <<portalVars, journal, hostVars>>

\* archive_prepared_management_journal
ReceiveCancelled ==
  /\ HasAssignment
  /\ CancelledUnused(Bound)
  /\ journal' = NoJournal
  /\ HangUp
  /\ Goto("idle")
  /\ UNCHANGED <<portalVars, hostVars>>

\* A settled record is reported again; an interrupted write is never retried.
ReceiveSettledOrInterrupted ==
  /\ HasAssignment
  /\ ~CancelledUnused(Bound)
  /\ \/ Bound.phase = "terminal"
     \/ Interrupted(Bound)
  /\ LET settled == Bound.phase = "terminal" IN
       /\ journal' = IF settled THEN Bound ELSE RequireReconciliation(Bound)
       /\ Send("result", Bound.job, IF settled THEN Bound.result ELSE Uncertain)
  /\ Goto("reporting")
  /\ UNCHANGED <<portalVars, hostVars>>

ReceiveAccepted ==
  /\ HasAssignment
  /\ Bound.phase = "observing"
  /\ HangUp
  /\ Goto("observing")
  /\ UNCHANGED <<portalVars, journal, hostVars>>

SendClaim ==
  /\ HasAssignment
  /\ ~CancelledUnused(Bound)
  /\ Bound.phase \in {"prepared", "invoking", "requires_reconciliation"}
  /\ ~Interrupted(Bound)
  /\ journal' = Bound
  /\ Send("claim", reply.job, NoResult)
  /\ Goto("claiming")
  /\ UNCHANGED <<portalVars, hostVars>>

-----------------------------------------------------------------------------
(* From the claim to the provider. *)

HasClaim == pc = "claiming" /\ reply.type = "claim"

ClaimCancelled ==
  /\ HasClaim
  /\ reply.mode = "cancelled"
  /\ journal.phase = "prepared" \/ journal.job \notin Mutations
  /\ journal' = IF journal.phase = "prepared" THEN NoJournal ELSE journal
  /\ HangUp
  /\ Goto("idle")
  /\ UNCHANGED <<portalVars, hostVars>>

\* Defect: a lost grant is not written down.
ClaimForgotten ==
  /\ HasClaim
  /\ reply.mode # "execute"
  /\ journal.job \in Mutations
  /\ ~(reply.mode = "cancelled" /\ journal.phase = "prepared")
  /\ HangUp
  /\ Goto("idle")
  /\ UNCHANGED <<portalVars, journal, hostVars>>

\* A lost grant looks like an earlier invocation whose receipt was lost.
ClaimFenced ==
  /\ HasClaim
  /\ reply.mode # "execute"
  /\ journal.job \in Mutations
  /\ ~(reply.mode = "cancelled" /\ journal.phase = "prepared")
  /\ journal' = RequireReconciliation(journal)
  /\ HangUp
  /\ Goto("idle")
  /\ UNCHANGED <<portalVars, hostVars>>

ClaimGranted ==
  /\ HasClaim
  /\ reply.mode = "execute"
  /\ journal.job \in Mutations
  /\ HangUp
  /\ Goto("preflight")
  /\ UNCHANGED <<portalVars, journal, hostVars>>

\* A read may be reconstructed from a lost claim response.
ClaimInspection ==
  /\ HasClaim
  /\ reply.mode \in {"execute", "observe"}
  /\ journal.job \notin Mutations
  /\ journal' = IF journal.phase = "prepared" THEN BeginInvocation(journal)
                ELSE journal
  /\ HangUp
  /\ Goto("inspecting")
  /\ UNCHANGED <<portalVars, hostVars>>

Inspect ==
  /\ pc = "inspecting"
  /\ \E result \in {Succeeded(journal.job), Failed} : ReportFinal(result)
  /\ UNCHANGED <<portalVars, hostVars>>

\* Defect: the last tick of the lease is counted in.
LeaseHeldTooLong == clock - claimStarted <= LeaseTicks
LeaseHeld == clock - claimStarted < LeaseTicks

\* Defect: the portal's snapshot is compared instead of the machine.
RevisionStored(j) == snapshot[Target[j]].rev = job[j].expected

\* validate_management_command on the inspection made just before; every
\* other preparation of the call may fail as well.
RevisionConfirmed(j) == config[Target[j]] = job[j].expected

PreflightFails ==
  /\ pc = "preflight"
  /\ ReportFinal(Preflight)
  /\ UNCHANGED <<portalVars, hostVars>>

\* before_invoke: write the intent durably ...
SaveIntent ==
  /\ pc = "preflight"
  /\ RevisionConfirmed(journal.job)
  /\ LeaseHeld
  /\ journal.phase = "prepared"
  /\ journal' = BeginInvocation(journal)
  /\ Goto("invoking")
  /\ UNCHANGED <<portalVars, linkVars, hostVars>>

\* ... and look at the lease again, for the flush may outlast it.
IntentExpired ==
  /\ pc = "invoking"
  /\ ReportFinal(Preflight)
  /\ UNCHANGED <<portalVars, hostVars>>

Effect(j, state) ==
  /\ provider' = [provider EXCEPT ![j] = state]
  /\ config' = IF state = "done"
               THEN [config EXCEPT ![Target[j]] = @ + 1] ELSE config

\* ExecMethod, and what the provider does with the call.
ExecMethod ==
  LET j == journal.job IN
  /\ pc = "invoking"
  /\ LeaseHeld
  /\ calls' = [calls EXCEPT ![j] = @ + 1]
  /\ \/ Effect(j, "none") /\ Goto("rejected")
     \/ Effect(j, "done") /\ Goto("applied")
     \/ Effect(j, "running") /\ Goto("started")
     \/ \E state \in {"none", "running", "done"} :
           Effect(j, state) /\ Goto("unknown")
  /\ UNCHANGED <<portalVars, linkVars, journal>>

ProviderRejected ==
  /\ pc = "rejected"
  /\ ReportFinal(Failed)
  /\ UNCHANGED <<portalVars, hostVars>>

\* completed(): only a confirming inspection makes a success.
ProviderApplied ==
  /\ pc = "applied"
  /\ ReportFinal(Succeeded(journal.job)) \/ ReportUncertain
  /\ UNCHANGED <<portalVars, hostVars>>

\* 4096: on_job saves the provider's job reference.
ProviderStarted ==
  /\ pc = "started"
  /\ \/ /\ journal' = BeginObservation(journal)
        /\ Send("result", journal.job, Observed)
        /\ Goto("reporting")
     \/ ReportUncertain
  /\ UNCHANGED <<portalVars, hostVars>>

\* Defect: a call without an answer is taken for a failure.
UnknownMeansFailed ==
  /\ pc = "unknown"
  /\ ReportFinal(Failed)
  /\ UNCHANGED <<portalVars, hostVars>>

AcceptanceUnknown ==
  /\ pc = "unknown"
  /\ ReportUncertain
  /\ UNCHANGED <<portalVars, hostVars>>

\* observe_hyperv_management: a job that cannot be read proves nothing.
ObserveProvider ==
  LET j == journal.job IN
  /\ pc = "observing"
  /\ \/ /\ provider[j] = "running"
        /\ Send("result", j, Observed)
        /\ Goto("reporting")
        /\ UNCHANGED journal
     \/ provider[j] = "done" /\ ReportFinal(Succeeded(j))
     \/ provider[j] = "failed" /\ ReportFinal(Failed)
     \/ ReportUncertain
  /\ UNCHANGED <<portalVars, hostVars>>

Reported ==
  /\ pc = "reporting"
  /\ reply.type = "accepted"
  /\ HangUp
  /\ Goto("idle")
  /\ UNCHANGED <<portalVars, journal, hostVars>>

-----------------------------------------------------------------------------
(* A refused exchange, and every other way a cycle ends early: an           *)
(* exception, a lost connection, a failed flush, a stop or a crash of the   *)
(* service.  The journal on disk is what the next cycle starts from.        *)

ExchangeRefused ==
  /\ reply.type = "rejected"
  /\ HangUp
  /\ Goto("idle")
  /\ UNCHANGED <<portalVars, journal, hostVars>>

CycleFails ==
  /\ pc # "idle"
  /\ request' = NoRequest
  /\ reply' = NoReply
  /\ late' = IF request # NoRequest /\ reply = NoReply
                 /\ Cardinality(late) < LateBound
             THEN late \cup {request} ELSE late
  /\ Goto("idle")
  /\ UNCHANGED <<portalVars, journal, hostVars>>

\* The asynchronous provider job ends; a failed one may have changed things.
ProviderFinishes(j) ==
  /\ provider[j] = "running"
  /\ \/ Effect(j, "done")
     \/ /\ provider' = [provider EXCEPT ![j] = "failed"]
        /\ \/ UNCHANGED config
           \/ config' = [config EXCEPT ![Target[j]] = @ + 1]
  /\ UNCHANGED <<portalVars, linkVars, journal, pc, claimStarted, calls>>

=============================================================================
