------------------------- MODULE ManagementInvariant -------------------------
(***************************************************************************)
(* The inductive invariant of HyperVManagement: what the Agent's journal    *)
(* proves about the portal and the provider.                               *)
(***************************************************************************)
EXTENDS HyperVManagement

Holds(j, phases) == journal.job = j /\ journal.phase \in phases

\* What the cycle is waiting for, and which answer it can get.
ExchangeOK ==
  /\ pc \in {"idle", "inspecting", "preflight", "invoking", "rejected",
             "applied", "started", "unknown", "observing"}
       => request = NoRequest /\ reply = NoReply
  /\ pc = "polling" => request = Poll
  /\ pc = "looking" => request.action = "lookup"
  /\ pc = "claiming" => request.action = "claim"
  /\ pc \in {"acknowledging", "reporting"} => request.action = "result"
  /\ pc \in {"looking", "claiming", "acknowledging", "reporting"}
       => request.job = journal.job
  /\ pc = "acknowledging" => request.result = journal.result
  /\ reply.type = "assignment" => request.action \in {"poll", "lookup"}
  /\ reply.type = "claim" => request.action = "claim"
  /\ reply.type = "accepted" => request.action = "result"
  /\ request.action \in {"lookup", "claim"} /\ reply.type \in {"assignment", "claim"}
       => reply.job = request.job

\* Which record the cycle works on.
PhaseOK ==
  /\ pc \notin {"idle", "polling"} => journal # NoJournal
  /\ pc = "looking" => journal.phase # "terminal"
  /\ pc = "acknowledging" => journal.phase = "terminal"
  /\ pc = "claiming" =>
       /\ journal.phase \notin {"observing", "terminal"}
       /\ journal.job \in Mutations => journal.phase = "prepared"
  /\ pc = "inspecting" => journal.phase # "terminal"
  /\ pc = "preflight" => journal.job \in Mutations /\ journal.phase = "prepared"
  /\ pc \in {"invoking", "rejected", "applied", "started", "unknown"}
       => journal.job \in Mutations /\ journal.phase = "invoking"
  /\ pc = "observing" => journal.phase = "observing"
  /\ pc = "reporting"
       => journal.phase \in {"observing", "requires_reconciliation", "terminal"}

\* A job's row: its result is its status, its times are in order.
RowOK(row) ==
  /\ row.result # NoResult => row.status = row.result.status
  /\ row.status \in {"absent", "queued", "delivered"} => row.started = NotYet
  /\ row.status \in ObservableStatuses => row.started # NotYet
  /\ row.started <= clock
  /\ row.revoked # NotYet => row.started <= row.revoked

RowsOK == \A j \in Jobs : RowOK(job[j])

\* A result is on its way only for a job that is settled, or whose record says
\* that nothing will be executed any more.
ReportsOK ==
  \A m \in late \cup {request} :
     m.action = "result" =>
        \/ Terminal(m.job)
        \/ Holds(m.job, {"observing", "requires_reconciliation", "terminal"})

\* What was executed stays on record until the portal has settled it.
CallsOK ==
  \A j \in Jobs :
     /\ calls[j] <= 1
     /\ calls[j] # 0 =>
          /\ job[j].status \in {"running", "requires_reconciliation",
                                "succeeded", "failed"}
          /\ \/ Terminal(j)
             \/ Holds(j, Phases \ {"prepared"})

\* Only acknowledged records are replaced.
PollOK ==
  /\ pc = "acknowledging" /\ reply.type = "accepted" => Terminal(journal.job)
  /\ pc = "polling" /\ journal # NoJournal
       => journal.phase = "terminal" /\ Terminal(journal.job)
  /\ pc = "polling" /\ reply.job # NoJob => calls[reply.job] = 0

\* A grant in the Agent's hands is the portal's only one, not yet used, and
\* younger than the start of the Agent's clock.
Unused(j) ==
  /\ job[j].status = "running"
  /\ calls[j] = 0
  /\ claimStarted <= job[j].started

GrantOK ==
  /\ claimStarted <= clock
  /\ pc = "claiming" /\ reply.mode = "execute" /\ journal.job \in Mutations
       => Unused(journal.job)
  /\ pc \in {"preflight", "invoking"} => Unused(journal.job)

IInv ==
  /\ TypeOK
  /\ ExchangeOK
  /\ PhaseOK
  /\ RowsOK
  /\ ReportsOK
  /\ CallsOK
  /\ PollOK
  /\ GrantOK

-----------------------------------------------------------------------------
(* What is told.  IInv says which jobs may still be executed; the rest says *)
(* what results, snapshots and revisions tell of them.  It is inductive     *)
(* beside IInv, which is not about contents.                                *)

Settled(j) == job[j].status \in {"succeeded", "failed"}
Granted(j) ==
  Settled(j) \/ job[j].status \in {"running", "requires_reconciliation"}

\* What a result says is so: of the provider, and of when it was read.
Told(j, status) ==
  j \in Mutations =>
    /\ status = "succeeded" => provider[j] = "done"
    /\ status = "failed" => provider[j] \in {"none", "failed"}

ResultOK(j, result) ==
  /\ Granted(j)
  /\ Told(j, result.status)
  /\ result.status = "succeeded" <=> result.snap # NoObservation
  /\ result.snap # NoObservation =>
       job[j].started <= result.snap.readAt /\ result.snap.readAt <= clock

\* A final result on its way is the journal's, or the portal has it.
FinalOK(j, result) ==
  result.status \in {"succeeded", "failed"} =>
    \/ Holds(j, {"terminal"}) /\ journal.result = result
    \/ Settled(j) /\ job[j].result = result

MessagesOK ==
  \A m \in late \cup {request} :
     m.action = "result" =>
       /\ ResultOK(m.job, m.result)
       /\ FinalOK(m.job, m.result)
       /\ m.result.status = "requires_reconciliation" =>
            Holds(m.job, {"requires_reconciliation"})

\* Whose record says more than "prepared" was granted; it is settled by the
\* record's result only.
RecordsOK ==
  /\ journal.phase \in {"observing", "requires_reconciliation"} =>
       journal.job \in Mutations
  /\ journal.phase \in Phases \ {"prepared"} => Granted(journal.job)
  /\ journal.phase \in Phases \ {"terminal"} => ~Settled(journal.job)
  /\ journal.phase = "terminal" =>
       /\ ResultOK(journal.job, journal.result)
       /\ Settled(journal.job) => job[journal.job].result = journal.result

\* What the table tells is so; a job in doubt is on record as such.
TableOK ==
  \A j \in Jobs :
     /\ Told(j, job[j].status)
     /\ job[j].status = "requires_reconciliation" =>
          Holds(j, {"requires_reconciliation"})

\* What the cycle knows where it stands.
KnownOK ==
  /\ pc = "polling" /\ reply.job # NoJob => ~Settled(reply.job)
  /\ pc = "claiming" /\ reply.type = "claim" /\ reply.mode # "cancelled" =>
       Granted(journal.job)
  /\ pc = "inspecting" => journal.job \notin Mutations /\ Granted(journal.job)
  /\ pc = "invoking" => RevisionConfirmed(journal.job)
  /\ pc = "rejected" => provider[journal.job] = "none"
  /\ pc = "applied" => provider[journal.job] = "done"
  /\ pc = "reporting" /\ request.result.status = "running" =>
       journal.phase = "observing"

\* The provider works only for writes that were executed.
ProviderOK ==
  \A j \in Jobs : calls[j] = 0 \/ j \notin Mutations => provider[j] = "none"

\* A machine has one active job.
MachinesOK ==
  \A j, k \in Jobs :
     j # k /\ Target[j] = Target[k] => ~(Active(j) /\ Active(k))

\* What is stored was read before the grants that are still open.
SnapshotsOK ==
  /\ \A v \in VMs : snapshot[v].readAt <= clock
  /\ \A j \in Jobs :
       Observable(j) => snapshot[Target[j]].readAt <= job[j].started

OutcomeInv ==
  /\ MessagesOK
  /\ RecordsOK
  /\ TableOK
  /\ KnownOK
  /\ ProviderOK
  /\ MachinesOK
  /\ SnapshotsOK
  /\ SnapshotConservative
  /\ NoReportRefused

=============================================================================
