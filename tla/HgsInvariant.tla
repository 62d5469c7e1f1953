---------------------------- MODULE HgsInvariant ----------------------------
(***************************************************************************)
(* The inductive invariant of HgsProvisioning.  A step changes its machine *)
(* only between its claim and its receipt, and a receipt is written once:  *)
(* whatever is reported as failed has a receipt that says so, and nothing  *)
(* follows a receipt.                                                      *)
(***************************************************************************)
EXTENDS HgsProvisioning

\* How far a machine is set up, counting what the next restart completes.
Reached(n) == Max({host[n].level, host[n].staged})

Uncertainty(j) ==
  receipts[j] # NoDoc /\ receipts[j].status = "reconciliation_required"

-----------------------------------------------------------------------------
(* The portal's rows. *)

RowOK(j) ==
  LET r == job[j] IN
  /\ r.claimed => r.status \in {"running", "waiting_for_reboot", "succeeded",
                                "failed", "reconciliation_required"}
  /\ ~r.claimed =>
       r.status \in {"absent", "queued", "offered", "cancelled", "failed"}
  /\ r.status \in {"absent", "queued", "offered"} => r.receipt = NoDoc
  /\ r.status = "waiting_for_reboot" => applied[j].times > 0
  /\ r.preboot # 0 =>
       /\ Operation(j) = "reboot" /\ applied[j].times > 0
       /\ r.preboot = applied[j].boot
  /\ r.status \in Terminal \ {"cancelled"} =>
       r.receipt = receipts[j] /\ receipts[j] # NoDoc
  /\ r.status = "cancelled" => r.receipt \in {NoDoc, receipts[j]}
  /\ r.status = "failed" => receipts[j].status = "failed"
  /\ r.status = "succeeded" /\ j \in Inspections =>
       receipts[j].status = "succeeded"

\* The rounds of inspections are requested one after the other, each of all
\* nodes.
Rounding(r) ==
  /\ \A j \in Inspections : job[j].status # "absent" <=> j[3] <= r
  /\ \A k \in StepJobs : job[k].status # "absent" => job[k].after <= r
RoundsOK == \E r \in 0 .. Rounds : Rounding(r)

OrderOK ==
  \A k \in StepJobs : job[k].status # "absent" =>
     /\ plan.approver # Nobody
     /\ \A i \in Earlier(k) : job[i].status = "succeeded"

PlanOK ==
  \A j \in StepJobs : job[j].status \in {"running", "waiting_for_reboot"} =>
     plan.status \in {"running", "waiting_for_reboot", "reconciliation_required"}

\* An inspection that was requested after a step was created saw the machine
\* as the step had left it.
Later(i, k) ==
  /\ NodeOf(i) = NodeOf(k) /\ job[k].status # "absent"
  /\ i[3] > job[k].after /\ job[i].status # "absent"
LaterOK ==
  \A i \in Inspections, k \in StepJobs :
     Later(i, k) => job[k].status \in Terminal
Fresh(i, doc) ==
  \A k \in StepJobs : Later(i, k) =>
     /\ doc.seen.boot >= applied[k].boot
     /\ receipts[k] # NoDoc /\ receipts[k].seen # NoDoc =>
          doc.seen.boot >= receipts[k].seen.boot

-----------------------------------------------------------------------------
(* The Agents and their machines. *)

\* What a terminal report of j tells.
DocOK(j, doc) ==
  LET n == NodeOf(j) op == Operation(j) IN
  /\ job[j].status # "absent"
  /\ doc.status = "failed" => applied[j].times = 0 /\ doc.seen = NoDoc
  /\ NotExecuted(doc) \/ job[j].claimed
  /\ doc.status = "succeeded" => doc.seen # NoDoc /\ Proves(op, doc.seen)
  /\ doc.status = "reboot_required" =>
       op \in {"install_role", "promote"} /\ Reached(n) >= Target(op)
  /\ doc.status = "reconciliation_required" => ~ReadOnly(j)
  /\ doc.seen # NoDoc =>
       /\ doc.seen.boot <= host[n].boot
       /\ doc.seen.level <= Reached(n)
       /\ op = "reboot" => doc.seen.boot >= applied[j].boot
       /\ op = "reboot" /\ applied[j].times > 0 /\ doc.status = "succeeded" =>
            doc.seen.boot > applied[j].boot
       /\ j \in Inspections => Fresh(j, doc)

ReceiptOK(j) == receipts[j] # NoDoc => DocOK(j, receipts[j])

\* A machine is changed for a claimed step without receipt, which its journal
\* holds.
AppliedOK(j) ==
  LET n == NodeOf(j) IN
  /\ applied[j].times = 0 => applied[j].boot = 0
  /\ applied[j].boot <= host[n].boot
  /\ applied[j].times > 0 =>
       /\ applied[j].times = 1
       /\ ~ReadOnly(j) /\ job[j].claimed
       /\ receipts[j] = NoDoc =>
            journal[n].job = j /\ journal[n].phase \in {"intent", "reboot_wait"}

HostOK(n) == host[n].staged \in {0, 2}

JournalOK(n) ==
  LET j == journal[n].job phase == journal[n].phase before == journal[n].before IN
  /\ j = NoJob <=> phase = "none"
  /\ j # NoJob => NodeOf(j) = n /\ job[j].status # "absent"
  /\ phase \in {"prepared", "claiming"} => applied[j].times = 0
  /\ phase \in {"claiming", "intent", "reboot_wait"} =>
       /\ before # NoDoc /\ before.boot <= host[n].boot
       /\ before.level <= Reached(n)
  /\ phase \in {"intent", "reboot_wait"} =>
       /\ job[j].claimed
       /\ applied[j].times > 0 => applied[j].boot = before.boot
  /\ phase = "reboot_wait" => Operation(j) = "reboot" /\ applied[j].times > 0
  /\ phase = "terminal" => receipts[j] # NoDoc

\* Where the worker is: what it holds and what it waits for.
WorkerOK(n) ==
  LET j == journal[n].job phase == journal[n].phase IN
  /\ pc[n] \in {"inspecting", "claiming", "intent", "applied", "finishing"} =>
       j # NoJob /\ receipts[j] = NoDoc
  /\ pc[n] = "inspecting" => phase = "prepared"
  /\ pc[n] = "claiming" => phase = "claiming"
  /\ pc[n] \in {"intent", "applied"} => phase = "intent"
  /\ pc[n] \in {"claiming", "intent"} => journal[n].before.boot = host[n].boot
  /\ pc[n] = "intent" => applied[j].times = 0
  /\ pc[n] = "applied" =>
       applied[j].times > 0 /\ Reached(n) >= Target(Operation(j))
  /\ pc[n] = "finishing" => outcome[n] # NoDoc /\ DocOK(j, outcome[n])
  /\ pc[n] = "saving" =>
       j # NoJob /\ outcome[n] # NoDoc /\ receipts[j] = outcome[n]
  /\ pc[n] \in {"polling", "reporting"} => j = NoJob \/ receipts[j] # NoDoc

ExchangeOK(n) ==
  /\ pc[n] = "polling" => request[n].mode = "poll"
  /\ pc[n] = "claiming" =>
       request[n].mode = "claim" /\ request[n].job = journal[n].job
  /\ pc[n] \in {"reporting", "delivering"} =>
       /\ request[n].mode = "result"
       /\ request[n].doc = receipts[request[n].job]
            \/ receipts[request[n].job] = NoDoc
  /\ pc[n] \notin {"polling", "claiming", "reporting", "delivering"} =>
       request[n] = NoRequest
  /\ pc[n] = "claiming" /\ reply[n].job = journal[n].job =>
       job[journal[n].job].claimed

\* The fence names the step of uncertain outcome, once the receipt is followed
\* by fence and journal; only its release lets another step in.
FenceOK(k) ==
  LET n == NodeOf(k) IN
  Uncertainty(k) /\ k \notin releases =>
    fence[n] = k \/ (journal[n].job = k /\ pc[n] \in {"idle", "saving"})
SoleFence(n) ==
  journal[n].job \in StepJobs => OpenFence(n) \in {NoJob, journal[n].job}

-----------------------------------------------------------------------------
(* The links. *)

\* A restart that was ordered, and not yet proven.
RebootNotice(j, doc) ==
  /\ doc.status = "reboot_required" /\ Operation(j) = "reboot"
  /\ applied[j].times > 0
  /\ doc.seen # NoDoc /\ doc.seen.boot = applied[j].boot

MessageOK(n, m) ==
  LET j == m.job IN
  /\ m.mode \in {"claim", "result"} =>
       j # NoJob /\ NodeOf(j) = n /\ job[j].status # "absent"
  /\ m.mode = "result" =>
       m.doc # NoDoc /\ (m.doc = receipts[j] \/ RebootNotice(j, m.doc))

ReplyOK(n) ==
  reply[n].type = "job" /\ reply[n].job # NoJob =>
    NodeOf(reply[n].job) = n /\ job[reply[n].job].status # "absent"

PortalOK ==
  /\ \A j \in Jobs : RowOK(j)
  /\ RoundsOK /\ OrderOK /\ PlanOK /\ LaterOK
NodeOK(n) ==
  /\ HostOK(n) /\ JournalOK(n) /\ WorkerOK(n) /\ ExchangeOK(n)
  /\ SoleFence(n) /\ ReplyOK(n) /\ MessageOK(n, request[n])
JobOK(j) == ReceiptOK(j) /\ AppliedOK(j)

IInv ==
  /\ TypeOK
  /\ PortalOK
  /\ \A n \in Nodes : NodeOK(n)
  /\ \A j \in Jobs : JobOK(j)
  /\ \A k \in StepJobs : FenceOK(k)
  /\ \A d \in late : MessageOK(d[1], d[2])
  /\ ProvenOnTheMachine
  /\ NoReportRefused

=============================================================================
