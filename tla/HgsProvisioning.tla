--------------------------- MODULE HgsProvisioning ---------------------------
(***************************************************************************)
(* HGS provisioning as a whole: managers, the portal (HgsPortal), links    *)
(* that lose and delay, and the Agents with their machines (HgsAgent).     *)
(***************************************************************************)
EXTENDS HgsAgent

vars == <<portalVars, agentVars>>

Init ==
  /\ plan = [status |-> "none", requester |-> Nobody, approver |-> Nobody,
             expired |-> FALSE, revoked |-> FALSE]
  /\ job = [j \in Jobs |-> NoRow]
  /\ clean = {}
  /\ recent = {}
  /\ tenantActive = TRUE
  /\ permitted = Managers
  /\ unrest = 0
  /\ request = [n \in Nodes |-> NoRequest]
  /\ reply = [n \in Nodes |-> NoReply]
  /\ late = {}
  /\ journal = [n \in Nodes |-> NoJournal]
  /\ receipts = [j \in Jobs |-> NoDoc]
  /\ fence = [n \in Nodes |-> NoJob]
  /\ releases = {}
  /\ torn = {}
  /\ pc = [n \in Nodes |-> "idle"]
  /\ outcome = [n \in Nodes |-> NoDoc]
  /\ host = [n \in Nodes |-> [boot |-> 1, pending |-> FALSE, shutdown |-> FALSE,
                              level |-> 0, staged |-> 0]]
  /\ applied = [j \in Jobs |-> [times |-> 0, boot |-> 0]]

User ==
  \/ \E m \in Managers :
       \/ CreatePlan(m)
       \/ \E reconciliation \in BOOLEAN : RequestInspection(m, reconciliation)
       \/ Authorize(m)
       \/ Cancel(m)
       \/ Resolve(m)
       \/ UpdateMembership(m)
       \/ MembershipExpires(m)
  \/ SuspendTenant
  \/ ReactivateTenant
  \/ \E age \in {"half_hour", "day"} : TimePasses(age)

Gateway(n, m, live) ==
  \/ Refuse(n, m, live)
  \/ Poll(n, m, live)
  \/ Claim(n, m, live)
  \/ Result(n, m, live)

Agent(n) ==
  \/ BeginCycle(n)
  \/ \E seen \in MaySee(n) :
       Recover(n, seen) \/ Observe(n, seen) \/ InspectAfter(n, seen)
  \/ PreflightFails(n)
  \/ SaveReceipt(n)
  \/ SaveJournal(n)
  \/ Reported(n)
  \/ ReceivePoll(n)
  \/ SaveClaiming(n)
  \/ ClaimFails(n)
  \/ ClaimGranted(n)
  \/ AuthorityLost(n)
  \/ NothingToDo(n)
  \/ Apply(n)
  \/ ApplyFails(n)
  \/ SaveRebootWait(n)
  \/ Refusal(n)

\* What goes on while no exchange is lost, no service stops and no Agent is
\* being updated.
Calm ==
  \/ User /\ UNCHANGED agentVars
  \/ \E n \in Nodes :
       \/ Gateway(n, request[n], TRUE) /\ UNCHANGED agentVars
       \/ Agent(n)
       \/ host[n].shutdown /\ Restart(n)

Interruption ==
  \/ \E n \in Nodes :
       \/ Withhold(n, request[n], TRUE) /\ UNCHANGED agentVars
       \/ HangUp(n) \/ Crash(n) \/ Restart(n)
  \/ \E d \in late :
       (Gateway(d[1], d[2], FALSE) \/ Withhold(d[1], d[2], FALSE)) /\ UNCHANGED agentVars

Next == Calm \/ Interruption
Spec == Init /\ [][Next]_vars

-----------------------------------------------------------------------------
(* Safety. *)

Requests ==
  [mode : {"none", "poll", "claim", "result"}, job : Jobs \cup {NoJob}, doc : Docs]
Replies ==
  [type : {"none", "job", "accepted", "rejected"},
   job : Jobs \cup {NoJob}, release : Jobs \cup {NoJob}]

TypeOK ==
  /\ plan \in [status : {"none", "failed", "cancelled", "succeeded"} \cup PlanActive,
               requester : Managers \cup {Nobody}, approver : Managers \cup {Nobody},
               expired : BOOLEAN, revoked : BOOLEAN]
  /\ job \in [Jobs -> [status : {"absent"} \cup Active \cup Terminal,
                       actor : Managers \cup {Nobody},
                       expires : {"half_hour", "day", "past"}, receipt : Docs,
                       preboot : Nat, released : BOOLEAN, claimed : BOOLEAN,
                       after : 0 .. Rounds]]
  /\ clean \subseteq Nodes
  /\ recent \subseteq Inspections
  /\ tenantActive \in BOOLEAN
  /\ permitted \subseteq Managers
  /\ unrest \in 0 .. MaxUnrest
  /\ request \in [Nodes -> Requests]
  /\ reply \in [Nodes -> Replies]
  /\ late \subseteq Nodes \X Requests
  /\ journal \in [Nodes -> [job : Jobs \cup {NoJob}, phase : {"none"} \cup Phases,
                            before : Views]]
  /\ receipts \in [Jobs -> Docs]
  /\ fence \in [Nodes -> Jobs \cup {NoJob}]
  /\ releases \subseteq Jobs
  /\ torn \subseteq Nodes
  /\ pc \in [Nodes -> {"idle", "reporting", "polling", "inspecting", "claiming",
                       "intent", "applied", "finishing", "saving", "delivering"}]
  /\ outcome \in [Nodes -> Docs]
  /\ host \in [Nodes -> [boot : Nat, pending : BOOLEAN, shutdown : BOOLEAN,
                         level : Levels, staged : Levels]]
  /\ applied \in [Jobs -> [times : Nat, boot : Nat]]

\* Whatever crashes, restarts, is lost, cancelled, withdrawn or reconciled:
\* steps are granted in the order of the plan, each only when all before it
\* are proven, and the machine is changed at most once for each (ADR-0019,
\* "it never re-executes the interrupted write").
Earlier(j) ==
  {i \in StepJobs : NodeOf(i) < NodeOf(j) \/ (NodeOf(i) = NodeOf(j) /\ i[3] < j[3])}
Plan == INSTANCE SteppedPlan
          WITH Steps <- StepJobs,
               Before <- Earlier,
               granted <- {j \in StepJobs : job[j].claimed},
               attempts <- [j \in StepJobs |-> applied[j].times],
               proven <- {j \in StepJobs : job[j].status = "succeeded"}

ImplementsSteppedPlan == Plan!Spec

\* What the portal counts as done is so on the machine: the step's effect is
\* there (or staged for the restart that follows), and a restart that was
\* ordered has happened since, whichever report or inspection proved it.
ProvenOnTheMachine ==
  \A j \in StepJobs : job[j].status = "succeeded" =>
     LET h == host[NodeOf(j)] IN
     /\ Max({h.level, h.staged}) >= Target(Operation(j))
     /\ Operation(j) = "reboot" /\ applied[j].times > 0 => h.boot > applied[j].boot

\* A step that is shown as failed or cancelled has left its machine alone, so
\* that nothing of it is to be reconciled, whenever the Agent stopped and
\* whichever report came through; what may have changed it is uncertain.
FailedStepsTouchNothing ==
  \A j \in StepJobs :
     job[j].status \in {"failed", "cancelled"} => applied[j].times = 0

\* A report the Agent waits for is never refused: every later cycle begins
\* with the same report, so that a refusal would end them all.
NoReportRefused ==
  \A n \in Nodes : pc[n] \in {"reporting", "delivering"} => reply[n] # Rejected

\* No machine is changed under a plan the portal shows as cancelled, failed or
\* succeeded, though work may be under way when it is cancelled.
SettledPlansAreQuiet ==
  [][applied' # applied =>
        plan.status \in {"running", "waiting_for_reboot", "reconciliation_required"}]_vars

\* A step of uncertain outcome keeps its machine from further changes until the
\* release a manager gave it is on the disk of the machine, also when the Agent
\* stopped between receipt, fence and journal.
UncertainStepsFence ==
  [][\A j \in StepJobs : applied'[j] # applied[j] =>
        \A k \in StepJobs \ releases :
           NodeOf(k) = NodeOf(j) /\ receipts[k] # NoDoc =>
              receipts[k].status # "reconciliation_required"]_vars

=============================================================================
