----------------------------- MODULE GpoPortal -----------------------------
(***************************************************************************)
(* The control plane's half of the Group Policy jobs of one domain         *)
(* (apps/security/gpo_jobs.py, gpo_approvals.py, gpo_production.py,        *)
(* gpo_reconciliation.py): inspections of the one managed policy object,   *)
(* changes built on an inspection, unlinked pilots, their approval by      *)
(* other persons, and the reconciliation of changes of uncertain outcome.  *)
(*                                                                         *)
(* Requests of users and messages of Agents lock the Tenant row, so each   *)
(* is one atomic action.                                                   *)
(***************************************************************************)
EXTENDS Integers, FiniteSets

CONSTANTS
  Agents,      \* domain controllers that may execute
  Inspections, \* inspect_managed_gpo jobs
  Changes,     \* changes of the managed policy object
  Pilots,      \* schema 2 jobs, each of which makes an object of its own
  Executor,    \* the Agent of every job
  Users,       \* may hold the permissions and grants of domain and tier
  Nobody,      \* no user
  NoJob,       \* no job
  NoDoc,       \* no receipt, no observation
  Exists,      \* whether the managed object exists before the first job
  Rounds,      \* bounds the reconciliations of a job
  MaxUnrest    \* bounds withdrawals, drift, unready executors, passing time
               \* and requests that arrive late

Managed == Inspections \cup Changes
Jobs == Managed \cup Pilots

\* What is read of the directory, what a job comes to, and what is observed to
\* reconcile one.
Snapshots == [writes : Nat, drift : Nat]
Receipts ==
  [status : {"awaiting", "inspected", "success", "failed", "uncertain"},
   closing : BOOLEAN, guid : BOOLEAN, seen : Snapshots \cup {NoDoc}]
Observations == [at : Snapshots, sound : BOOLEAN]
Docs == Receipts \cup {NoDoc}
Views == Observations \cup {NoDoc}

ASSUME GpoAssumption ==
  /\ Executor \in [Jobs -> Agents]
  /\ Inspections \cap Changes = {} /\ Managed \cap Pilots = {}
  /\ Exists \in BOOLEAN
  /\ Rounds \in Nat /\ MaxUnrest \in Nat
  /\ Nobody \notin Users
  /\ NoJob \notin Jobs
  /\ NoDoc \notin Receipts /\ NoDoc \notin Observations /\ NoDoc \notin Snapshots

VARIABLES
  row,         \* GpoImportJob rows
  policy,      \* ManagedGpoPolicy of the managed object
  recon,       \* the latest GpoReconciliation of each change
  rule,        \* GpoApprovalPolicy and GpoDomainAuthorization
  permitted,   \* users who now hold permission and grant
  tenantActive,\* Tenant.status = ACTIVE
  overdue,     \* jobs whose expires_at has passed
  unrest,      \* how often something was disturbed, to bound it
  request,     \* per Agent, the request it waits on
  reply,       \* per Agent, its answer
  late         \* abandoned requests the gateway may still process

linkVars == <<request, reply, late>>
authorityVars == <<rule, permitted, tenantActive>>
portalVars == <<row, policy, recon, authorityVars, overdue, unrest, linkVars>>

-----------------------------------------------------------------------------
(* Data. *)

PreExecution == {"queued", "awaiting_approval"}
Active == PreExecution \cup {"running", "reconciliation_required"}
Done == {"inspected", "done"}   \* "done": staged, linked, activated, ...
Terminal == Done \cup {"failed", "expired", "reconciled"}
Pending == {"requested", "observed", "accept_requested"}

\* "closing": a failure whose code says that authority ended.  "seen": what
\* an inspection has read.  The status "success" is that of a write.
Doc(status, closing, guid, seen) ==
  [status |-> status, closing |-> closing, guid |-> guid, seen |-> seen]

NoRow == [status |-> "absent", requester |-> Nobody, approver |-> Nobody,
          claimed |-> FALSE, rule |-> 0, four |-> FALSE, revision |-> 0,
          named |-> FALSE, expected |-> NoDoc, digest |-> NoDoc]
NoRecord == [round |-> 0, status |-> "none", by |-> Nobody, accepter |-> Nobody,
             seen |-> NoDoc, rule |-> 0, four |-> FALSE, revision |-> 0,
             origin |-> NoDoc, overdue |-> FALSE]

Message(mode, j, doc, round, seen) ==
  [mode |-> mode, job |-> j, doc |-> doc, round |-> round, seen |-> seen]
NoRequest == Message("none", NoJob, NoDoc, 0, NoDoc)
Answer(type, j, mode, round, seen) ==
  [type |-> type, job |-> j, mode |-> mode, round |-> round, seen |-> seen]
NoReply == Answer("none", NoJob, "none", 0, NoDoc)
Nothing == Answer("job", NoJob, "none", 0, NoDoc)
Accepted == Answer("accepted", NoJob, "none", 0, NoDoc)
Rejected == Answer("rejected", NoJob, "none", 0, NoDoc)
NoControl == Answer("control", NoJob, "none", 0, NoDoc)
Control(j, mode) == Answer("control", j, mode, recon[j].round, recon[j].seen)

-----------------------------------------------------------------------------
(* Rows and policy are changed together: s is [row, policy].               *)

State == [row |-> row, policy |-> policy]
Become(s) == row' = s.row /\ policy' = s.policy
Disturbed == unrest < MaxUnrest /\ unrest' = unrest + 1

\* Defect: what a change has claimed ends like what it has not.
WithdrawForgetting(s, jobs, status) ==
  [s EXCEPT !.row = [j \in Jobs |->
     IF j \in jobs /\ s.row[j].status \in Active \ {"reconciliation_required"}
     THEN [s.row[j] EXCEPT !.status = status] ELSE s.row[j]]]
\* _invalidate, expire_jobs: claimed work becomes uncertain, and its policy.
Withdraw(s, jobs, status) ==
  LET hit == {j \in jobs : s.row[j].status \in Active \ {"reconciliation_required"}}
      doubtful == {j \in hit : s.row[j].claimed}
  IN  [row |-> [j \in Jobs |->
         IF j \in doubtful THEN [s.row[j] EXCEPT !.status = "reconciliation_required"]
         ELSE IF j \in hit THEN [s.row[j] EXCEPT !.status = status]
         ELSE s.row[j]],
       policy |-> [s.policy EXCEPT !.fenced = @ \/ doubtful \cap Changes # {}]]

Expire(s) == Withdraw(s, overdue, "expired")
Invalidate(s, j) == Withdraw(s, {j}, "failed")

\* Defect: only a claimed job keeps the domain.
IdleUnlessRunning(s) == \A j \in Jobs : s.row[j].status # "running"
Idle(s) == \A j \in Jobs : s.row[j].status \notin Active

PolicyCurrent(s, j) == s.row[j].rule = rule.revision /\ s.row[j].requester \in permitted

ApprovalCurrent(s, j) ==
  LET r == s.row[j] IN
  /\ r.approver \in permitted
  /\ PolicyCurrent(s, j)
  /\ r.four => r.approver # r.requester

\* _scope_current, scope_current.  ready: the executor is (_ready), and nothing
\* else the assignment was made from has changed.
ScopeCurrent(s, j, ready) ==
  /\ ready /\ tenantActive
  /\ PolicyCurrent(s, j)
  /\ s.row[j].approver # Nobody => ApprovalCurrent(s, j)
  /\ j \in Managed => s.policy.revision = s.row[j].revision /\ ~s.policy.fenced

-----------------------------------------------------------------------------
(* Requests of users. *)

NewRow(m, status) ==
  [NoRow EXCEPT !.status = status, !.requester = m, !.rule = rule.revision,
                !.four = rule.four, !.revision = policy.revision,
                !.named = policy.named]

\* create_preflight
CreatePreflight(m, i) ==
  LET s == Expire(State) IN
  /\ row[i].status = "absent" /\ tenantActive /\ m \in permitted
  /\ Idle(s) /\ ~s.policy.fenced
  /\ Become([s EXCEPT !.row[i] = NewRow(m, "queued")])
  /\ UNCHANGED <<recon, authorityVars, overdue, unrest, linkVars>>

InspectionCurrent(m, i) ==
  /\ row[i].status = "inspected" /\ i \notin overdue
  /\ m \in permitted
  /\ ScopeCurrent(State, i, TRUE)

\* create_change, approve_on_creation
CreateChange(m, i, c) ==
  LET s == Expire(State)
      alone == ~row[i].four
  IN
  /\ row[c].status = "absent" /\ tenantActive
  /\ Executor[c] = Executor[i]
  /\ InspectionCurrent(m, i)
  /\ Idle(s)
  /\ Become([s EXCEPT !.row[c] =
       [row[i] EXCEPT !.requester = m, !.expected = row[i].digest.seen, !.digest = NoDoc,
                      !.status = IF alone THEN "queued" ELSE "awaiting_approval",
                      !.approver = IF alone THEN m ELSE Nobody]])
  /\ UNCHANGED <<recon, authorityVars, overdue, unrest, linkVars>>

\* queue_job
QueuePilot(m, p) ==
  LET s == Expire(State) IN
  /\ row[p].status = "absent" /\ tenantActive /\ m \in permitted
  /\ Idle(s)
  /\ Become([s EXCEPT !.row[p] = [NewRow(m, "awaiting_approval") EXCEPT !.revision = 0,
                                                                         !.named = FALSE]])
  /\ UNCHANGED <<recon, authorityVars, overdue, unrest, linkVars>>

\* approval_blocker, approve_job
Approve(m, j) ==
  /\ j \notin Inspections /\ row[j].status \in PreExecution
  /\ j \notin overdue /\ row[j].approver = Nobody /\ m \in permitted
  /\ row[j].four => m # row[j].requester
  /\ ScopeCurrent(State, j, TRUE)
  /\ row' = [row EXCEPT ![j].approver = m, ![j].status = "queued"]
  /\ UNCHANGED <<policy, recon, authorityVars, overdue, unrest, linkVars>>

\* The rule of four eyes, or the grants, are put.
ChangeRule(four, holders) ==
  /\ Disturbed
  /\ rule' = [revision |-> rule.revision + 1, four |-> four]
  /\ permitted' = holders
  /\ (four # rule.four) # (holders # permitted)
  /\ Become(Withdraw(State, Jobs, "failed"))
  /\ UNCHANGED <<recon, tenantActive, overdue, linkVars>>

\* withdraw_gpo_jobs of a user; a membership that expires is only seen later.
WithdrawIdentity(m) ==
  /\ Disturbed
  /\ m \in permitted
  /\ permitted' = permitted \ {m}
  /\ Become(Withdraw(State, {j \in Jobs : m \in {row[j].requester, row[j].approver}}, "failed"))
  /\ UNCHANGED <<recon, rule, tenantActive, overdue, linkVars>>

MembershipExpires(m) ==
  /\ Disturbed
  /\ m \in permitted
  /\ permitted' = permitted \ {m}
  /\ UNCHANGED <<row, policy, recon, rule, tenantActive, overdue, linkVars>>

SuspendTenant ==
  /\ Disturbed
  /\ tenantActive
  /\ tenantActive' = FALSE
  /\ Become(Withdraw(State, Jobs, "failed"))
  /\ UNCHANGED <<recon, rule, permitted, overdue, linkVars>>

ReactivateTenant ==
  /\ ~tenantActive
  /\ tenantActive' = TRUE
  /\ UNCHANGED <<row, policy, recon, rule, permitted, overdue, unrest, linkVars>>

\* A quarter of an hour passes, or the hour a pilot has.  Of jobs that ended the
\* expiry matters to inspections only.
TimePasses(hour) ==
  /\ Disturbed
  /\ overdue' = overdue \cup
       {j \in Jobs : row[j].status \in Active \cup {"inspected"} /\ (hour \/ j \in Managed)}
  /\ recon' = [c \in Changes |-> [recon[c] EXCEPT !.overdue = @ \/ recon[c].status \in Pending]]
  /\ UNCHANGED <<row, policy, authorityVars, linkVars>>

\* The pages that list jobs expire them.
ExpireJobs ==
  /\ Become(Expire(State))
  /\ UNCHANGED <<recon, authorityVars, overdue, unrest, linkVars>>

-----------------------------------------------------------------------------
(* Reconciliation, as its users see it. *)

\* _authority
Authorized(s, c) ==
  LET e == recon[c] r == s.row[c] IN
  /\ r.status = "reconciliation_required" /\ r.digest = e.origin
  /\ s.policy.fenced /\ s.policy.revision = e.revision
  /\ rule.revision = e.rule
  /\ tenantActive /\ e.by \in permitted
  /\ e.status = "accept_requested" =>
       /\ e.accepter \in permitted
       /\ e.four => e.accepter \notin {r.requester, e.by}

\* _expire, and the test of the authority: what the record has become.
Reviewed(s, c, ready) ==
  IF recon[c].status \in Pending
     /\ (recon[c].overdue \/ ~ready \/ ~Authorized(s, c))
  THEN [recon[c] EXCEPT !.status = "stale"] ELSE recon[c]

\* GpoReconciliationsView.post; an observation is superseded.
RequestReconciliation(m, c) ==
  /\ row[c].status = "reconciliation_required" /\ policy.fenced
  /\ tenantActive /\ m \in permitted
  /\ Reviewed(State, c, TRUE).status \notin {"requested", "accept_requested"}
  /\ recon[c].round < Rounds
  /\ recon' = [recon EXCEPT ![c] =
       [NoRecord EXCEPT !.round = recon[c].round + 1, !.status = "requested", !.by = m,
                        !.rule = rule.revision, !.four = row[c].four \/ rule.four,
                        !.revision = policy.revision, !.origin = row[c].digest]]
  /\ UNCHANGED <<row, policy, authorityVars, overdue, unrest, linkVars>>

\* accept_blocker, observation_blocker, GpoReconciliationAcceptView.post
Accept(m, c) ==
  LET e == Reviewed(State, c, TRUE) IN
  /\ e.status = "observed" /\ e.seen.sound
  /\ m \in permitted
  /\ e.four => m \notin {row[c].requester, e.by}
  /\ recon' = [recon EXCEPT ![c] = [e EXCEPT !.accepter = m, !.status = "accept_requested"]]
  /\ UNCHANGED <<row, policy, authorityVars, overdue, unrest, linkVars>>

\* projection
Review(c) ==
  /\ recon' = [recon EXCEPT ![c] = Reviewed(State, c, TRUE)]
  /\ UNCHANGED <<row, policy, authorityVars, overdue, unrest, linkVars>>

-----------------------------------------------------------------------------
(* Messages of the Agents (security_gpo_exchange).  live: the Agent still  *)
(* waits.  What is rejected is rolled back.                                *)

Arrives(a, m, live) ==
  IF live THEN m = request[a] /\ reply[a] = NoReply ELSE <<a, m>> \in late

Respond(a, m, live, answer) ==
  /\ reply' = IF live THEN [reply EXCEPT ![a] = answer] ELSE reply
  /\ late' = IF live THEN late ELSE late \ {<<a, m>>}
  /\ UNCHANGED request

\* The executor is found unready only where that is looked at.
Readiness(ready) == IF ready THEN UNCHANGED unrest ELSE Disturbed

\* A suspended Tenant's Agent may poll, look up and report.
Refuse(a, m, live) ==
  /\ Arrives(a, m, live)
  /\ m.mode \notin {"none", "poll", "lookup", "result"} /\ ~tenantActive
  /\ Respond(a, m, live, Rejected)
  /\ UNCHANGED <<row, policy, recon, authorityVars, overdue, unrest>>

Offer(s, j) ==
  Answer("job", j, IF ApprovalCurrent(s, j) THEN "approved" ELSE "unapproved", 0, NoDoc)

Poll(a, m, live, ready) ==
  LET s == Expire(State)
      offers == {j \in Jobs : Executor[j] = a /\ s.row[j].status \in PreExecution}
  IN
  /\ Arrives(a, m, live)
  /\ m.mode = "poll"
  /\ \/ /\ offers = {} /\ ready
        /\ Become(s)
        /\ Respond(a, m, live, Nothing)
     \/ \E j \in offers :
          IF ScopeCurrent(s, j, ready)
          THEN Become(s) /\ Respond(a, m, live, Offer(s, j))
          ELSE Become(Invalidate(s, j)) /\ Respond(a, m, live, Nothing)
  /\ Readiness(ready)
  /\ UNCHANGED <<recon, authorityVars, overdue>>

Lookup(a, m, live, ready) ==
  LET j == m.job
      s == Expire(State)
      r == IF s.row[j].status \in PreExecution /\ ~ScopeCurrent(s, j, ready)
           THEN Invalidate(s, j) ELSE s
  IN
  /\ Arrives(a, m, live)
  /\ m.mode = "lookup"
  /\ ready \/ row[j].status \in PreExecution
  /\ Become(r)
  /\ Respond(a, m, live, IF r.row[j].status \in Active THEN Offer(r, j) ELSE Nothing)
  /\ Readiness(ready)
  /\ UNCHANGED <<recon, authorityVars, overdue>>

\* Defect: what was approved when it was offered may be executed.
ClaimUnchecked(a, m, live, ready) ==
  /\ Arrives(a, m, live)
  /\ m.mode = "claim" /\ tenantActive /\ ready
  /\ row[m.job].status \in PreExecution
  /\ row' = [row EXCEPT ![m.job].status = "running", ![m.job].claimed = TRUE]
  /\ Respond(a, m, live, Answer("claim", m.job, "execute", 0, NoDoc))
  /\ UNCHANGED <<policy, recon, authorityVars, overdue, unrest>>
Claim(a, m, live, ready) ==
  LET j == m.job
      s == Expire(State)
      current == ScopeCurrent(s, j, ready) /\ j \notin overdue
      waiting == s.row[j].status \in PreExecution
      granted == current /\ waiting /\ ApprovalCurrent(s, j)
      r == IF granted
           THEN [s EXCEPT !.row[j].status = "running", !.row[j].claimed = TRUE]
           ELSE IF ~current \/ waiting THEN Invalidate(s, j) ELSE s
      mode == IF granted THEN "execute"
              ELSE IF r.row[j].status = "running" THEN "observe"
              ELSE IF r.row[j].status = "reconciliation_required" THEN "reconcile"
              ELSE "cancelled"
  IN
  /\ Arrives(a, m, live)
  /\ m.mode = "claim" /\ tenantActive
  /\ Become(r)
  /\ Respond(a, m, live, Answer("claim", j, mode, 0, NoDoc))
  /\ Readiness(ready)
  /\ UNCHANGED <<recon, authorityVars, overdue>>

-----------------------------------------------------------------------------
(* Results (_result, receive_success).                                     *)

Replays(j, doc) ==
  row[j].digest = doc /\ row[j].status \in Terminal \cup {"reconciliation_required"}

\* The journal of an offer that ended meanwhile is closed.
Closes(j, doc) ==
  /\ row[j].status \in {"expired", "failed"}
  /\ ~row[j].claimed /\ row[j].digest = NoDoc
  /\ doc.status = "failed" /\ doc.closing

Waits(j, doc) == doc.status = "awaiting" /\ row[j].status \in PreExecution

Succeeds(j, doc, ready) ==
  LET r == row[j] IN
  \/ /\ j \in Inspections /\ doc.status = "inspected"
     /\ r.status = "queued" /\ j \notin overdue /\ ScopeCurrent(State, j, ready)
  \/ /\ j \in Changes /\ doc.status = "success"
     /\ r.status = "running" /\ policy.revision = r.revision
  \/ /\ j \in Pilots /\ doc.status = "success"
     /\ r.claimed /\ r.status \notin Terminal

Ends(j, doc) == doc.status \in {"failed", "uncertain"} /\ row[j].status \notin Terminal

Succeed(j, doc) ==
  /\ row' = [row EXCEPT ![j].status = IF j \in Inspections THEN "inspected" ELSE "done",
                        ![j].digest = doc]
  /\ policy' = IF j \in Changes
               THEN [revision |-> policy.revision + 1, fenced |-> FALSE, named |-> TRUE]
               ELSE policy

\* Defect: what is reported is stored as it is, also of work that was claimed.
EndVerbatim(j, doc) ==
  Become([row |-> [row EXCEPT ![j].digest = doc, ![j].status = doc.status], policy |-> policy])
\* A write that timed out or was reported in part cannot release the domain.
End(j, doc) ==
  LET doubtful == doc.status = "uncertain" \/ row[j].claimed IN
  Become([row |-> [row EXCEPT ![j].digest = doc, ![j].status =
                     IF doubtful THEN "reconciliation_required" ELSE "failed"],
          policy |-> [policy EXCEPT !.fenced = @ \/ (doubtful /\ j \in Changes)]])

Result(a, m, live, ready) ==
  LET j == m.job doc == m.doc
      taken == Replays(j, doc) \/ Closes(j, doc) \/ Waits(j, doc)
               \/ Succeeds(j, doc, ready) \/ Ends(j, doc)
  IN
  /\ Arrives(a, m, live)
  /\ m.mode = "result"
  /\ ready \/ (j \in Inspections /\ doc.status = "inspected")
  /\ Respond(a, m, live, IF taken THEN Accepted ELSE Rejected)
  /\ \/ /\ Replays(j, doc) \/ ~taken
        /\ UNCHANGED <<row, policy>>
     \/ /\ Closes(j, doc)
        /\ row' = [row EXCEPT ![j].digest = doc]
        /\ UNCHANGED policy
     \/ /\ Waits(j, doc)
        /\ row' = IF row[j].approver # Nobody THEN row
                  ELSE [row EXCEPT ![j].status = "awaiting_approval"]
        /\ UNCHANGED policy
     \/ /\ Succeeds(j, doc, ready)
        /\ Succeed(j, doc)
     \/ /\ Ends(j, doc) /\ ~Replays(j, doc)
        /\ End(j, doc)
  /\ Readiness(ready)
  /\ UNCHANGED <<recon, authorityVars, overdue>>

-----------------------------------------------------------------------------
(* Reconciliation, as the Agents see it (gpo_reconciliation.exchange).     *)

Released(s, c) == recon[c].status = "accepted" /\ s.row[c].status = "reconciled"

\* To a record that is not pending: a release is repeated, the rest ignored.
Aftermath(s, c, known) ==
  IF known /\ Released(s, c) THEN Control(c, "released") ELSE NoControl

\* The record is reviewed; while it is pending it is answered.
ReconciliationPoll(a, m, live, ready) ==
  LET c == m.job
      s == Expire(State)
      e == Reviewed(s, c, ready)
      answer == IF Released(s, c) THEN Control(c, "released")
                ELSE IF e.status = "requested" THEN Control(c, "observe")
                ELSE IF e.status = "accept_requested" THEN Control(c, "accept")
                ELSE NoControl
  IN
  /\ Arrives(a, m, live)
  /\ m.mode = "reconciliation_poll" /\ tenantActive
  /\ ready \/ recon[c].status \in Pending
  /\ Become(s)
  /\ recon' = [recon EXCEPT ![c] = e]
  /\ Respond(a, m, live, answer)
  /\ Readiness(ready)
  /\ UNCHANGED <<authorityVars, overdue>>

\* What is observed is stored once; another observation makes it stale.
Observed(e, seen) ==
  IF e.seen = NoDoc THEN [e EXCEPT !.seen = seen, !.status = "observed"]
  ELSE IF e.seen # seen THEN [e EXCEPT !.status = "stale"] ELSE e

ReconciliationResult(a, m, live, ready) ==
  LET c == m.job
      s == Expire(State)
      e == Reviewed(s, c, ready)
      known == m.round = e.round
  IN
  /\ Arrives(a, m, live)
  /\ m.mode = "reconciliation_result" /\ tenantActive
  /\ ready \/ recon[c].status \in Pending
  /\ IF known /\ Released(s, c) /\ m.seen # e.seen
     THEN Respond(a, m, live, Rejected) /\ UNCHANGED <<row, policy, recon>>
     ELSE /\ Become(s)
          /\ recon' = IF ~known THEN recon
                      ELSE [recon EXCEPT ![c] =
                              IF e.status \in Pending THEN Observed(e, m.seen) ELSE e]
          /\ Respond(a, m, live, Aftermath(s, c, known))
  /\ Readiness(ready)
  /\ UNCHANGED <<authorityVars, overdue>>

\* Defect: the acknowledgement releases whatever was observed.
ReconciliationAckUnchecked(a, m, live, ready) ==
  LET c == m.job IN
  /\ Arrives(a, m, live)
  /\ m.mode = "reconciliation_ack" /\ tenantActive /\ ready
  /\ row[c].status = "reconciliation_required"
  /\ row' = [row EXCEPT ![c].status = "reconciled"]
  /\ policy' = [revision |-> policy.revision + 1, fenced |-> FALSE, named |-> TRUE]
  /\ recon' = [recon EXCEPT ![c].status = "accepted"]
  /\ Respond(a, m, live, Control(c, "released"))
  /\ UNCHANGED <<authorityVars, overdue, unrest>>
ReconciliationAck(a, m, live, ready) ==
  LET c == m.job
      s == Expire(State)
      e == Reviewed(s, c, ready)
      known == m.round = e.round
  IN
  /\ Arrives(a, m, live)
  /\ m.mode = "reconciliation_ack" /\ tenantActive
  /\ ready \/ recon[c].status \in Pending
  /\ IF known /\ (Released(s, c) \/ e.status \in Pending)
        /\ (m.seen # e.seen \/ e.status \in Pending \ {"accept_requested"})
     THEN Respond(a, m, live, Rejected) /\ UNCHANGED <<row, policy, recon>>
     ELSE IF ~known \/ e.status # "accept_requested"
     THEN /\ Become(s)
          /\ recon' = IF known THEN [recon EXCEPT ![c] = e] ELSE recon
          /\ Respond(a, m, live, Aftermath(s, c, known))
     ELSE /\ row' = [s.row EXCEPT ![c].status = "reconciled"]
          /\ policy' = [revision |-> policy.revision + 1, fenced |-> FALSE, named |-> TRUE]
          /\ recon' = [recon EXCEPT ![c] = [e EXCEPT !.status = "accepted"]]
          /\ Respond(a, m, live, Control(c, "released"))
  /\ Readiness(ready)
  /\ UNCHANGED <<authorityVars, overdue>>

=============================================================================
