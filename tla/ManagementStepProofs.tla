------------------------ MODULE ManagementStepProofs ------------------------
(***************************************************************************)
(* The steps of the portal, of the clock and the users, of the Agent and   *)
(* of the provider preserve the inductive invariant of the management      *)
(* channel.                                                                *)
(***************************************************************************)
EXTENDS ManagementInvariant, TLAPS

-----------------------------------------------------------------------------
(* The portal, the clock and the users. *)

\* How a row may change: what is settled or granted stays so.
GrantedStatuses ==
  {"running", "requires_reconciliation", "succeeded", "failed"}
Follows(new, old) ==
  /\ new \in Rows
  /\ RowOK(new)
  /\ old.status \in TerminalStatuses => new.status = old.status
  /\ old.status \in GrantedStatuses =>
       new.status \in GrantedStatuses /\ new.started = old.started

JobsFollow ==
  /\ job' \in [Jobs -> Rows]
  /\ \A j \in Jobs : Follows(job'[j], job[j])

\* The rows an Agent that is about to execute counts on.
GrantsStand ==
  \A j \in Jobs :
     /\ Holds(j, {"prepared", "invoking"})
     /\ job[j].status = "running"
     => job'[j].status = "running"

\* A document that may answer the request m.
Suits(document, m) ==
  /\ document \in Replies
  /\ document.type = "assignment" => m.action \in {"poll", "lookup"}
  /\ document.type = "claim" => m.action = "claim"
  /\ document.type = "accepted" => m.action = "result"
  /\ m.action \in {"lookup", "claim"}
     /\ document.type \in {"assignment", "claim"}
       => document.job = m.job

\* A row that stays as it is follows itself.
LEMMA RowFollows ==
  ASSUME IInv, NEW j \in Jobs
  PROVE  Follows(job[j], job[j])
BY DEF Follows, IInv, TypeOK, RowsOK

\* Withdrawal (withdraw_management_jobs, revoke_undelivered_jobs,
\* cancel_offered_job) keeps what is settled or granted as it is.
LEMMA WithdrawnFollows ==
  ASSUME IInv, NEW j \in Jobs, Active(j)
  PROVE  /\ Follows(Withdrawn(job[j]), job[j])
         /\ job[j].status = "running" => Withdrawn(job[j]).status = "running"
<1>1. /\ job[j] \in Rows
      /\ RowOK(job[j])
      /\ clock \in Nat
  BY DEF IInv, TypeOK, RowsOK
<1>2. Withdrawn(job[j]) \in Rows
  BY <1>1 DEF Withdrawn, Rows, Statuses, TerminalStatuses, Instant
<1>3. RowOK(Withdrawn(job[j]))
  BY <1>1
     DEF RowOK, Withdrawn, Rows, Results, ResultStatuses, ObservableStatuses
<1> QED
  BY <1>1, <1>2, <1>3, SMT
     DEF Follows, Withdrawn, TerminalStatuses, GrantedStatuses

\* One row is saved: if it follows the one it replaces, the table does.
LEMMA RowUpdated ==
  ASSUME IInv, NEW j \in Jobs, NEW row, Follows(row, job[j]), SetRow(j, row)
  PROVE  /\ JobsFollow
         /\ \A k \in Jobs : job'[k] = IF k = j THEN row ELSE job[k]
<1>1. \A k \in Jobs : job'[k] = IF k = j THEN row ELSE job[k]
  BY DEF SetRow, IInv, TypeOK
<1>2. job' \in [Jobs -> Rows]
  BY DEF SetRow, Follows, IInv, TypeOK
<1> QED
  BY <1>1, <1>2, RowFollows DEF JobsFollow

\* A step that saves no row keeps the table and the grants.
LEMMA JobsUnchanged ==
  ASSUME IInv, UNCHANGED job
  PROVE  JobsFollow /\ GrantsStand
BY RowFollows DEF JobsFollow, GrantsStand, IInv, TypeOK

\* The parts of the invariant that only look at the rows survive any change of
\* the table in which every row follows its predecessor.
LEMMA RowsStep ==
  ASSUME IInv, JobsFollow, UNCHANGED <<clock, agentVars, request>>,
         late' \subseteq late
  PROVE  PhaseOK' /\ RowsOK' /\ ReportsOK' /\ CallsOK'
<1> USE DEF IInv, agentVars, hostVars
<1>1. \A j \in Jobs : Terminal(j) => Terminal(j)'
  BY DEF JobsFollow, Follows, Terminal
<1>2. RowsOK'
  BY DEF RowsOK, JobsFollow, Follows, RowOK
<1>3. ReportsOK'
  <2> SUFFICES ASSUME NEW m \in late \cup {request}, m.action = "result"
               PROVE  \/ Terminal(m.job)'
                      \/ Holds(m.job, {"observing", "requires_reconciliation",
                                       "terminal"})'
    BY DEF ReportsOK
  <2>1. m.job \in Jobs
    BY DEF TypeOK, Requests, NoRequest, Poll
  <2> QED
    BY <1>1, <2>1 DEF ReportsOK, Holds
<1>4. CallsOK'
  BY <1>1 DEF CallsOK, JobsFollow, Follows, GrantedStatuses, Holds
<1>5. PhaseOK'
  BY DEF PhaseOK
<1> QED
  BY <1>2, <1>3, <1>4, <1>5

\* What a handler of the gateway has to do for the invariant to hold again:
\* answer in kind, let every row follow, keep the grants the Agent is about to
\* use, settle what it acknowledges and grant only what was never executed.
LEMMA HandlerStep ==
  ASSUME IInv, NEW m, NEW live \in BOOLEAN, NEW document,
         Arrives(m, live), m.action # "none", Answer(m, live, document),
         Suits(document, m), JobsFollow, GrantsStand,
         snapshot' \in [VMs -> Stored], UNCHANGED agentVars,
         m.action = "poll" /\ pc = "polling" /\ document.job # NoJob
           => calls[document.job] = 0,
         live /\ pc = "acknowledging" /\ document.type = "accepted"
           => Terminal(journal.job)',
         live /\ pc = "claiming" /\ document.mode = "execute"
              /\ journal.job \in Mutations
           => Unused(journal.job)'
  PROVE  IInv'
<1> USE DEF IInv, Answer, authorityVars, agentVars, hostVars
<1>1. late' \subseteq late /\ request' = request
  OBVIOUS
<1>2. reply' = (IF live THEN document ELSE reply)
  OBVIOUS
<1>3. PhaseOK' /\ RowsOK' /\ ReportsOK' /\ CallsOK'
  BY <1>1, RowsStep
<1>4. TypeOK'
  BY <1>1, <1>2 DEF TypeOK, JobsFollow, Suits
<1>5. ExchangeOK'
  BY <1>1, <1>2 DEF ExchangeOK, Suits, Arrives, NoRequest
<1>6. PollOK'
  <2>1. \A j \in Jobs : Terminal(j) => Terminal(j)'
    BY DEF JobsFollow, Follows, Terminal
  <2>2. journal # NoJournal => journal.job \in Jobs
    BY DEF TypeOK, Journals
  <2> QED
    BY <1>1, <1>2, <2>1, <2>2 DEF PollOK, PhaseOK, ExchangeOK, Arrives, Poll
<1>7. GrantOK'
  <2>1. \A j \in Jobs :
          Holds(j, {"prepared", "invoking"}) /\ Unused(j) => Unused(j)'
    BY DEF GrantsStand, JobsFollow, Follows, Unused, GrantedStatuses
  <2>2. journal # NoJournal => journal.job \in Jobs
    BY DEF TypeOK, Journals
  <2> QED
    BY <1>1, <1>2, <2>1, <2>2 DEF GrantOK, PhaseOK, Holds
<1> QED
  BY <1>3, <1>4, <1>5, <1>6, <1>7

\* What the gateway processes is the live request or an abandoned one.
LEMMA RequestArrives ==
  ASSUME IInv, NEW m, NEW live \in BOOLEAN, Arrives(m, live), m.action # "none"
  PROVE  m \in Requests /\ m \in late \cup {request}
BY DEF Arrives, IInv, TypeOK, NoRequest

\* offer_management_job preserves the invariant: what it offers to a polling
\* Agent was never executed.
LEMMA OfferStep ==
  ASSUME IInv, NEW m, NEW live \in BOOLEAN, OfferManagementJob(m, live),
         UNCHANGED agentVars
  PROVE  IInv'
<1>1. Arrives(m, live) /\ m.action = "poll" /\ snapshot' \in [VMs -> Stored]
  BY DEF OfferManagementJob, IInv, TypeOK
\* An active job was not executed: the record of what was executed is only
\* given up when its job is settled.
<1>2. ASSUME NEW j \in Jobs, Active(j), pc = "polling"
      PROVE  calls[j] = 0
  <2>1. ~Terminal(j)
    BY <1>2 DEF Active, ActiveStatuses, Terminal, TerminalStatuses
  <2>2. journal.job # j
    BY <1>2, <2>1, JobsAssumption DEF IInv, PollOK, NoJournal
  <2> QED
    BY <2>1, <2>2 DEF IInv, CallsOK, Holds
<1>3. ASSUME NEW j \in Jobs, NEW status \in Statuses, NEW mode \in {"observe", "claim"}
      PROVE  Suits(Document("assignment", j, status, mode), m)
  BY <1>1 DEF Suits, Document, Replies, Documents
<1>4. Suits(NoOffer, m) /\ NoOffer.job = NoJob /\ NoOffer.type = "assignment"
      /\ NoOffer.mode = "none"
  BY <1>1 DEF Suits, NoOffer, Document, Replies
<1>5. CASE Answer(m, live, NoOffer) /\ UNCHANGED job
  BY <1>1, <1>4, <1>5, JobsUnchanged, HandlerStep
<1>6. ASSUME NEW j \in Jobs, Oldest(j), Observable(j), UNCHANGED job,
             Answer(m, live, Document("assignment", j, job[j].status, "observe"))
      PROVE  IInv'
  <2>1. Active(j) /\ job[j].status \in Statuses
    BY <1>6 DEF Oldest, IInv, TypeOK, Rows
  <2> DEFINE document == Document("assignment", j, job[j].status, "observe")
  <2>2. Suits(document, m) /\ document.type = "assignment"
        /\ document.mode = "observe" /\ document.job = j
    BY <1>3, <2>1 DEF Document
  <2> HIDE DEF document
  <2> QED
    BY <1>1, <1>2, <1>6, <2>1, <2>2, JobsUnchanged, HandlerStep DEF document
<1>7. ASSUME NEW j \in Jobs, Oldest(j), ~Observable(j),
             SetRow(j, [job[j] EXCEPT !.status = "delivered"]),
             Answer(m, live, Document("assignment", j, "delivered", "claim"))
      PROVE  IInv'
  <2> DEFINE row == [job[j] EXCEPT !.status = "delivered"]
  <2> DEFINE document == Document("assignment", j, "delivered", "claim")
  <2>1. Active(j) /\ job[j].status \in {"queued", "delivered"}
    BY <1>7 DEF Oldest, Active, Observable, ActiveStatuses, ObservableStatuses
  <2>2. row \in Rows
    BY DEF IInv, TypeOK, Rows, Statuses, ActiveStatuses
  <2>3. RowOK(row)
    BY <2>1
       DEF IInv, TypeOK, RowsOK, RowOK, Rows, Results, ResultStatuses,
           ObservableStatuses
  <2>4. Follows(row, job[j])
    BY <2>1, <2>2, <2>3 DEF Follows, GrantedStatuses, TerminalStatuses
  <2>5. JobsFollow /\ GrantsStand
    BY <1>7, <2>1, <2>4, RowUpdated DEF GrantsStand
  <2>6. Suits(document, m) /\ document.type = "assignment"
        /\ document.mode = "claim" /\ document.job = j
    BY <1>3 DEF Document, Statuses, ActiveStatuses
  <2> HIDE DEF document
  <2> QED
    BY <1>1, <1>2, <1>7, <2>1, <2>5, <2>6, HandlerStep DEF document
<1>8. ASSUME NEW j \in Jobs, Oldest(j), SetRow(j, Withdrawn(job[j])),
             Answer(m, live, NoOffer)
      PROVE  IInv'
  <2>1. Active(j)
    BY <1>8 DEF Oldest
  <2>2. JobsFollow /\ GrantsStand
    BY <1>8, <2>1, WithdrawnFollows, RowUpdated DEF GrantsStand
  <2> QED
    BY <1>1, <1>4, <1>8, <2>2, HandlerStep
<1> QED
  BY <1>5, <1>6, <1>7, <1>8 DEF OfferManagementJob

\* management_job_status preserves the invariant: it changes no row and grants
\* nothing.
LEMMA StatusStep ==
  ASSUME IInv, NEW m, NEW live \in BOOLEAN, ManagementJobStatus(m, live),
         UNCHANGED agentVars
  PROVE  IInv'
<1>1. /\ Arrives(m, live)
      /\ m.action = "lookup"
      /\ snapshot' \in [VMs -> Stored]
      /\ UNCHANGED job
  BY DEF ManagementJobStatus, IInv, TypeOK
<1>2. m.job \in Jobs
  BY <1>1, RequestArrives DEF Requests, Poll
<1>3. PICK mode \in Statuses \cup {"observe"} :
         Answer(m, live, Document("assignment", m.job, job[m.job].status, mode))
  BY <1>2 DEF ManagementJobStatus, IInv, TypeOK, Rows
<1> DEFINE document == Document("assignment", m.job, job[m.job].status, mode)
<1>4. /\ document \in Replies
      /\ document.type = "assignment"
      /\ document.job = m.job
      /\ document.mode # "execute"
  BY <1>2, <1>3
     DEF Document, Replies, Documents, IInv, TypeOK, Rows, Statuses,
         ActiveStatuses, TerminalStatuses
<1> HIDE DEF document
<1>5. Suits(document, m)
  BY <1>1, <1>4 DEF Suits
<1> QED
  BY <1>1, <1>3, <1>4, <1>5, JobsUnchanged, HandlerStep DEF document

\* claim_management_job preserves the invariant: what it grants is marked as
\* started now and was never executed.
LEMMA ClaimStep ==
  ASSUME IInv, NEW m, NEW live \in BOOLEAN, ClaimManagementJob(m, live),
         UNCHANGED agentVars
  PROVE  IInv'
<1> DEFINE j == m.job
<1>1. /\ Arrives(m, live)
      /\ m.action = "claim"
      /\ snapshot' \in [VMs -> Stored]
  BY DEF ClaimManagementJob, IInv, TypeOK
<1>2. j \in Jobs /\ job[j] \in Rows
  BY <1>1, RequestArrives DEF Requests, Poll, IInv, TypeOK
<1>3. ASSUME NEW status \in Statuses, NEW mode \in {"observe", "execute", "cancelled"}
      PROVE  Suits(Document("claim", j, status, mode), m)
  BY <1>1, <1>2, <1>3
     DEF Suits, Document, Replies, Documents, Statuses, TerminalStatuses
<1> HIDE DEF j
<1>4. CASE Observable(j) /\ UNCHANGED job
           /\ Answer(m, live, Document("claim", j, job[j].status, "observe"))
  <2> DEFINE document == Document("claim", j, job[j].status, "observe")
  <2>1. /\ Suits(document, m)
        /\ document.type = "claim"
        /\ document.mode = "observe"
    BY <1>2, <1>3 DEF Document, Rows
  <2> HIDE DEF document
  <2> QED
    BY <1>1, <1>4, <2>1, JobsUnchanged, HandlerStep DEF document
<1>5. CASE /\ job[j].status = "delivered"
           /\ job[j].revoked = NotYet
           /\ SetRow(j, [job[j] EXCEPT !.status = "running", !.started = clock])
           /\ Answer(m, live, Document("claim", j, "running", "execute"))
  <2> DEFINE row == [job[j] EXCEPT !.status = "running", !.started = clock]
  <2> DEFINE document == Document("claim", j, "running", "execute")
  <2>1. clock \in Nat /\ claimStarted <= clock /\ RowOK(job[j]) /\ calls[j] = 0
    BY <1>2, <1>5 DEF IInv, TypeOK, GrantOK, RowsOK, CallsOK
  <2>2. /\ row \in Rows
        /\ row.status = "running"
        /\ row.started = clock
        /\ row.revoked = NotYet
        /\ row.result = job[j].result
    BY <1>2, <1>5, <2>1 DEF Rows, Statuses, ActiveStatuses, Instant
  <2>3. job[j].result = NoResult
    BY <1>2, <1>5, <2>1 DEF RowOK, Rows, Results, ResultStatuses
  <2>4. RowOK(row)
    BY <2>1, <2>2, <2>3 DEF RowOK, NotYet
  <2>5. Follows(row, job[j])
    BY <1>5, <2>2, <2>4 DEF Follows, GrantedStatuses, TerminalStatuses
  <2>6. JobsFollow /\ GrantsStand /\ job'[j] = row
    BY <1>2, <1>5, <2>5, RowUpdated DEF GrantsStand
  <2>7. Suits(document, m) /\ document.type = "claim"
    BY <1>3 DEF Document, Statuses, ActiveStatuses
  <2> HIDE DEF row, document
  <2>8. live /\ pc = "claiming" => Unused(journal.job)'
    <3>1. live /\ pc = "claiming" => journal.job = j
      BY <1>1 DEF j, Arrives, IInv, ExchangeOK
    <3> QED
      BY <3>1, <2>1, <2>2, <2>6 DEF Unused, agentVars, hostVars
  <2> QED
    BY <1>1, <1>5, <2>6, <2>7, <2>8, HandlerStep DEF document
<1>6. CASE /\ job[j].status = "delivered"
           /\ SetRow(j, Withdrawn(job[j]))
           /\ Answer(m, live, Document("claim", j, "cancelled", "cancelled"))
  <2> DEFINE document == Document("claim", j, "cancelled", "cancelled")
  <2>1. Active(j)
    BY <1>6 DEF Active, ActiveStatuses
  <2>2. JobsFollow /\ GrantsStand
    BY <1>2, <1>6, <2>1, WithdrawnFollows, RowUpdated DEF GrantsStand
  <2>3. /\ Suits(document, m)
        /\ document.type = "claim"
        /\ document.mode = "cancelled"
    BY <1>3 DEF Document, Statuses, TerminalStatuses
  <2> HIDE DEF document
  <2> QED
    BY <1>1, <1>6, <2>2, <2>3, HandlerStep DEF document
<1>7. CASE Answer(m, live, Rejected) /\ UNCHANGED job
  <2>1. Suits(Rejected, m) /\ Rejected.type = "rejected" /\ Rejected.mode = "none"
    BY DEF Suits, Rejected, Document, Replies
  <2> QED
    BY <1>1, <1>7, <2>1, JobsUnchanged, HandlerStep
<1> QED
  BY <1>4, <1>5, <1>6, <1>7
     DEF ClaimManagementJob, ExecutionChecks, Authority, j

\* record_management_result preserves the invariant: it settles a job once,
\* stores a well-formed snapshot and takes back no unused grant.
LEMMA RecordStep ==
  ASSUME IInv, NEW m, NEW live \in BOOLEAN, RecordManagementResult(m, live),
         UNCHANGED agentVars
  PROVE  IInv'
<1> DEFINE j == m.job
<1>1. Arrives(m, live) /\ m.action = "result"
  BY DEF RecordManagementResult
<1>2. /\ j \in Jobs
      /\ m.result \in Results
      /\ m \in late \cup {request}
      /\ job[j] \in Rows
      /\ RowOK(job[j])
  <2>1. m \in Requests /\ m \in late \cup {request}
    BY <1>1, RequestArrives
  <2>2. j \in Jobs /\ m.result \in Results
    BY <1>1, <2>1 DEF Requests, Poll
  <2> QED
    BY <2>1, <2>2 DEF IInv, TypeOK, RowsOK
<1>3. /\ Suits(Accepted, m) /\ Accepted.mode = "none" /\ Accepted.type = "accepted"
      /\ Suits(Rejected, m) /\ Rejected.mode = "none" /\ Rejected.type = "rejected"
  BY <1>1 DEF Suits, Accepted, Rejected, Document, Replies
\* What the Agent waits to see acknowledged is a final result.
<1>4. live /\ pc = "acknowledging"
        => journal.job = j /\ m.result.status \in TerminalStatuses
  <2>1. pc = "acknowledging" => journal.result \in FinalResults
    BY DEF IInv, TypeOK, PhaseOK, Journals
  <2> QED
    BY <1>1, <2>1 DEF Arrives, IInv, ExchangeOK, FinalResults, TerminalStatuses
<1> HIDE DEF j
<1>5. CASE /\ Acceptable(job[j], m.result)
           /\ SetRow(j, [job[j] EXCEPT !.status = m.result.status,
                                       !.result = m.result])
           /\ StoreSnapshot(j, m.result.snap)
           /\ Answer(m, live, Accepted)
  <2> DEFINE row == [job[j] EXCEPT !.status = m.result.status,
                                   !.result = m.result]
  <2>1. job[j].status \in ObservableStatuses
    BY <1>5 DEF Acceptable
  <2>2. /\ row \in Rows
        /\ row.status = m.result.status
        /\ row.result = m.result
        /\ row.started = job[j].started
        /\ row.revoked = job[j].revoked
        /\ row.status \in GrantedStatuses
    BY <1>2
       DEF Rows, Results, ResultStatuses, Statuses, ActiveStatuses,
           TerminalStatuses, GrantedStatuses
  <2>3. RowOK(row)
    BY <1>2, <2>1, <2>2 DEF RowOK, GrantedStatuses
  <2>4. Follows(row, job[j])
    BY <2>1, <2>2, <2>3 DEF Follows, ObservableStatuses, TerminalStatuses
  <2>5. JobsFollow /\ job'[j] = row /\ \A k \in Jobs \ {j} : job'[k] = job[k]
    BY <1>2, <1>5, <2>4, RowUpdated
  \* No report is on its way for a job the Agent is about to execute.
  <2>6. GrantsStand
    <3>1. ~Holds(j, {"prepared", "invoking"})
      BY <1>1, <1>2, <2>1
         DEF IInv, ReportsOK, Holds, Terminal, TerminalStatuses,
             ObservableStatuses, j
    <3> QED
      BY <2>5, <3>1 DEF GrantsStand
  <2>7. snapshot' \in [VMs -> Stored]
    <3>1. job[j].started \in Nat
      BY <1>2, <2>1 DEF RowOK, Rows, Instant
    <3>2. m.result.snap # NoObservation
            => m.result.snap.rev \in Nat /\ m.result.snap.readAt \in Nat
      BY <1>2 DEF Results, Observations
    <3> QED
      BY <1>5, <3>1, <3>2 DEF StoreSnapshot, Stored, IInv, TypeOK
  <2>8. live /\ pc = "acknowledging" => Terminal(journal.job)'
    BY <1>4, <2>2, <2>5 DEF Terminal, agentVars
  <2> QED
    BY <1>1, <1>3, <1>5, <2>5, <2>6, <2>7, <2>8, HandlerStep
<1>6. CASE /\ job[j].result = m.result
           /\ Answer(m, live, Accepted)
           /\ UNCHANGED <<job, snapshot>>
  <2>1. job[j].status = m.result.status
    BY <1>2, <1>6 DEF RowOK, Results, NoResult
  <2>2. live /\ pc = "acknowledging" => Terminal(journal.job)'
    BY <1>4, <1>6, <2>1 DEF Terminal, agentVars
  <2>3. snapshot' \in [VMs -> Stored]
    BY <1>6 DEF IInv, TypeOK
  <2> QED
    BY <1>1, <1>3, <1>6, <2>2, <2>3, JobsUnchanged, HandlerStep
<1>7. CASE Answer(m, live, Rejected) /\ UNCHANGED <<job, snapshot>>
  <2>1. snapshot' \in [VMs -> Stored]
    BY <1>7 DEF IInv, TypeOK
  <2> QED
    BY <1>1, <1>3, <1>7, <2>1, JobsUnchanged, HandlerStep
<1> QED
  BY <1>5, <1>6, <1>7 DEF RecordManagementResult, j

-----------------------------------------------------------------------------
(* Users and the clock. *)

\* A user's step changes rows, and neither an exchange nor the Agent.
LEMMA UserStep ==
  ASSUME IInv, JobsFollow, GrantsStand,
         UNCHANGED <<snapshot, clock, linkVars, agentVars>>,
         created' \in Seq(Jobs), tenantActive' \in BOOLEAN,
         permitted' \subseteq Actors
  PROVE  IInv'
<1> USE DEF IInv, linkVars, agentVars, hostVars
<1>1. PhaseOK' /\ RowsOK' /\ ReportsOK' /\ CallsOK'
  BY RowsStep
<1>2. TypeOK'
  BY DEF TypeOK, JobsFollow
<1>3. ExchangeOK'
  BY DEF ExchangeOK
<1>4. journal # NoJournal => journal.job \in Jobs
  BY DEF TypeOK, Journals
<1>5. PollOK'
  <2>1. \A j \in Jobs : Terminal(j) => Terminal(j)'
    BY DEF JobsFollow, Follows, Terminal
  <2> QED
    BY <1>4, <2>1 DEF PollOK, PhaseOK
<1>6. GrantOK'
  <2>1. \A j \in Jobs :
          Holds(j, {"prepared", "invoking"}) /\ Unused(j) => Unused(j)'
    BY DEF GrantsStand, JobsFollow, Follows, Unused, GrantedStatuses
  <2> QED
    BY <1>4, <2>1 DEF GrantOK, PhaseOK, Holds
<1> QED
  BY <1>1, <1>2, <1>3, <1>5, <1>6

\* create_management_job saves one new queued row.
LEMMA CreateSetsRow ==
  ASSUME IInv, NEW j \in Jobs, CreateManagementJob(j)
  PROVE  \E rev \in Instant :
           SetRow(j, [job[j] EXCEPT !.status = "queued", !.expected = rev])
<1> DEFINE rev == IF j \in Mutations THEN snapshot[Target[j]].rev ELSE NotYet
<1>1. rev \in Instant
  <2>1. snapshot[Target[j]] \in Stored
    BY JobsAssumption DEF IInv, TypeOK
  <2> QED
    BY <2>1 DEF Stored, NoStored, Instant
<1>2. job' = [job EXCEPT ![j].status = "queued", ![j].expected = rev]
  BY DEF CreateManagementJob
<1> HIDE DEF rev
<1> QED
  BY <1>1, <1>2 DEF SetRow

\* create_management_job preserves the invariant.
LEMMA CreateStep ==
  ASSUME IInv, NEW j \in Jobs, CreateManagementJob(j), UNCHANGED agentVars
  PROVE  IInv'
<1>1. PICK rev \in Instant :
         SetRow(j, [job[j] EXCEPT !.status = "queued", !.expected = rev])
  BY CreateSetsRow
<1> DEFINE row == [job[j] EXCEPT !.status = "queued", !.expected = rev]
<1>2. job[j] \in Rows /\ RowOK(job[j]) /\ job[j].status = "absent"
  BY DEF CreateManagementJob, IInv, TypeOK, RowsOK
<1>3. row \in Rows
  BY <1>1, <1>2 DEF Rows, Statuses, ActiveStatuses
<1>4. RowOK(row)
  BY <1>2 DEF RowOK, Rows, Results, ResultStatuses, ObservableStatuses
<1>5. Follows(row, job[j])
  BY <1>2, <1>3, <1>4 DEF Follows, GrantedStatuses, TerminalStatuses
<1>6. JobsFollow /\ GrantsStand
  BY <1>1, <1>2, <1>5, RowUpdated DEF GrantsStand
<1> QED
  BY <1>6, UserStep DEF CreateManagementJob, authorityVars, IInv, TypeOK

\* Withdrawing the authority of any set of jobs keeps the grants the Agent is
\* about to use.
LEMMA WithdrawalStands ==
  ASSUME IInv, NEW set, WithdrawManagementJobs(set)
  PROVE  JobsFollow /\ GrantsStand
BY RowFollows, WithdrawnFollows
   DEF WithdrawManagementJobs, JobsFollow, GrantsStand, Follows

\* The passing of time preserves the invariant: a grant only gets older.
LEMMA TickStep ==
  ASSUME IInv, Tick
  PROVE  IInv'
<1> USE DEF IInv, Tick, jobVars, authorityVars, linkVars, agentVars, hostVars
<1>1. TypeOK'
  BY DEF TypeOK
<1>2. ExchangeOK' /\ PhaseOK'
  BY DEF ExchangeOK, PhaseOK
<1>3. RowsOK'
  BY DEF RowsOK, RowOK, TypeOK, Rows, Instant, NotYet
<1>4. ReportsOK'
  BY DEF ReportsOK, Terminal, Holds
<1>5. CallsOK'
  BY DEF CallsOK, Terminal, Holds
<1>6. PollOK'
  BY DEF PollOK, Terminal
<1>7. GrantOK'
  BY DEF GrantOK, Unused, TypeOK, Instant
<1> QED
  BY <1>1, <1>2, <1>3, <1>4, <1>5, <1>6, <1>7

\* Every step of the portal and of its users preserves the invariant.
LEMMA PortalStep ==
  ASSUME IInv, UNCHANGED agentVars,
         \/ User
         \/ Gateway(request, TRUE)
         \/ \E m \in late : Gateway(m, FALSE)
  PROVE  IInv'
<1>1. ASSUME NEW m, NEW live \in BOOLEAN, Gateway(m, live)
      PROVE  IInv'
  BY <1>1, OfferStep, StatusStep, ClaimStep, RecordStep DEF Gateway
<1>2. CASE User
  <2>1. CASE \E j \in Jobs : CreateManagementJob(j)
    BY <2>1, CreateStep
  <2>2. CASE SuspendTenant
    BY <2>2, WithdrawalStands, UserStep DEF SuspendTenant, IInv, TypeOK
  <2>3. CASE ReactivateTenant
    BY <2>3, JobsUnchanged, UserStep DEF ReactivateTenant, jobVars, IInv, TypeOK
  <2>4. CASE \E a \in Actors : WithdrawIdentityOperations(a)
    BY <2>4, WithdrawalStands, UserStep
       DEF WithdrawIdentityOperations, authorityVars, IInv, TypeOK
  <2>5. CASE \E a \in Actors : ChangeMembership(a)
    BY <2>5, JobsUnchanged, UserStep DEF ChangeMembership, jobVars, IInv, TypeOK
  <2> QED
    BY <1>2, <2>1, <2>2, <2>3, <2>4, <2>5 DEF User
<1> QED
  BY <1>1, <1>2

-----------------------------------------------------------------------------
(* The worker's cycle.  A cycle that ends leaves everything as it was;     *)
(* one that holds a final or an uncertain result has put it on record.     *)

\* A cycle that ends early (an exception, a refusal, a crash, no work) leaves
\* the journal as it is and the link empty.
LEMMA CycleEnds ==
  ASSUME IInv, HangUp, Goto("idle"), UNCHANGED <<portalVars, journal, hostVars>>
  PROVE  IInv'
<1>1. TypeOK'
  BY JobsAssumption
     DEF TypeOK, IInv, portalVars, jobVars, authorityVars, hostVars, HangUp,
         Goto, Instant
<1>2. ExchangeOK'
  BY DEF ExchangeOK, HangUp, Goto, NoReply
<1>3. PhaseOK'
  BY DEF PhaseOK, Goto
<1>4. RowsOK'
  BY DEF RowsOK, RowOK, IInv, portalVars, jobVars
<1>5. ReportsOK'
  BY DEF ReportsOK, Holds, Terminal, IInv, portalVars, jobVars, HangUp,
         NoRequest
<1>6. CallsOK'
  BY DEF CallsOK, Holds, Terminal, IInv, portalVars, jobVars, hostVars
<1>7. PollOK'
  BY DEF PollOK, Goto
<1>8. GrantOK'
  BY DEF GrantOK, TypeOK, IInv, portalVars, Goto, NotYet
<1> QED
  BY <1>1, <1>2, <1>3, <1>4, <1>5, <1>6, <1>7, <1>8 DEF IInv

\* A final result goes on record before it is sent, for a job the Agent may no
\* longer execute.
LEMMA FinalReport ==
  ASSUME IInv, NEW result \in FinalResults, ReportFinal(result),
         journal # NoJournal, journal.phase # "terminal", UNCHANGED
         <<portalVars, hostVars>>
  PROVE  IInv'
<1>1. TypeOK'
  BY JobsAssumption
     DEF TypeOK, IInv, portalVars, jobVars, authorityVars, hostVars, Send, Goto,
         ReportFinal, Complete, FinalResults, Journals, Instant, Requests
<1>2. ExchangeOK'
  BY DEF ExchangeOK, Send, Goto, ReportFinal, Complete, NoReply
<1>3. PhaseOK'
  BY DEF PhaseOK, TypeOK, IInv, Goto, ReportFinal, Complete, NoJournal, Journals
<1>4. RowsOK'
  BY DEF RowsOK, RowOK, IInv, portalVars, jobVars
<1>5. ReportsOK'
  BY DEF ReportsOK, Holds, Terminal, IInv, portalVars, jobVars, Send,
         ReportFinal, Complete
<1>6. CallsOK'
  BY DEF CallsOK, Holds, Terminal, IInv, portalVars, jobVars, hostVars,
         ReportFinal, Complete, Phases
<1>7. PollOK'
  BY DEF PollOK, Goto, ReportFinal
<1>8. GrantOK'
  BY DEF GrantOK, TypeOK, IInv, portalVars, Goto, ReportFinal, NotYet
<1> QED
  BY <1>1, <1>2, <1>3, <1>4, <1>5, <1>6, <1>7, <1>8 DEF IInv

\* An uncertain outcome goes on record as requiring reconciliation before it
\* is sent.
LEMMA UncertainReport ==
  ASSUME IInv, ReportUncertain, journal # NoJournal,
         journal.phase # "terminal", UNCHANGED <<portalVars, hostVars>>
  PROVE  IInv'
<1>1. TypeOK'
  BY JobsAssumption
     DEF TypeOK, IInv, portalVars, jobVars, authorityVars, hostVars, Send, Goto,
         ReportUncertain, Uncertain, Outcome, RequireReconciliation, Phases,
         Journals, ResultStatuses, Results, Instant, Observations, Requests
<1>2. ExchangeOK'
  BY DEF ExchangeOK, Send, Goto, ReportUncertain, RequireReconciliation, NoReply
<1>3. PhaseOK'
  BY DEF PhaseOK, Goto, ReportUncertain, RequireReconciliation, NoJournal
<1>4. RowsOK'
  BY DEF RowsOK, RowOK, IInv, portalVars, jobVars
<1>5. ReportsOK'
  BY DEF ReportsOK, Holds, Terminal, IInv, portalVars, jobVars, Send,
         ReportUncertain, RequireReconciliation
<1>6. CallsOK'
  BY DEF CallsOK, Holds, Terminal, IInv, portalVars, jobVars, hostVars,
         ReportUncertain, RequireReconciliation, Phases
<1>7. PollOK'
  BY DEF PollOK, Goto, ReportUncertain
<1>8. GrantOK'
  BY DEF GrantOK, TypeOK, IInv, portalVars, Goto, ReportUncertain, NotYet
<1> QED
  BY <1>1, <1>2, <1>3, <1>4, <1>5, <1>6, <1>7, <1>8 DEF IInv

\* A started provider job goes on record before it is reported as running.
LEMMA RunningReport ==
  ASSUME IInv, Send("result", journal.job, Observed), Goto("reporting"),
         journal' = BeginObservation(journal), journal # NoJournal,
         journal.phase # "terminal", UNCHANGED <<portalVars, hostVars>>
  PROVE  IInv'
<1>1. TypeOK'
  BY JobsAssumption
     DEF TypeOK, IInv, portalVars, jobVars, authorityVars, hostVars, Send, Goto,
         Observed, Outcome, BeginObservation, Phases, Journals, ResultStatuses,
         Results, Instant, Observations, Requests
<1>2. ExchangeOK'
  BY DEF ExchangeOK, Send, Goto, BeginObservation, NoReply
<1>3. PhaseOK'
  BY DEF PhaseOK, Goto, BeginObservation, NoJournal
<1>4. RowsOK'
  BY DEF RowsOK, RowOK, IInv, portalVars, jobVars
<1>5. ReportsOK'
  BY DEF ReportsOK, Holds, Terminal, IInv, portalVars, jobVars, Send,
         BeginObservation
<1>6. CallsOK'
  BY DEF CallsOK, Holds, Terminal, IInv, portalVars, jobVars, hostVars,
         BeginObservation, Phases
<1>7. PollOK'
  BY DEF PollOK, Goto
<1>8. GrantOK'
  BY DEF GrantOK, TypeOK, IInv, portalVars, Goto, NotYet
<1> QED
  BY <1>1, <1>2, <1>3, <1>4, <1>5, <1>6, <1>7, <1>8 DEF IInv

\* Beginning a cycle sends what the journal calls for: a poll, a settled
\* result or a lookup.
LEMMA BeginCycleStep ==
  ASSUME IInv, BeginCycle
  PROVE  IInv'
<1>1. TypeOK'
  BY JobsAssumption
     DEF TypeOK, IInv, portalVars, jobVars, authorityVars, hostVars, Send, Goto,
         BeginCycle, Phases, NoJournal, FinalResults, Journals, Instant, Poll,
         Requests
<1>2. ExchangeOK'
  BY DEF ExchangeOK, Send, Goto, BeginCycle, Poll, NoReply
<1>3. PhaseOK'
  BY DEF PhaseOK, Goto, BeginCycle, Phases, NoJournal
<1>4. RowsOK'
  BY DEF RowsOK, RowOK, IInv, portalVars, jobVars, BeginCycle
<1>5. ReportsOK'
  BY DEF ReportsOK, Holds, Terminal, IInv, portalVars, jobVars, Send, BeginCycle
<1>6. CallsOK'
  BY DEF CallsOK, Holds, Terminal, IInv, portalVars, jobVars, hostVars,
         BeginCycle
<1>7. PollOK'
  BY DEF PollOK, Send, Goto, BeginCycle, NoReply
<1>8. GrantOK'
  BY DEF GrantOK, TypeOK, IInv, portalVars, Goto, BeginCycle, NotYet
<1> QED
  BY <1>1, <1>2, <1>3, <1>4, <1>5, <1>6, <1>7, <1>8 DEF IInv

\* Once a settled result is acknowledged, its job is settled in the portal's
\* table and new work may be asked for.
LEMMA AcknowledgedStep ==
  ASSUME IInv, Acknowledged
  PROVE  IInv'
<1>1. TypeOK'
  BY JobsAssumption
     DEF TypeOK, IInv, portalVars, jobVars, authorityVars, hostVars, Send, Goto,
         Acknowledged, Instant, Poll, Requests
<1>2. ExchangeOK'
  BY DEF ExchangeOK, Send, Goto, Acknowledged, Poll, NoReply
<1>3. PhaseOK'
  BY DEF PhaseOK, Goto, Acknowledged
<1>4. RowsOK'
  BY DEF RowsOK, RowOK, IInv, portalVars, jobVars, Acknowledged
<1>5. ReportsOK'
  BY DEF ReportsOK, Holds, Terminal, IInv, portalVars, jobVars, Send,
         Acknowledged
<1>6. CallsOK'
  BY DEF CallsOK, Holds, Terminal, IInv, portalVars, jobVars, hostVars,
         Acknowledged
<1>7. PollOK'
  BY DEF PollOK, PhaseOK, Terminal, IInv, portalVars, jobVars, Send,
         Acknowledged, NoReply
<1>8. GrantOK'
  BY DEF GrantOK, TypeOK, IInv, portalVars, Goto, Acknowledged, NotYet
<1> QED
  BY <1>1, <1>2, <1>3, <1>4, <1>5, <1>6, <1>7, <1>8 DEF IInv

\* archive_prepared_management_journal gives up a record of a job that was
\* never executed.
LEMMA ReceiveCancelledStep ==
  ASSUME IInv, ReceiveCancelled
  PROVE  IInv'
<1>1. TypeOK'
  BY JobsAssumption
     DEF TypeOK, IInv, portalVars, jobVars, authorityVars, hostVars, HangUp,
         Goto, ReceiveCancelled, Instant
<1>2. ExchangeOK'
  BY DEF ExchangeOK, HangUp, Goto, ReceiveCancelled, NoReply
<1>3. PhaseOK'
  BY DEF PhaseOK, Goto, ReceiveCancelled
<1>4. RowsOK'
  BY DEF RowsOK, RowOK, IInv, portalVars, jobVars, ReceiveCancelled
<1>5. ReportsOK'
  BY DEF ReportsOK, ExchangeOK, PhaseOK, PollOK, Holds, Terminal, IInv,
         portalVars, jobVars, HangUp, ReceiveCancelled, HasAssignment,
         CancelledUnused, Bound, NoRequest
<1>6. CallsOK'
  BY DEF CallsOK, ExchangeOK, PollOK, Holds, Terminal, IInv, portalVars,
         jobVars, hostVars, ReceiveCancelled, HasAssignment, CancelledUnused,
         Bound
<1>7. PollOK'
  BY DEF PollOK, Goto, ReceiveCancelled
<1>8. GrantOK'
  BY DEF GrantOK, TypeOK, IInv, portalVars, Goto, ReceiveCancelled, NotYet
<1> QED
  BY <1>1, <1>2, <1>3, <1>4, <1>5, <1>6, <1>7, <1>8 DEF IInv

\* A settled record is reported again, and an interrupted write goes on record
\* as uncertain.
LEMMA ReceiveSettledOrInterruptedStep ==
  ASSUME IInv, ReceiveSettledOrInterrupted
  PROVE  IInv'
<1>1. TypeOK'
  <2>1. Bound \in Journals
    BY JobsAssumption
       DEF IInv, TypeOK, ReceiveSettledOrInterrupted, HasAssignment, Bound,
           Prepare, Phases, Journals, NoJournal, Replies, Documents, NoOffer,
           Accepted, Rejected, Document, NoReply
  <2>2. journal' \in Journals
    BY <2>1
       DEF ReceiveSettledOrInterrupted, RequireReconciliation, Journals, Phases
  <2>3. request' \in Requests
    BY <2>1
       DEF ReceiveSettledOrInterrupted, Send, Requests, Journals, FinalResults,
           Results, Uncertain, Outcome, ResultStatuses, Observations
  <2> QED
    BY <2>2, <2>3
       DEF IInv, TypeOK, ReceiveSettledOrInterrupted, Send, Goto, Instant,
           portalVars, jobVars, authorityVars, hostVars
<1>2. ExchangeOK'
  BY DEF ExchangeOK, Send, Goto, ReceiveSettledOrInterrupted,
         RequireReconciliation, NoReply
<1>3. PhaseOK'
  BY DEF PhaseOK, Goto, ReceiveSettledOrInterrupted, RequireReconciliation,
         NoJournal
<1>4. RowsOK'
  BY DEF RowsOK, RowOK, IInv, portalVars, jobVars, ReceiveSettledOrInterrupted
<1>5. ReportsOK'
  BY DEF ReportsOK, ExchangeOK, PollOK, Holds, Terminal, IInv, portalVars,
         jobVars, Send, ReceiveSettledOrInterrupted, HasAssignment, Bound,
         RequireReconciliation, NoJournal
<1>6. CallsOK'
  BY DEF CallsOK, Holds, Terminal, IInv, portalVars, jobVars, hostVars,
         ReceiveSettledOrInterrupted, Bound, Interrupted, Prepare,
         RequireReconciliation, Phases
<1>7. PollOK'
  BY DEF PollOK, Goto, ReceiveSettledOrInterrupted
<1>8. GrantOK'
  BY DEF GrantOK, TypeOK, IInv, portalVars, Goto, ReceiveSettledOrInterrupted,
         NotYet
<1> QED
  BY <1>1, <1>2, <1>3, <1>4, <1>5, <1>6, <1>7, <1>8 DEF IInv

\* A job the provider has accepted is observed, never executed again.
LEMMA ReceiveAcceptedStep ==
  ASSUME IInv, ReceiveAccepted
  PROVE  IInv'
<1>1. TypeOK'
  BY JobsAssumption
     DEF TypeOK, IInv, portalVars, jobVars, authorityVars, hostVars, HangUp,
         Goto, ReceiveAccepted, Instant
<1>2. ExchangeOK'
  BY DEF ExchangeOK, HangUp, Goto, ReceiveAccepted, NoReply
<1>3. PhaseOK'
  BY DEF PhaseOK, Goto, ReceiveAccepted, Bound, Prepare, NoJournal
<1>4. RowsOK'
  BY DEF RowsOK, RowOK, IInv, portalVars, jobVars, ReceiveAccepted
<1>5. ReportsOK'
  BY DEF ReportsOK, Holds, Terminal, IInv, portalVars, jobVars, HangUp,
         ReceiveAccepted, NoRequest
<1>6. CallsOK'
  BY DEF CallsOK, Holds, Terminal, IInv, portalVars, jobVars, hostVars,
         ReceiveAccepted
<1>7. PollOK'
  BY DEF PollOK, Goto, ReceiveAccepted
<1>8. GrantOK'
  BY DEF GrantOK, TypeOK, IInv, portalVars, Goto, ReceiveAccepted, NotYet
<1> QED
  BY <1>1, <1>2, <1>3, <1>4, <1>5, <1>6, <1>7, <1>8 DEF IInv

\* A new binding is saved before it is claimed, and its lease is measured from
\* before the claim is sent.
LEMMA SendClaimStep ==
  ASSUME IInv, SendClaim
  PROVE  IInv'
<1>1. TypeOK'
  BY JobsAssumption
     DEF TypeOK, IInv, portalVars, jobVars, authorityVars, hostVars, Send, Goto,
         SendClaim, HasAssignment, Bound, Prepare, Phases, Journals, Instant,
         Requests, Documents, NoReply, Document, NoOffer, Accepted, Rejected,
         Replies
<1>2. ExchangeOK'
  BY DEF ExchangeOK, Send, Goto, SendClaim, Bound, Prepare, NoReply
<1>3. PhaseOK'
  BY DEF PhaseOK, Goto, SendClaim, Interrupted, NoJournal
<1>4. RowsOK'
  BY DEF RowsOK, RowOK, IInv, portalVars, jobVars, SendClaim
<1>5. ReportsOK'
  BY DEF ReportsOK, ExchangeOK, PollOK, Holds, Terminal, IInv, portalVars,
         jobVars, Send, SendClaim, HasAssignment, Bound, NoJournal
<1>6. CallsOK'
  BY DEF CallsOK, ExchangeOK, PollOK, Holds, Terminal, IInv, portalVars,
         jobVars, hostVars, SendClaim, HasAssignment, Bound, Phases, NoJournal
<1>7. PollOK'
  BY DEF PollOK, Goto, SendClaim
<1>8. GrantOK'
  BY DEF GrantOK, TypeOK, IInv, portalVars, Send, Goto, SendClaim, NoReply
<1> QED
  BY <1>1, <1>2, <1>3, <1>4, <1>5, <1>6, <1>7, <1>8 DEF IInv

\* A cancelled claim gives up a record of a job that was never executed.
LEMMA ClaimCancelledStep ==
  ASSUME IInv, ClaimCancelled
  PROVE  IInv'
<1>1. TypeOK'
  BY JobsAssumption
     DEF TypeOK, IInv, portalVars, jobVars, authorityVars, hostVars, HangUp,
         Goto, ClaimCancelled, Instant
<1>2. ExchangeOK'
  BY DEF ExchangeOK, HangUp, Goto, ClaimCancelled, NoReply
<1>3. PhaseOK'
  BY DEF PhaseOK, Goto, ClaimCancelled
<1>4. RowsOK'
  BY DEF RowsOK, RowOK, IInv, portalVars, jobVars, ClaimCancelled
<1>5. ReportsOK'
  BY DEF ReportsOK, Holds, Terminal, IInv, portalVars, jobVars, HangUp,
         ClaimCancelled, NoRequest
<1>6. CallsOK'
  BY DEF CallsOK, Holds, Terminal, IInv, portalVars, jobVars, hostVars,
         ClaimCancelled
<1>7. PollOK'
  BY DEF PollOK, Goto, ClaimCancelled
<1>8. GrantOK'
  BY DEF GrantOK, TypeOK, IInv, portalVars, Goto, ClaimCancelled, NotYet
<1> QED
  BY <1>1, <1>2, <1>3, <1>4, <1>5, <1>6, <1>7, <1>8 DEF IInv

\* A claim answered without a grant puts the write on record as uncertain.
LEMMA ClaimFencedStep ==
  ASSUME IInv, ClaimFenced
  PROVE  IInv'
<1>1. TypeOK'
  BY JobsAssumption
     DEF TypeOK, PhaseOK, IInv, portalVars, jobVars, authorityVars, hostVars,
         HangUp, Goto, ClaimFenced, HasClaim, RequireReconciliation, Phases,
         Journals, Instant
<1>2. ExchangeOK'
  BY DEF ExchangeOK, HangUp, Goto, ClaimFenced, NoReply
<1>3. PhaseOK'
  BY DEF PhaseOK, Goto, ClaimFenced
<1>4. RowsOK'
  BY DEF RowsOK, RowOK, IInv, portalVars, jobVars, ClaimFenced
<1>5. ReportsOK'
  BY DEF ReportsOK, PhaseOK, Holds, Terminal, IInv, portalVars, jobVars, HangUp,
         ClaimFenced, HasClaim, NoRequest
<1>6. CallsOK'
  BY DEF CallsOK, PhaseOK, Holds, Terminal, IInv, portalVars, jobVars, hostVars,
         ClaimFenced, HasClaim
<1>7. PollOK'
  BY DEF PollOK, Goto, ClaimFenced
<1>8. GrantOK'
  BY DEF GrantOK, TypeOK, IInv, portalVars, Goto, ClaimFenced, NotYet
<1> QED
  BY <1>1, <1>2, <1>3, <1>4, <1>5, <1>6, <1>7, <1>8 DEF IInv

\* A grant received for a prepared write leads to its preflight.
LEMMA ClaimGrantedStep ==
  ASSUME IInv, ClaimGranted
  PROVE  IInv'
<1>1. TypeOK'
  BY JobsAssumption
     DEF TypeOK, IInv, portalVars, jobVars, authorityVars, hostVars, HangUp,
         Goto, ClaimGranted
<1>2. ExchangeOK'
  BY DEF ExchangeOK, HangUp, Goto, ClaimGranted, NoReply
<1>3. PhaseOK'
  BY DEF PhaseOK, IInv, Goto, ClaimGranted, HasClaim
<1>4. RowsOK'
  BY DEF RowsOK, RowOK, IInv, portalVars, jobVars, ClaimGranted
<1>5. ReportsOK'
  BY DEF ReportsOK, Holds, Terminal, IInv, portalVars, jobVars, HangUp,
         ClaimGranted, NoRequest
<1>6. CallsOK'
  BY DEF CallsOK, Holds, Terminal, IInv, portalVars, jobVars, hostVars,
         ClaimGranted
<1>7. PollOK'
  BY DEF PollOK, Goto, ClaimGranted
<1>8. GrantOK'
  BY DEF GrantOK, Unused, IInv, portalVars, jobVars, hostVars, Goto,
         ClaimGranted, HasClaim
<1> QED
  BY <1>1, <1>2, <1>3, <1>4, <1>5, <1>6, <1>7, <1>8 DEF IInv

\* An inspection goes on record as invoked before it is made.
LEMMA ClaimInspectionStep ==
  ASSUME IInv, ClaimInspection
  PROVE  IInv'
<1>1. TypeOK'
  BY JobsAssumption
     DEF TypeOK, PhaseOK, IInv, portalVars, jobVars, authorityVars, hostVars,
         HangUp, Goto, ClaimInspection, HasClaim, BeginInvocation, Phases,
         Journals, Instant
<1>2. ExchangeOK'
  BY DEF ExchangeOK, HangUp, Goto, ClaimInspection, NoReply
<1>3. PhaseOK'
  BY DEF PhaseOK, IInv, Goto, ClaimInspection, HasClaim, BeginInvocation,
         NoJournal
<1>4. RowsOK'
  BY DEF RowsOK, RowOK, IInv, portalVars, jobVars, ClaimInspection
<1>5. ReportsOK'
  BY DEF ReportsOK, Holds, Terminal, IInv, portalVars, jobVars, HangUp,
         ClaimInspection, NoRequest
<1>6. CallsOK'
  BY DEF CallsOK, Holds, Terminal, IInv, portalVars, jobVars, hostVars,
         ClaimInspection
<1>7. PollOK'
  BY DEF PollOK, Goto, ClaimInspection
<1>8. GrantOK'
  BY DEF GrantOK, TypeOK, IInv, portalVars, Goto, ClaimInspection, NotYet
<1> QED
  BY <1>1, <1>2, <1>3, <1>4, <1>5, <1>6, <1>7, <1>8 DEF IInv

\* The intent to execute is on record before the provider is called.
LEMMA SaveIntentStep ==
  ASSUME IInv, SaveIntent
  PROVE  IInv'
<1>1. TypeOK'
  <2>1. journal' \in Journals
    BY DEF IInv, TypeOK, PhaseOK, SaveIntent, BeginInvocation, Journals, Phases
  <2> QED
    BY <2>1
       DEF IInv, TypeOK, SaveIntent, Goto, portalVars, jobVars, authorityVars,
           linkVars, hostVars
<1>2. ExchangeOK'
  BY DEF ExchangeOK, IInv, linkVars, Goto, SaveIntent
<1>3. PhaseOK'
  BY DEF PhaseOK, IInv, Goto, SaveIntent, BeginInvocation, NoJournal
<1>4. RowsOK'
  BY DEF RowsOK, RowOK, IInv, portalVars, jobVars, SaveIntent
<1>5. ReportsOK'
  BY DEF ReportsOK, Holds, Terminal, IInv, portalVars, jobVars, linkVars,
         SaveIntent
<1>6. CallsOK'
  BY DEF CallsOK, Holds, Terminal, IInv, portalVars, jobVars, hostVars,
         SaveIntent
<1>7. PollOK'
  BY DEF PollOK, Goto, SaveIntent
<1>8. GrantOK'
  BY DEF GrantOK, Unused, IInv, portalVars, jobVars, hostVars, Goto, SaveIntent,
         BeginInvocation
<1> QED
  BY <1>1, <1>2, <1>3, <1>4, <1>5, <1>6, <1>7, <1>8 DEF IInv

\* A cycle may fail, and the service stop or crash, anywhere: the journal on
\* disk is enough for the invariant.
LEMMA CycleFailsStep ==
  ASSUME IInv, CycleFails
  PROVE  IInv'
<1>1. TypeOK'
  BY JobsAssumption
     DEF TypeOK, IInv, portalVars, jobVars, authorityVars, hostVars, Goto,
         CycleFails, Instant
<1>2. ExchangeOK'
  BY DEF ExchangeOK, Goto, CycleFails, NoReply
<1>3. PhaseOK'
  BY DEF PhaseOK, Goto, CycleFails
<1>4. RowsOK'
  BY DEF RowsOK, RowOK, IInv, portalVars, jobVars, CycleFails
<1>5. ReportsOK'
  BY DEF ReportsOK, Holds, Terminal, IInv, portalVars, jobVars, CycleFails,
         NoRequest
<1>6. CallsOK'
  BY DEF CallsOK, Holds, Terminal, IInv, portalVars, jobVars, hostVars,
         CycleFails
<1>7. PollOK'
  BY DEF PollOK, Goto, CycleFails
<1>8. GrantOK'
  BY DEF GrantOK, TypeOK, IInv, portalVars, Goto, CycleFails, NotYet
<1> QED
  BY <1>1, <1>2, <1>3, <1>4, <1>5, <1>6, <1>7, <1>8 DEF IInv

\* What the provider does with a call keeps its variables in their types.
LEMMA EffectType ==
  ASSUME TypeOK, NEW j \in Jobs, NEW state \in ProviderStates, Effect(j, state)
  PROVE  provider' \in [Jobs -> ProviderStates] /\ config' \in [VMs -> Nat]
<1>1. provider' \in [Jobs -> ProviderStates]
  BY DEF TypeOK, Effect
<1>2. Target[j] \in VMs
  BY JobsAssumption
<1>3. config[Target[j]] + 1 \in Nat
  BY <1>2 DEF TypeOK
<1>4. config' \in [VMs -> Nat]
  BY <1>2, <1>3 DEF TypeOK, Effect
<1> QED
  BY <1>1, <1>4

\* Executing the method uses the grant up, and the record on disk already says
\* so.
LEMMA ExecMethodStep ==
  ASSUME IInv, ExecMethod
  PROVE  IInv'
<1>1. TypeOK'
  <2>1. journal.job \in Jobs
    BY DEF IInv, TypeOK, PhaseOK, ExecMethod, Journals
  <2>2. /\ provider' \in [Jobs -> ProviderStates]
        /\ config' \in [VMs -> Nat]
    BY <2>1, EffectType DEF IInv, ExecMethod, ProviderStates
  <2>3. calls' \in [Jobs -> Nat]
    BY <2>1 DEF IInv, TypeOK, ExecMethod
  <2> QED
    BY <2>2, <2>3
       DEF IInv, TypeOK, ExecMethod, Goto, Instant, portalVars, jobVars,
           authorityVars, linkVars

<1>2. ExchangeOK'
  BY DEF ExchangeOK, IInv, linkVars, Goto, ExecMethod
<1>3. PhaseOK'
  BY DEF PhaseOK, IInv, Goto, ExecMethod
<1>4. RowsOK'
  BY DEF RowsOK, RowOK, IInv, portalVars, jobVars, ExecMethod
<1>5. ReportsOK'
  BY DEF ReportsOK, Holds, Terminal, IInv, portalVars, jobVars, linkVars,
         ExecMethod
<1>6. CallsOK'
  BY DEF CallsOK, PhaseOK, GrantOK, TypeOK, Holds, Terminal, Unused, IInv,
         portalVars, jobVars, ExecMethod, Journals
<1>7. PollOK'
  BY DEF PollOK, Goto, ExecMethod
<1>8. GrantOK'
  BY DEF GrantOK, TypeOK, IInv, portalVars, Goto, ExecMethod, NotYet
<1> QED
  BY <1>1, <1>2, <1>3, <1>4, <1>5, <1>6, <1>7, <1>8 DEF IInv

\* The provider ends its jobs without the Agent.
LEMMA ProviderFinishesStep ==
  ASSUME IInv, NEW j \in Jobs, ProviderFinishes(j)
  PROVE  IInv'
<1>1. TypeOK'
  <2>1. /\ provider' \in [Jobs -> ProviderStates]
        /\ config' \in [VMs -> Nat]
    <3>1. CASE Effect(j, "done")
      BY <3>1, EffectType DEF IInv, ProviderStates
    <3>2. CASE /\ provider' = [provider EXCEPT ![j] = "failed"]
               /\ \/ UNCHANGED config
                  \/ config' = [config EXCEPT ![Target[j]] = @ + 1]
      BY <3>2, JobsAssumption DEF IInv, TypeOK, ProviderStates
    <3> QED
      BY <3>1, <3>2 DEF ProviderFinishes
  <2> QED
    BY <2>1
       DEF IInv, TypeOK, ProviderFinishes, portalVars, jobVars, authorityVars,
           linkVars

<1>2. ExchangeOK'
  BY DEF ExchangeOK, IInv, linkVars, ProviderFinishes
<1>3. PhaseOK'
  BY DEF PhaseOK, IInv, ProviderFinishes
<1>4. RowsOK'
  BY DEF RowsOK, RowOK, IInv, portalVars, jobVars, ProviderFinishes
<1>5. ReportsOK'
  BY DEF ReportsOK, Holds, Terminal, IInv, portalVars, jobVars, linkVars,
         ProviderFinishes
<1>6. CallsOK'
  BY DEF CallsOK, Holds, Terminal, IInv, portalVars, jobVars, ProviderFinishes
<1>7. PollOK'
  BY DEF PollOK, Terminal, IInv, portalVars, jobVars, linkVars, ProviderFinishes
<1>8. GrantOK'
  BY DEF GrantOK, Unused, IInv, portalVars, jobVars, linkVars, ProviderFinishes
<1> QED
  BY <1>1, <1>2, <1>3, <1>4, <1>5, <1>6, <1>7, <1>8 DEF IInv

\* The machine as it is now is a valid final result.
LEMMA OutcomeTypes ==
  ASSUME TypeOK, NEW j \in Jobs
  PROVE  /\ Succeeded(j) \in FinalResults
         /\ Failed \in FinalResults
         /\ Preflight \in FinalResults
<1>1. Observation(j) \in Observations
  BY JobsAssumption DEF TypeOK, Observation, Observations
<1> QED
  BY <1>1
     DEF Succeeded, Failed, Preflight, Outcome, FinalResults, Results,
         ResultStatuses, Observations

\* Every step of the Agent's cycle preserves the invariant.
LEMMA AgentStep ==
  ASSUME IInv, Agent
  PROVE  IInv'
<1>0. pc \in {"inspecting", "preflight", "invoking", "rejected", "applied",
       "started", "unknown", "observing"}
        => /\ journal # NoJournal
           /\ journal.job \in Jobs
           /\ journal.phase # "terminal"
  BY DEF IInv, TypeOK, PhaseOK, Journals
<1>1. CASE BeginCycle
  BY <1>1, BeginCycleStep
<1>2. CASE Acknowledged
  BY <1>2, AcknowledgedStep
<1>3. CASE ReceiveNoWork
  BY <1>3, CycleEnds DEF ReceiveNoWork
<1>4. CASE ReceiveCancelled
  BY <1>4, ReceiveCancelledStep
<1>5. CASE ReceiveSettledOrInterrupted
  BY <1>5, ReceiveSettledOrInterruptedStep
<1>6. CASE ReceiveAccepted
  BY <1>6, ReceiveAcceptedStep
<1>7. CASE SendClaim
  BY <1>7, SendClaimStep
<1>8. CASE ClaimCancelled
  BY <1>8, ClaimCancelledStep
<1>9. CASE ClaimFenced
  BY <1>9, ClaimFencedStep
<1>10. CASE ClaimGranted
  BY <1>10, ClaimGrantedStep
<1>11. CASE ClaimInspection
  BY <1>11, ClaimInspectionStep
<1>12. CASE Inspect
  BY <1>12, <1>0, OutcomeTypes, FinalReport DEF Inspect, IInv
<1>13. CASE PreflightFails
  BY <1>13, <1>0, OutcomeTypes, FinalReport DEF PreflightFails, IInv
<1>14. CASE SaveIntent
  BY <1>14, SaveIntentStep
<1>15. CASE IntentExpired
  BY <1>15, <1>0, OutcomeTypes, FinalReport DEF IntentExpired, IInv
<1>16. CASE ExecMethod
  BY <1>16, ExecMethodStep
<1>17. CASE ProviderRejected
  BY <1>17, <1>0, OutcomeTypes, FinalReport DEF ProviderRejected, IInv
<1>18. CASE ProviderApplied
  BY <1>18, <1>0, OutcomeTypes, FinalReport, UncertainReport
     DEF ProviderApplied, IInv
<1>19. CASE ProviderStarted
  BY <1>19, <1>0, RunningReport, UncertainReport DEF ProviderStarted
<1>20. CASE AcceptanceUnknown
  BY <1>20, <1>0, UncertainReport DEF AcceptanceUnknown
<1>21. CASE ObserveProvider
  <2>1. CASE /\ Send("result", journal.job, Observed)
             /\ Goto("reporting")
             /\ UNCHANGED journal
    <3>1. journal' = BeginObservation(journal)
      BY <1>21, <2>1
         DEF ObserveProvider, BeginObservation, IInv, TypeOK, PhaseOK, Journals
    <3> QED
      BY <1>21, <1>0, <2>1, <3>1, RunningReport DEF ObserveProvider
  <2>2. CASE \E result \in {Succeeded(journal.job), Failed} : ReportFinal(result)
    BY <1>21, <1>0, <2>2, OutcomeTypes, FinalReport DEF ObserveProvider, IInv
  <2>3. CASE ReportUncertain
    BY <1>21, <1>0, <2>3, UncertainReport DEF ObserveProvider
  <2> QED
    BY <1>21, <2>1, <2>2, <2>3 DEF ObserveProvider
<1>22. CASE Reported
  BY <1>22, CycleEnds DEF Reported
<1>23. CASE ExchangeRefused
  BY <1>23, CycleEnds DEF ExchangeRefused
<1> QED
  BY ONLY Agent, <1>1, <1>2, <1>3, <1>4, <1>5, <1>6, <1>7, <1>8, <1>9, <1>10,
     <1>11, <1>12, <1>13, <1>14, <1>15, <1>16, <1>17, <1>18, <1>19, <1>20,
     <1>21, <1>22, <1>23
     DEF Agent

=============================================================================
