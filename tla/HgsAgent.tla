------------------------------ MODULE HgsAgent ------------------------------
(***************************************************************************)
(* The Agents of the nodes (agent/src/hgs_management.cpp,                  *)
(* windows_hgs_management.cpp and run_hgs_cycle): each works through one   *)
(* cycle at a time - recover and report, poll, save, claim, save, change   *)
(* the machine, observe, save, report - with a protected journal, receipts *)
(* and a fence on its disk, and may stop at every step.                    *)
(***************************************************************************)
EXTENDS HgsPortal

VARIABLES
  journal,    \* current.json
  receipts,   \* receipts of the jobs
  fence,      \* fence.json
  releases,   \* releases/<job>.json
  torn,       \* nodes with a leftover current.json.new
  pc,         \* where the worker is; "idle" between cycles
  outcome,    \* what the worker is about to save (volatile)
  host,       \* the machines
  applied     \* history: how often a step changed its machine, and the boot

diskVars == <<journal, receipts, fence, releases, torn>>
agentVars == <<diskVars, pc, outcome, host, applied>>
portalKept == <<plan, job, clean, recent, tenantActive, permitted>>
portalRows == <<portalKept, unrest>>

-----------------------------------------------------------------------------
(* Data. *)

NoJournal == [job |-> NoJob, phase |-> "none", before |-> NoDoc]
Phases == {"prepared", "claiming", "intent", "reboot_wait", "terminal"}
Record(j, phase, before) == [job |-> j, phase |-> phase, before |-> before]

\* What a failure has observed is of no consequence and left out; what an
\* uncertain step has, only for a restart.
Failed == Doc("failed", TRUE, NoDoc)
Disproved == Doc("failed", FALSE, NoDoc)
Uncertain(j, seen) == Doc("reconciliation_required", FALSE,
                          IF Operation(j) = "reboot" THEN seen ELSE NoDoc)
Succeeded(seen) == Doc("succeeded", FALSE, seen)
RebootRequired(seen) == Doc("reboot_required", FALSE, seen)

\* native_provider::inspect; a staged restart shows as pending.
See(n) == [boot |-> host[n].boot, pending |-> host[n].pending, level |-> host[n].level]
MaySee(n) == {NoDoc, See(n)}

\* prerequisites, with allow_reboot
Prerequisites(op, seen) ==
  CASE op \in {"inspect", "reboot"} -> TRUE
    [] op = "install_role" -> seen.level < 2
    [] op = "promote" -> seen.level = 1 /\ ~seen.pending
    [] OTHER -> seen.level >= 2 /\ ~seen.pending

\* postcondition: a restart is proven by another boot than before.
Shows(j, before, seen) ==
  /\ Proves(Operation(j), seen)
  /\ Operation(j) = "reboot" => seen.boot # before.boot

Unexpired(j) == job[j].expires # "past"
OpenFence(n) == IF fence[n] \in releases THEN NoJob ELSE fence[n]

Send(n, mode, j, doc) ==
  /\ request' = [request EXCEPT ![n] = Message(mode, j, doc)]
  /\ reply' = [reply EXCEPT ![n] = NoReply]
  /\ UNCHANGED late
Goto(n, label) == pc' = [pc EXCEPT ![n] = label]

\* The exchange of n is over; a request nobody read may still arrive.  A poll
\* that is late does nothing that the next message of n does not.
Close(n) ==
  /\ request' = [request EXCEPT ![n] = NoRequest]
  /\ reply' = [reply EXCEPT ![n] = NoReply]
Delay(n) ==
  /\ request[n].mode \in {"claim", "result"} /\ reply[n] = NoReply
  /\ late' = late \cup {<<n, request[n]>>}
  /\ Disturbed
Abandon(n) == Close(n) /\ (Delay(n) \/ UNCHANGED <<late, unrest>>)

\* finish: the outcome is saved next, in two files.
Conclude(n, doc) == outcome' = [outcome EXCEPT ![n] = doc] /\ Goto(n, "finishing")

-----------------------------------------------------------------------------
(* The start of a cycle. *)

\* load_hgs_journal: a receipt counts more than current.json, and an uncertain
\* one is written out again as fence and journal.
BeginCycle(n) ==
  LET j == journal[n].job IN
  /\ pc[n] = "idle"
  /\ \/ /\ j = NoJob
        /\ Send(n, "poll", NoJob, NoDoc)
        /\ Goto(n, "polling")
        /\ UNCHANGED <<journal, fence>>
     \/ /\ j # NoJob
        /\ receipts[j] # NoDoc
        /\ IF receipts[j].status = "reconciliation_required"
           THEN /\ n \notin torn
                /\ fence' = [fence EXCEPT ![n] = j]
                /\ journal' = [journal EXCEPT ![n].phase = "terminal"]
           ELSE UNCHANGED <<journal, fence>>
        /\ Send(n, "result", j, receipts[j])
        /\ Goto(n, "reporting")
  /\ UNCHANGED <<portalRows, receipts, releases, torn, outcome, host, applied>>

\* Defect: a machine that cannot be inspected has failed the step.
RecoveredAsFailed(n, j, before, seen) ==
  IF journal[n].phase \in {"prepared", "claiming"} \/ seen = NoDoc THEN Failed
  ELSE IF Shows(j, before, seen)
  THEN IF seen.pending /\ ~ReadOnly(j) THEN RebootRequired(seen) ELSE Succeeded(seen)
  ELSE IF ReadOnly(j) THEN Disproved ELSE Uncertain(j, seen)

\* recover
Recovered(n, j, before, seen) ==
  IF journal[n].phase \in {"prepared", "claiming"} THEN Failed
  ELSE IF seen = NoDoc THEN IF ReadOnly(j) THEN Failed ELSE Uncertain(j, NoDoc)
  ELSE IF Shows(j, before, seen)
  THEN IF seen.pending /\ ~ReadOnly(j) THEN RebootRequired(seen) ELSE Succeeded(seen)
  ELSE IF ReadOnly(j) THEN Disproved ELSE Uncertain(j, seen)

\* Defect: an interrupted step is claimed and executed again.
RecoverByRetrying(n, seen) ==
  /\ pc[n] = "idle"
  /\ journal[n].job # NoJob /\ receipts[journal[n].job] = NoDoc
  /\ journal[n].phase = "intent"
  /\ Goto(n, "intent")
  /\ UNCHANGED <<portalVars, diskVars, outcome, host, applied>>
Recover(n, seen) ==
  LET j == journal[n].job before == journal[n].before
      sameBoot == /\ journal[n].phase = "reboot_wait" /\ seen # NoDoc
                  /\ seen.boot = before.boot
  IN
  /\ pc[n] = "idle"
  /\ j # NoJob /\ receipts[j] = NoDoc
  /\ IF sameBoot /\ Unexpired(j) /\ n \notin torn
     THEN /\ Send(n, "result", j, RebootRequired(seen))
          /\ Goto(n, "delivering")
          /\ UNCHANGED outcome
     ELSE /\ Conclude(n, Recovered(n, j, before, seen))
          /\ UNCHANGED linkVars
  /\ UNCHANGED <<portalRows, diskVars, host, applied>>

\* save_hgs_journal of a terminal record: the receipt, then fence and journal.
SaveReceipt(n) ==
  /\ pc[n] = "finishing"
  /\ receipts' = [receipts EXCEPT ![journal[n].job] = outcome[n]]
  /\ Goto(n, "saving")
  /\ UNCHANGED <<portalVars, journal, fence, releases, torn, outcome, host, applied>>

SaveJournal(n) ==
  LET j == journal[n].job
      uncertain == outcome[n].status = "reconciliation_required"
      previous == OpenFence(n)
  IN
  /\ pc[n] = "saving"
  /\ fence' = IF uncertain /\ previous \in {NoJob, j}
              THEN [fence EXCEPT ![n] = j] ELSE fence
  /\ IF n \in torn \/ (uncertain /\ previous \notin {NoJob, j})
     THEN Goto(n, "idle") /\ UNCHANGED <<linkVars, journal>>
     ELSE /\ journal' = [journal EXCEPT ![n].phase = "terminal"]
          /\ Send(n, "result", j, outcome[n])
          /\ Goto(n, "delivering")
  /\ outcome' = [outcome EXCEPT ![n] = NoDoc]
  /\ UNCHANGED <<portalRows, receipts, releases, torn, host, applied>>

\* After the report that opens a cycle comes the poll.  Other reports end the
\* cycle; one of a recovery is repeated, as the next cycle does.
Reported(n) ==
  /\ reply[n] = Accepted
  /\ \/ /\ pc[n] = "reporting"
        /\ Send(n, "poll", NoJob, NoDoc)
        /\ Goto(n, "polling")
     \/ /\ pc[n] = "delivering"
        /\ Close(n) /\ UNCHANGED late
        /\ Goto(n, "idle")
  /\ UNCHANGED <<portalRows, diskVars, outcome, host, applied>>

-----------------------------------------------------------------------------
(* Poll, claim and intent. *)

\* Defect: a fence does not keep the Agent from new steps.
ReceivePollUnfenced(n) ==
  LET j == reply[n].job IN
  /\ pc[n] = "polling" /\ reply[n].type = "job"
  /\ IF j # NoJob /\ receipts[j] = NoDoc
     THEN journal' = [journal EXCEPT ![n] = Record(j, "prepared", NoDoc)] /\ Goto(n, "inspecting")
     ELSE Goto(n, "idle") /\ UNCHANGED journal
  /\ Close(n) /\ UNCHANGED late
  /\ UNCHANGED <<portalRows, receipts, fence, releases, torn, outcome, host, applied>>
\* release_hgs_fence, permitted_while_fenced, load_hgs_receipt, save_hgs_journal
ReceivePoll(n) ==
  LET j == reply[n].job release == reply[n].release IN
  /\ pc[n] = "polling" /\ reply[n].type = "job"
  /\ releases' = IF release # NoJob /\ OpenFence(n) = release
                 THEN releases \cup {release} ELSE releases
  /\ IF j = NoJob \/ (j \notin Inspections /\ fence[n] \notin releases' \cup {NoJob})
     THEN /\ Close(n) /\ UNCHANGED late
          /\ Goto(n, "idle")
          /\ UNCHANGED journal
     ELSE IF receipts[j] # NoDoc
     THEN Send(n, "result", j, receipts[j]) /\ Goto(n, "delivering") /\ UNCHANGED journal
     ELSE /\ Close(n) /\ UNCHANGED late
          /\ IF n \in torn THEN Goto(n, "idle") /\ UNCHANGED journal
             ELSE /\ journal' = [journal EXCEPT ![n] = Record(j, "prepared", NoDoc)]
                  /\ Goto(n, "inspecting")
  /\ UNCHANGED <<portalRows, receipts, fence, torn, outcome, host, applied>>

\* Expiry, a failing inspection, a missing prerequisite, a stopping service.
PreflightFails(n) ==
  /\ pc[n] = "inspecting"
  /\ Conclude(n, Failed)
  /\ UNCHANGED <<portalVars, diskVars, host, applied>>

SaveClaiming(n) ==
  LET j == journal[n].job IN
  /\ pc[n] = "inspecting"
  /\ Unexpired(j) /\ Prerequisites(Operation(j), See(n))
  /\ journal' = [journal EXCEPT ![n] = Record(j, "claiming", See(n))]
  /\ Send(n, "claim", j, NoDoc)
  /\ Goto(n, "claiming")
  /\ UNCHANGED <<portalRows, receipts, fence, releases, torn, outcome, host, applied>>

\* The claim is refused or lost, or its sixty seconds are over.
ClaimFails(n) ==
  /\ pc[n] = "claiming"
  /\ Conclude(n, Failed)
  /\ Abandon(n)
  /\ UNCHANGED <<portalKept, diskVars, host, applied>>

ClaimGranted(n) ==
  /\ pc[n] = "claiming"
  /\ reply[n] # NoReply /\ reply[n].job = journal[n].job
  /\ Unexpired(journal[n].job)
  /\ journal' = [journal EXCEPT ![n].phase = "intent"]
  /\ Close(n) /\ UNCHANGED late
  /\ Goto(n, "intent")
  /\ UNCHANGED <<portalRows, receipts, fence, releases, torn, outcome, host, applied>>

-----------------------------------------------------------------------------
(* Execution. *)

AuthorityLost(n) ==
  /\ pc[n] = "intent"
  /\ Conclude(n, Failed)
  /\ UNCHANGED <<portalVars, diskVars, host, applied>>

\* verify also needs a healthy service, which may be missing.
Observe(n, seen) ==
  LET j == journal[n].job before == journal[n].before IN
  /\ pc[n] = "intent" /\ ReadOnly(j)
  /\ \/ Conclude(n, IF seen = NoDoc THEN Failed
                    ELSE IF Shows(j, before, seen) THEN Succeeded(seen)
                    ELSE Disproved)
     \/ seen # NoDoc /\ Operation(j) = "verify" /\ Conclude(n, Disproved)
  /\ UNCHANGED <<portalVars, diskVars, host, applied>>

AlreadyDone(j, before) ==
  \/ Operation(j) = "reboot" /\ ~before.pending
  \/ Operation(j) = "initialize" /\ Proves("initialize", before)

NothingToDo(n) ==
  LET j == journal[n].job before == journal[n].before IN
  /\ pc[n] = "intent" /\ ~ReadOnly(j)
  /\ AlreadyDone(j, before)
  /\ Conclude(n, Succeeded(before))
  /\ UNCHANGED <<portalVars, diskVars, host, applied>>

\* What the provider may leave, completely or not.  A promotion takes effect
\* with the restart it requires.
Effects(op, h) ==
  CASE op = "reboot" -> {[h EXCEPT !.shutdown = TRUE]}
    [] op = "install_role" ->
         {[h EXCEPT !.level = Max({1, h.level}), !.pending = p] : p \in BOOLEAN}
    [] op = "promote" -> {[h EXCEPT !.staged = 2, !.pending = TRUE]}
    [] OTHER -> {[h EXCEPT !.level = 3]}

\* native_provider::apply, which may fail before or after its effect.
Apply(n) ==
  LET j == journal[n].job IN
  /\ pc[n] = "intent" /\ ~ReadOnly(j) /\ Unexpired(j)
  /\ ~AlreadyDone(j, journal[n].before)
  /\ host' \in {[host EXCEPT ![n] = h] : h \in Effects(Operation(j), host[n])}
  /\ applied' = [applied EXCEPT ![j] = [times |-> @.times + 1, boot |-> host[n].boot]]
  /\ \/ Goto(n, "applied") /\ UNCHANGED outcome
     \/ Operation(j) # "reboot" /\ Conclude(n, Uncertain(j, NoDoc))
  /\ UNCHANGED <<portalVars, diskVars>>

ApplyFails(n) ==
  /\ pc[n] = "intent" /\ ~ReadOnly(journal[n].job)
  /\ Conclude(n, Uncertain(journal[n].job, NoDoc))
  /\ UNCHANGED <<portalVars, diskVars, host, applied>>

SaveRebootWait(n) ==
  LET j == journal[n].job IN
  /\ pc[n] = "applied" /\ Operation(j) = "reboot"
  /\ journal' = [journal EXCEPT ![n].phase = "reboot_wait"]
  /\ Send(n, "result", j, RebootRequired(journal[n].before))
  /\ Goto(n, "delivering")
  /\ UNCHANGED <<portalRows, receipts, fence, releases, torn, outcome, host, applied>>

Applied(j, before, seen) ==
  IF seen = NoDoc THEN Uncertain(j, NoDoc)
  ELSE IF Operation(j) \in {"install_role", "promote"} /\ seen.pending
  THEN RebootRequired(seen)
  ELSE IF Shows(j, before, seen) THEN Succeeded(seen) ELSE Uncertain(j, seen)

InspectAfter(n, seen) ==
  LET j == journal[n].job IN
  /\ pc[n] = "applied" /\ Operation(j) # "reboot"
  /\ Conclude(n, Applied(j, journal[n].before, seen))
  /\ UNCHANGED <<portalVars, diskVars, host, applied>>

-----------------------------------------------------------------------------
(* What interrupts a cycle. *)

\* A refusal ends the cycle.
Refusal(n) ==
  /\ pc[n] \in {"reporting", "delivering", "polling"}
  /\ reply[n] = Rejected
  /\ Close(n) /\ UNCHANGED late
  /\ Goto(n, "idle")
  /\ UNCHANGED <<portalRows, diskVars, outcome, host, applied>>

\* No answer in time.
HangUp(n) ==
  /\ pc[n] \in {"reporting", "delivering", "polling"}
  /\ Abandon(n)
  /\ Goto(n, "idle")
  /\ UNCHANGED <<portalKept, diskVars, outcome, host, applied>>

\* Where current.json is being replaced: current.json.new may be left behind,
\* and CREATE_NEW then fails for good.
Replacing(n) ==
  pc[n] \in {"polling", "inspecting", "claiming", "applied", "saving"}

Stop(n) ==
  /\ Goto(n, "idle")
  /\ outcome' = [outcome EXCEPT ![n] = NoDoc]
  /\ \/ Abandon(n) /\ UNCHANGED torn
     \/ /\ Replacing(n) /\ n \notin torn
        /\ torn' = torn \cup {n}
        /\ Close(n) /\ UNCHANGED late
        /\ Disturbed
  /\ UNCHANGED <<portalKept, journal, receipts, fence, releases, applied>>

Crash(n) == pc[n] # "idle" /\ Stop(n) /\ UNCHANGED host

\* A planned restart, or (up to MaxBoot) another.
Restart(n) ==
  /\ host[n].shutdown \/ host[n].boot < MaxBoot
  /\ host' = [host EXCEPT ![n] =
       [boot |-> @.boot + 1, pending |-> FALSE, shutdown |-> FALSE,
        level |-> Max({@.level, @.staged}), staged |-> 0]]
  /\ Stop(n)

=============================================================================
