------------------------------ MODULE GpoAgent ------------------------------
(***************************************************************************)
(* The Agents of the domain controllers (run_gpo_cycle in                  *)
(* windows_transport.cpp, gpo_management.cpp, gpo_managed.cpp,             *)
(* gpo_reconciliation.cpp): each plays one cycle at a time - recover and   *)
(* report, or poll, save, inspect or claim, change the directory in a      *)
(* worker process, save, report - with a protected journal and receipts on *)
(* its disk, and may stop at every step.                                   *)
(*                                                                         *)
(* Left out: the artifact, the second one-use ticket, the fifteen seconds  *)
(* of a grant (it may lapse at any time), replacement files left torn.     *)
(***************************************************************************)
EXTENDS GpoPortal

VARIABLES
  journal,   \* current.json: the job and how far it came
  receipt,   \* receipt.json of the jobs
  pending,   \* accepted rounds whose second observation is saved
  released,  \* changes whose release is saved
  stage,     \* where the cycle is; "idle" between cycles
  directory, \* the managed object and its OUs: what IPMS and others wrote
  effect     \* history: what a job left in the directory

diskVars == <<journal, receipt, pending, released>>
agentVars == <<diskVars, stage, directory, effect>>
portalRows == <<row, policy, recon, authorityVars, overdue, unrest>>

-----------------------------------------------------------------------------
(* Data. *)

Phases == {"none", "prepared", "granted", "creating", "created"}
NoJournal == [job |-> NoJob, phase |-> "none"]
Record(j, phase) == [job |-> j, phase |-> phase]

Failed(closing) == Doc("failed", closing, FALSE, NoDoc)
Awaiting == Doc("awaiting", FALSE, FALSE, NoDoc)
Inspected(seen) == Doc("inspected", FALSE, FALSE, seen)
Succeeded == Doc("success", FALSE, TRUE, NoDoc)
Uncertain(guid) == Doc("uncertain", FALSE, guid, NoDoc)

JobOf(a) == journal[a].job
Ended(j) == receipt[j] # NoDoc
Snapshot == [writes |-> directory.writes, drift |-> directory.drift]

Send(a, mode, j, doc, round, seen) ==
  /\ request' = [request EXCEPT ![a] = Message(mode, j, doc, round, seen)]
  /\ reply' = [reply EXCEPT ![a] = NoReply]
  /\ UNCHANGED late
Goto(a, label) == stage' = [stage EXCEPT ![a] = label]
Report(a, j, doc) == Send(a, "result", j, doc, 0, NoDoc) /\ Goto(a, "delivering")

\* The exchange of a is over; a request nobody read may still arrive.  A poll or
\* lookup that is late does nothing that ExpireJobs, Review and the next do not.
Unread(a) ==
  /\ request[a].mode \in {"claim", "result", "reconciliation_result", "reconciliation_ack"}
  /\ reply[a] = NoReply
HangUp(a) ==
  /\ request' = [request EXCEPT ![a] = NoRequest]
  /\ reply' = [reply EXCEPT ![a] = NoReply]
\* The cycle is over.
Rest(a) == Goto(a, "idle") /\ HangUp(a) /\ UNCHANGED late

\* save_gpo_journal of a completed record: the receipt, from then on read
\* before current.json, which is replaced next.
Conclude(a, doc) ==
  /\ receipt' = [receipt EXCEPT ![JobOf(a)] = doc]
  /\ Report(a, JobOf(a), doc)
Save(a, phase) == journal' = [journal EXCEPT ![a].phase = phase]

-----------------------------------------------------------------------------
(* The start of a cycle. *)

\* What was granted and interrupted is uncertain.
Recover(a) ==
  LET j == JobOf(a) IN
  /\ stage[a] = "idle" /\ j # NoJob /\ ~Ended(j)
  /\ journal[a].phase # "prepared"
  /\ receipt' = [receipt EXCEPT ![j] = Uncertain(journal[a].phase = "created")]
  /\ UNCHANGED <<portalVars, journal, pending, released, stage, directory, effect>>

StartPoll(a) == Send(a, "poll", NoJob, NoDoc, 0, NoDoc) /\ Goto(a, "polling")

\* A completed record is reported first, an uncertain one stops all else until
\* it is released, one that is only prepared is looked up again.
BeginCycle(a) ==
  LET j == JobOf(a) IN
  /\ stage[a] = "idle"
  /\ \/ /\ j = NoJob \/ j \in released
        /\ StartPoll(a)
     \/ /\ j # NoJob /\ ~Ended(j) /\ journal[a].phase = "prepared"
        /\ Send(a, "lookup", j, NoDoc, 0, NoDoc) /\ Goto(a, "polling")
     \/ /\ j # NoJob /\ Ended(j) /\ j \notin released
        /\ IF receipt[j].status # "uncertain"
           THEN Send(a, "result", j, receipt[j], 0, NoDoc) /\ Goto(a, "reporting")
           ELSE IF j \in Managed
           THEN Send(a, "reconciliation_poll", j, NoDoc, 0, NoDoc) /\ Goto(a, "reconciling")
           ELSE Report(a, j, receipt[j])
  /\ UNCHANGED <<portalRows, diskVars, directory, effect>>

\* After the report that opens a cycle comes the poll; others end the cycle.
Reported(a) ==
  /\ reply[a] = Accepted
  /\ IF stage[a] = "reporting" THEN StartPoll(a)
     ELSE stage[a] = "delivering" /\ Rest(a)
  /\ UNCHANGED <<portalRows, diskVars, directory, effect>>

-----------------------------------------------------------------------------
(* Offer, inspection and claim. *)

\* The answer is kept: it may hold the approval.
ReceiveOffer(a) ==
  LET j == reply[a].job
      prepared == JobOf(a) # NoJob /\ ~Ended(JobOf(a))
  IN
  /\ stage[a] = "polling" /\ reply[a].type = "job"
  /\ IF j = NoJob /\ prepared
     THEN Conclude(a, Failed(TRUE)) /\ UNCHANGED journal
     ELSE IF j = NoJob \/ Ended(j) \/ (prepared /\ j # JobOf(a))
     THEN Rest(a) /\ UNCHANGED <<journal, receipt>>
     ELSE /\ journal' = [journal EXCEPT ![a] = Record(j, "prepared")]
          /\ Goto(a, "offered")
          /\ UNCHANGED <<linkVars, receipt>>
  /\ UNCHANGED <<portalRows, pending, released, directory, effect>>

\* fail_preflight: expired, or the controller or content does not match; an
\* inspection whose worker fails.
FailPreflight(a, closing) ==
  /\ stage[a] = "offered"
  /\ closing => JobOf(a) \in overdue
  /\ Conclude(a, Failed(closing))
  /\ UNCHANGED <<portalRows, journal, pending, released, directory, effect>>

\* inspect_managed
Inspect(a) ==
  /\ stage[a] = "offered"
  /\ JobOf(a) \in Inspections \ overdue
  /\ Conclude(a, Inspected(Snapshot))
  /\ UNCHANGED <<portalRows, journal, pending, released, directory, effect>>

Approved(a) == reply[a].mode = "approved" /\ JobOf(a) \notin overdue

ReportAwaiting(a) ==
  /\ stage[a] = "offered" /\ JobOf(a) \notin Inspections
  /\ ~Approved(a)
  /\ Report(a, JobOf(a), Awaiting)
  /\ UNCHANGED <<portalRows, diskVars, directory, effect>>

\* The journal is fenced before the one grant is asked for.
SaveGranted(a) ==
  /\ stage[a] = "offered" /\ JobOf(a) \notin Inspections
  /\ Approved(a)
  /\ Save(a, "granted")
  /\ Send(a, "claim", JobOf(a), NoDoc, 0, NoDoc)
  /\ Goto(a, "claiming")
  /\ UNCHANGED <<portalRows, receipt, pending, released, directory, effect>>

\* record_claim
ReceiveClaim(a) ==
  LET mode == reply[a].mode IN
  /\ stage[a] = "claiming" /\ reply[a].type = "claim"
  /\ IF mode = "execute"
     THEN /\ IF JobOf(a) \in overdue THEN Rest(a)
             ELSE Goto(a, "granted") /\ HangUp(a) /\ UNCHANGED late
          /\ UNCHANGED receipt
     ELSE Conclude(a, IF mode = "cancelled" THEN Failed(TRUE) ELSE Uncertain(FALSE))
  /\ UNCHANGED <<portalRows, journal, pending, released, directory, effect>>

-----------------------------------------------------------------------------
(* Execution (execute_managed, execute_pilot), by a worker process.        *)

\* Before the intent is saved, whatever fails has changed nothing.
PreflightFails(a) ==
  /\ stage[a] = "granted"
  /\ Conclude(a, Failed(FALSE))
  /\ UNCHANGED <<portalRows, journal, pending, released, directory, effect>>

AsExpected(j) == j \in Pilots \/ Snapshot = row[j].expected

\* The intent is flushed while the grant holds and nothing has drifted.
SaveIntent(a) ==
  /\ stage[a] = "granted"
  /\ JobOf(a) \notin overdue /\ AsExpected(JobOf(a))
  /\ Save(a, "creating")
  /\ Goto(a, "creating")
  /\ UNCHANGED <<portalVars, receipt, pending, released, directory, effect>>

\* An import into an object IPMS already manages only records the content.
PrepareOnly(a) ==
  LET j == JobOf(a) IN
  /\ stage[a] = "granted"
  /\ j \in Changes \ overdue /\ row[j].named /\ AsExpected(j)
  /\ effect' = [effect EXCEPT ![j] = "none needed"]
  /\ Conclude(a, Succeeded)
  /\ UNCHANGED <<portalRows, journal, pending, released, directory>>

\* The grant has run out, the object cannot be made.
IntentFails(a) ==
  /\ stage[a] = "creating"
  /\ Conclude(a, Uncertain(FALSE))
  /\ UNCHANGED <<portalRows, journal, pending, released, directory, effect>>

\* A known object is named in the journal before it is written.
Name(a) ==
  LET j == JobOf(a) IN
  /\ stage[a] = "creating" /\ j \notin overdue
  /\ j \in Changes /\ row[j].named
  /\ Save(a, "created")
  /\ Goto(a, "named")
  /\ UNCHANGED <<portalVars, receipt, pending, released, directory, effect>>

Write(j, extent) ==
  /\ effect' = [effect EXCEPT ![j] = extent]
  /\ directory' = IF j \in Changes THEN [directory EXCEPT !.writes = @ + 1] ELSE directory

\* A new object is made first and named in the journal next.
Create(a) ==
  LET j == JobOf(a) IN
  /\ stage[a] = "creating" /\ j \notin overdue
  /\ j \in Changes => ~row[j].named
  /\ Write(j, "partial")
  /\ Goto(a, "made")
  /\ UNCHANGED <<portalVars, diskVars>>

SaveName(a) ==
  /\ stage[a] = "made"
  /\ Save(a, "created")
  /\ Goto(a, "named")
  /\ UNCHANGED <<portalVars, receipt, pending, released, directory, effect>>

\* Import, link, activation or deactivation: wholly, or in part and then lost.
Mutate(a, extent) ==
  /\ stage[a] = "named"
  /\ Write(JobOf(a), extent)
  /\ Goto(a, IF extent = "full" THEN "changed" ELSE "broken")
  /\ UNCHANGED <<portalVars, diskVars>>

\* The postconditions hold, or the outcome is uncertain.
Verify(a) ==
  /\ \/ stage[a] = "changed" /\ Conclude(a, Succeeded)
     \/ stage[a] \in {"changed", "broken", "named"} /\ Conclude(a, Uncertain(TRUE))
  /\ UNCHANGED <<portalRows, journal, pending, released, directory, effect>>

\* The worker dies or takes too long: invoke_gpo_pilot_worker completes the
\* record as it was last saved.
Working == {"granted", "creating", "made", "named", "changed", "broken"}
WorkerLost(a) ==
  /\ stage[a] \in Working
  /\ Conclude(a, Uncertain(journal[a].phase = "created"))
  /\ UNCHANGED <<portalRows, journal, pending, released, directory, effect>>

-----------------------------------------------------------------------------
(* Reconciliation, while the journal is uncertain. *)

Observation(sound) == [at |-> Snapshot, sound |-> sound]

\* The directory is read; an accepted observation that is confirmed is saved
\* before it is acknowledged, anything else is reported.  Only of an object it
\* has named can the Agent make a sound observation.
Observe(a, sound) ==
  LET c == JobOf(a) w == reply[a] seen == Observation(sound)
      confirmed == w.mode = "accept" /\ seen = w.seen
  IN
  /\ stage[a] = "reconciling" /\ w.type = "control"
  /\ w.mode \in {"observe", "accept"} /\ ~recon[c].overdue
  /\ sound => receipt[c].guid
  /\ IF confirmed
     THEN /\ pending' = pending \cup {<<c, w.round>>}
          /\ Send(a, "reconciliation_ack", c, NoDoc, w.round, seen)
          /\ Goto(a, "acknowledging")
     ELSE /\ Send(a, "reconciliation_result", c, NoDoc, w.round, seen)
          /\ Goto(a, "observing")
          /\ UNCHANGED pending
  /\ UNCHANGED <<portalRows, journal, receipt, released, directory, effect>>

\* Nothing is asked, or the observation was delivered: the receipt again.
NothingAsked(a) ==
  /\ \/ stage[a] = "reconciling" /\ reply[a] = NoControl
     \/ stage[a] = "observing" /\ reply[a].type = "control"
  /\ Report(a, JobOf(a), receipt[JobOf(a)])
  /\ UNCHANGED <<portalRows, diskVars, directory, effect>>

\* The release needs the second observation, and is saved.
ReceiveRelease(a) ==
  LET c == JobOf(a) w == reply[a] IN
  /\ stage[a] \in {"reconciling", "acknowledging"} /\ w.type = "control"
  /\ w.mode = "released" /\ <<c, w.round>> \in pending
  /\ released' = released \cup {c}
  /\ Rest(a)
  /\ UNCHANGED <<portalRows, journal, receipt, pending, directory, effect>>

\* What cannot be used ends the cycle, as does a refusal.
Unusable(a) ==
  LET w == reply[a] IN
  \/ w = Rejected
  \/ stage[a] = "acknowledging" /\ w = NoControl
  \/ /\ stage[a] = "reconciling" /\ w.mode = "released"
     /\ <<JobOf(a), w.round>> \notin pending
  \/ /\ stage[a] = "reconciling" /\ w.mode \in {"observe", "accept"}
     /\ recon[JobOf(a)].overdue
GiveUp(a) ==
  /\ stage[a] # "idle" /\ Unusable(a)
  /\ Rest(a)
  /\ UNCHANGED <<portalRows, diskVars, directory, effect>>

-----------------------------------------------------------------------------
(* What interrupts a cycle. *)

\* No answer in time; or the service stops, and its worker with it.
Stop(a) ==
  /\ stage[a] # "idle"
  /\ HangUp(a)
  /\ Goto(a, "idle")
  /\ \/ UNCHANGED <<late, unrest>>
     \/ Unread(a) /\ late' = late \cup {<<a, request[a]>>} /\ Disturbed
  /\ UNCHANGED <<row, policy, recon, authorityVars, overdue, diskVars, directory, effect>>

\* An administrator changes the managed object or its OUs.
Drift ==
  /\ Disturbed
  /\ directory' = [directory EXCEPT !.drift = @ + 1]
  /\ UNCHANGED <<row, policy, recon, authorityVars, overdue, linkVars, diskVars, stage, effect>>

=============================================================================
