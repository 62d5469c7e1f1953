------------------------------ MODULE GpoJobs ------------------------------
(***************************************************************************)
(* The Group Policy jobs of a domain as a whole: users, the portal         *)
(* (GpoPortal), links that lose and delay, the Agents with their worker    *)
(* processes and the directory they write to (GpoAgent).                   *)
(***************************************************************************)
EXTENDS GpoAgent

vars == <<portalVars, agentVars>>

Init ==
  /\ row = [j \in Jobs |-> NoRow]
  /\ policy = [revision |-> 1, fenced |-> FALSE, named |-> Exists]
  /\ recon = [c \in Changes |-> NoRecord]
  /\ rule \in [revision : {1}, four : BOOLEAN]
  /\ permitted = Users
  /\ tenantActive = TRUE
  /\ overdue = {}
  /\ unrest = 0
  /\ request = [a \in Agents |-> NoRequest]
  /\ reply = [a \in Agents |-> NoReply]
  /\ late = {}
  /\ journal = [a \in Agents |-> NoJournal]
  /\ receipt = [j \in Jobs |-> NoDoc]
  /\ pending = {}
  /\ released = {}
  /\ stage = [a \in Agents |-> "idle"]
  /\ directory = [writes |-> 0, drift |-> 0]
  /\ effect = [j \in Jobs |-> "none"]

User ==
  \/ \E m \in Users :
       \/ \E i \in Inspections :
            CreatePreflight(m, i) \/ \E c \in Changes : CreateChange(m, i, c)
       \/ \E p \in Pilots : QueuePilot(m, p)
       \/ \E j \in Jobs : Approve(m, j)
       \/ WithdrawIdentity(m)
       \/ MembershipExpires(m)
       \/ \E c \in Changes : RequestReconciliation(m, c) \/ Accept(m, c)
  \/ \E four \in BOOLEAN, holders \in SUBSET Users : ChangeRule(four, holders)
  \/ SuspendTenant
  \/ ReactivateTenant
  \/ \E hour \in BOOLEAN : TimePasses(hour)
  \/ ExpireJobs
  \/ \E c \in Changes : Review(c)

Gateway(a, m, live) ==
  \/ Refuse(a, m, live)
  \/ \E ready \in BOOLEAN :
       \/ Poll(a, m, live, ready)
       \/ Lookup(a, m, live, ready)
       \/ Claim(a, m, live, ready)
       \/ Result(a, m, live, ready)
       \/ ReconciliationPoll(a, m, live, ready)
       \/ ReconciliationResult(a, m, live, ready)
       \/ ReconciliationAck(a, m, live, ready)

Agent(a) ==
  \/ Recover(a)
  \/ BeginCycle(a)
  \/ Reported(a)
  \/ ReceiveOffer(a)
  \/ \E closing \in BOOLEAN : FailPreflight(a, closing)
  \/ Inspect(a)
  \/ ReportAwaiting(a)
  \/ SaveGranted(a)
  \/ ReceiveClaim(a)
  \/ PreflightFails(a)
  \/ SaveIntent(a)
  \/ PrepareOnly(a)
  \/ IntentFails(a)
  \/ Name(a)
  \/ Create(a)
  \/ SaveName(a)
  \/ \E extent \in {"partial", "full"} : Mutate(a, extent)
  \/ Verify(a)
  \/ WorkerLost(a)
  \/ \E sound \in BOOLEAN : Observe(a, sound)
  \/ NothingAsked(a)
  \/ ReceiveRelease(a)
  \/ GiveUp(a)
  \/ Stop(a)

Next ==
  \/ User /\ UNCHANGED agentVars
  \/ Drift
  \/ \E a \in Agents :
       \/ Gateway(a, request[a], TRUE) /\ UNCHANGED agentVars
       \/ Agent(a)
  \/ \E d \in late : Gateway(d[1], d[2], FALSE) /\ UNCHANGED agentVars

Spec == Init /\ [][Next]_vars

-----------------------------------------------------------------------------
(* Safety. *)

Modes == {"none", "approved", "unapproved", "execute", "observe", "reconcile",
          "cancelled", "accept", "released"}
Requests ==
  [mode : {"none", "poll", "lookup", "claim", "result", "reconciliation_poll",
           "reconciliation_result", "reconciliation_ack"},
   job : Jobs \cup {NoJob}, doc : Docs, round : 0 .. Rounds, seen : Views]
Replies ==
  [type : {"none", "job", "claim", "control", "accepted", "rejected"},
   job : Jobs \cup {NoJob}, mode : Modes, round : 0 .. Rounds, seen : Views]
Rows ==
  [status : {"absent"} \cup Active \cup Terminal, claimed : BOOLEAN,
   requester : Users \cup {Nobody}, approver : Users \cup {Nobody},
   rule : Nat, four : BOOLEAN, revision : Nat, named : BOOLEAN,
   expected : Snapshots \cup {NoDoc}, digest : Docs]
Records ==
  [round : 0 .. Rounds, status : {"none", "stale", "accepted"} \cup Pending,
   by : Users \cup {Nobody}, accepter : Users \cup {Nobody}, seen : Views,
   rule : Nat, four : BOOLEAN, revision : Nat, origin : Docs, overdue : BOOLEAN]

TypeOK ==
  /\ row \in [Jobs -> Rows]
  /\ policy \in [revision : Nat, fenced : BOOLEAN, named : BOOLEAN]
  /\ recon \in [Changes -> Records]
  /\ rule \in [revision : Nat, four : BOOLEAN]
  /\ permitted \subseteq Users
  /\ tenantActive \in BOOLEAN
  /\ overdue \subseteq Jobs
  /\ unrest \in 0 .. MaxUnrest
  /\ request \in [Agents -> Requests]
  /\ reply \in [Agents -> Replies]
  /\ late \subseteq Agents \X Requests
  /\ journal \in [Agents -> [job : Jobs \cup {NoJob}, phase : Phases]]
  /\ receipt \in [Jobs -> Docs]
  /\ pending \subseteq Changes \X (0 .. Rounds)
  /\ released \subseteq Changes
  /\ stage \in [Agents -> {"idle", "reporting", "delivering", "polling",
                           "offered", "claiming", "reconciling", "observing",
                           "acknowledging"}
                          \cup Working]
  /\ directory \in Snapshots
  /\ effect \in [Jobs -> {"none", "none needed", "partial", "full"}]

\* What the portal shows as failed or expired has left the directory alone, so
\* that nothing needs to be reconciled, whenever authority ended, a service or
\* a worker stopped, a reply was lost or a request came through late.
FailuresTouchNothing ==
  \A j \in Jobs : row[j].status \in {"failed", "expired"} => effect[j] = "none"

\* The job that has the domain, what was granted, succeeded and was reconciled.
Holder ==
  IF \E j \in Jobs : row[j].status \in Active
  THEN CHOOSE j \in Jobs : row[j].status \in Active ELSE NoJob
GrantedJobs == {j \in Jobs : row[j].claimed}
DoneJobs == {j \in Jobs \ Inspections : row[j].status = "done"}
ReconciledJobs == {j \in Jobs : row[j].status = "reconciled"}

\* Whatever crashes, is lost, late, withdrawn or reconciled: one job at a time
\* has the domain, only a granted job that has it writes, and what a granted
\* job may have written keeps the domain until it is complete or reconciled.
Fence == INSTANCE DomainFence
           WITH holder <- Holder, granted <- GrantedJobs, written <- effect,
                done <- DoneJobs, reconciled <- ReconciledJobs

ImplementsDomainFence == Fence!Spec

\* Execution is granted only under the approval of a person who may approve
\* now, another one than the requester where the present rule says so, and
\* never after a withdrawal in between (ADR-0016, "Re-enabling an account cannot
\* revive them").
ClaimedUnderPresentRule ==
  [][\A j \in Jobs : row'[j].claimed /\ ~row[j].claimed =>
        /\ tenantActive /\ j \notin overdue
        /\ {row[j].requester, row[j].approver} \subseteq permitted
        /\ rule.four => row[j].approver # row[j].requester]_vars

\* A domain is released over an observation that holds all IPMS wrote, and that
\* the Agent made again after another person accepted it, where four eyes are
\* asked for; nothing is written between.
ReleasedAsObserved ==
  [][\A c \in Changes :
       row'[c].status = "reconciled" /\ row[c].status # "reconciled" =>
        LET e == recon[c] IN
        /\ e.seen.sound /\ e.seen.at.writes = directory.writes
        /\ <<c, e.round>> \in pending
        /\ e.accepter \in permitted
        /\ rule.four => e.accepter \notin {row[c].requester, e.by}]_vars

\* ADR-0016, line 102: "Late authenticated receipts can describe already granted
\* work after its requester loses authority."  The report every later cycle
\* begins with is taken.
LateReceiptsTaken ==
  \A a \in Agents :
     stage[a] \in {"reporting", "delivering"} /\ row[JobOf(a)].claimed =>
        reply[a] # Rejected

=============================================================================
