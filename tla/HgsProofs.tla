------------------------------ MODULE HgsProofs ------------------------------
(***************************************************************************)
(* Theorems about HgsProvisioning for any nodes, rounds, users and bounds. *)
(***************************************************************************)
EXTENDS HgsInvariant, FiniteSetTheorems, WellFoundedInduction, TLAPS

-----------------------------------------------------------------------------
(* Facts about the data. *)

Rows ==
  [status : {"absent"} \cup Active \cup Terminal, actor : Managers \cup {Nobody},
   expires : {"half_hour", "day", "past"}, receipt : Docs, preboot : Nat,
   released : BOOLEAN, claimed : BOOLEAN, after : 0 .. Rounds]
Plans ==
  [status : {"none", "failed", "cancelled", "succeeded"} \cup PlanActive,
   requester : Managers \cup {Nobody}, approver : Managers \cup {Nobody},
   expired : BOOLEAN, revoked : BOOLEAN]
States == [plan : Plans, job : [Jobs -> Rows]]
Operations ==
  {"inspect", "install_role", "reboot", "promote", "initialize", "verify"}

\* Steps and inspections are different jobs, each of a node.
LEMMA JobFacts ==
  /\ StepJobs \subseteq Jobs /\ Inspections \subseteq Jobs
  /\ StepJobs \cap Inspections = {}
  /\ \A j \in Jobs : j \in StepJobs \/ j \in Inspections
  /\ \A j \in Jobs : NodeOf(j) \in Nodes /\ Operation(j) \in Operations
  /\ \A j \in StepJobs :
       /\ j[3] \in 1 .. StepsPerNode /\ j = <<NodeOf(j), "step", j[3]>>
       /\ Operation(j) # "inspect"
  /\ \A j \in Inspections :
       /\ j[3] \in 1 .. Rounds /\ j = <<NodeOf(j), "inspect", j[3]>>
       /\ Operation(j) = "inspect"
  /\ \A n \in Nodes :
       /\ \A i \in 1 .. StepsPerNode :
            /\ <<n, "step", i>> \in StepJobs
            /\ NodeOf(<<n, "step", i>>) = n /\ <<n, "step", i>>[3] = i
       /\ \A i \in 1 .. Rounds :
            /\ <<n, "inspect", i>> \in Inspections
            /\ NodeOf(<<n, "inspect", i>>) = n /\ <<n, "inspect", i>>[3] = i
  /\ NoJob \notin Jobs
<1>1. \A j \in StepJobs : j[2] = "step" /\ j[1] \in Nodes /\ j[3] \in 1 .. StepsPerNode
        /\ j = <<j[1], "step", j[3]>>
  BY DEF StepJobs
<1>2. \A j \in Inspections : j[2] = "inspect" /\ j[1] \in Nodes /\ j[3] \in 1 .. Rounds
        /\ j = <<j[1], "inspect", j[3]>>
  BY DEF Inspections
<1>3. StepJobs \cap Inspections = {}
  BY <1>1, <1>2
<1>4. ASSUME NEW j \in StepJobs
      PROVE  /\ Operation(j) = NodeSteps[j[3]]
             /\ NodeSteps[j[3]] \in Operations \ {"inspect"}
  <2>1. Operation(j) = NodeSteps[j[3]]
    BY <1>3 DEF Operation
  <2>2. j[3] \in 1 .. 6
    BY <1>1, HgsAssumption DEF HgsAssumption
  <2>3. NodeSteps[j[3]] \in Operations \ {"inspect"}
    BY <2>2 DEF NodeSteps, Operations
  <2> QED  BY <2>1, <2>3
<1>5. \A j \in Inspections : Operation(j) = "inspect"
  BY DEF Operation
<1>6. \A n \in Nodes : \A i \in 1 .. StepsPerNode :
        <<n, "step", i>> \in StepJobs
  BY DEF StepJobs
<1>7. \A n \in Nodes : \A i \in 1 .. Rounds :
        <<n, "inspect", i>> \in Inspections
  BY DEF Inspections
<1>8. \A j \in StepJobs : Operation(j) # "inspect" /\ Operation(j) \in Operations
  BY <1>4
<1> QED
  BY <1>1, <1>2, <1>3, <1>8, <1>5, <1>6, <1>7, HgsAssumption
     DEF Jobs, NodeOf, HgsAssumption, Operations

\* The steps are in one order; after a step comes the next of its node or the
\* first of the next node.
LEMMA StepsOrdered ==
  ASSUME NEW i \in StepJobs, NEW k \in StepJobs, i # k
  PROVE  i \in Earlier(k) \/ k \in Earlier(i)
<1>1. /\ NodeOf(i) \in Int /\ NodeOf(k) \in Int /\ i[3] \in Int /\ k[3] \in Int
      /\ i = <<NodeOf(i), "step", i[3]>> /\ k = <<NodeOf(k), "step", k[3]>>
  BY JobFacts, HgsAssumption DEF Nodes, HgsAssumption
<1>2. NodeOf(i) # NodeOf(k) \/ i[3] # k[3]
  BY <1>1
<1> QED  BY <1>1, <1>2 DEF Earlier

LEMMA NotEarlier ==
  ASSUME NEW i \in StepJobs, NEW k \in StepJobs, i \in Earlier(k)
  PROVE  i # k /\ k \notin Earlier(i)
<1>1. /\ NodeOf(i) \in Int /\ NodeOf(k) \in Int /\ i[3] \in Int /\ k[3] \in Int
  BY JobFacts, HgsAssumption DEF Nodes, HgsAssumption
<1> QED  BY <1>1 DEF Earlier

LEMMA NextOfNode ==
  ASSUME NEW j \in StepJobs, j[3] < StepsPerNode
  PROVE  LET k == <<NodeOf(j), "step", j[3] + 1>>
         IN  k \in StepJobs /\ Earlier(k) = Earlier(j) \cup {j}
<1> DEFINE k == <<NodeOf(j), "step", j[3] + 1>>
<1>1. /\ NodeOf(j) \in Nodes /\ NodeOf(j) \in Int /\ j[3] \in Int
      /\ j[3] + 1 \in 1 .. StepsPerNode
  BY JobFacts, HgsAssumption DEF Nodes, HgsAssumption
<1>2. k \in StepJobs /\ NodeOf(k) = NodeOf(j) /\ k[3] = j[3] + 1
  BY <1>1, JobFacts
<1>3. ASSUME NEW i \in StepJobs
      PROVE  i \in Earlier(k) <=> i \in Earlier(j) \/ i = j
  <2>1. /\ NodeOf(i) \in Int /\ i[3] \in Int /\ i = <<NodeOf(i), "step", i[3]>>
        /\ j = <<NodeOf(j), "step", j[3]>>
    BY JobFacts, HgsAssumption DEF Nodes, HgsAssumption
  <2> HIDE DEF k
  <2>2. i = j <=> NodeOf(i) = NodeOf(j) /\ i[3] = j[3]
    BY <2>1
  <2> QED  BY <1>1, <1>2, <2>1, <2>2 DEF Earlier
<1>4. Earlier(k) \subseteq StepJobs /\ Earlier(j) \subseteq StepJobs
  BY DEF Earlier
<1> QED  BY <1>2, <1>3, <1>4

LEMMA FirstOfNextNode ==
  ASSUME NEW j \in StepJobs, j[3] >= StepsPerNode, NodeOf(j) < NodeCount
  PROVE  LET k == <<NodeOf(j) + 1, "step", 1>>
         IN  k \in StepJobs /\ Earlier(k) = Earlier(j) \cup {j}
<1> DEFINE k == <<NodeOf(j) + 1, "step", 1>>
<1>1. /\ NodeOf(j) \in Int /\ j[3] \in Int /\ j[3] = StepsPerNode
      /\ NodeOf(j) + 1 \in Nodes /\ 1 \in 1 .. StepsPerNode
  BY JobFacts, HgsAssumption DEF Nodes, HgsAssumption
<1>2. k \in StepJobs /\ NodeOf(k) = NodeOf(j) + 1 /\ k[3] = 1
  BY <1>1, JobFacts
<1>3. ASSUME NEW i \in StepJobs
      PROVE  i \in Earlier(k) <=> i \in Earlier(j) \/ i = j
  <2>1. /\ NodeOf(i) \in Int /\ i[3] \in Int /\ i = <<NodeOf(i), "step", i[3]>>
        /\ j = <<NodeOf(j), "step", j[3]>> /\ i[3] >= 1 /\ i[3] <= StepsPerNode
        /\ StepsPerNode \in Int
    BY JobFacts, HgsAssumption DEF Nodes, HgsAssumption
  <2> HIDE DEF k
  <2>2. i = j <=> NodeOf(i) = NodeOf(j) /\ i[3] = j[3]
    BY <2>1
  <2> QED  BY <1>1, <1>2, <2>1, <2>2 DEF Earlier
<1>4. Earlier(k) \subseteq StepJobs /\ Earlier(j) \subseteq StepJobs
  BY DEF Earlier
<1> QED  BY <1>2, <1>3, <1>4

\* The greatest element of a finite set of numbers.
LEMMA LeastOf ==
  ASSUME NEW T \in SUBSET Nat, T # {}
  PROVE  \E x \in T : \A y \in T : x <= y
<1> DEFINE R == {ss \in Nat \X Nat : ss[1] < ss[2]}
<1>1. IsWellFoundedOn(R, Nat)
  BY NatLessThanWellFounded, Zenon DEF OpToRel
<1> HIDE DEF R
<1>2. PICK x \in T : \A y \in T : <<y, x>> \notin R
  BY <1>1, WFMin
<1>3. \A y \in T : ~(y < x)
  BY <1>2 DEF R
<1> QED  BY <1>3

LEMMA MaxOf ==
  ASSUME NEW N \in Nat, NEW T \in SUBSET (0 .. N), T # {}
  PROVE  Max(T) \in T /\ \A y \in T : Max(T) >= y
<1> DEFINE U == {m \in Nat : N - m \in T}
<1>1. \A y \in T : y \in 0 .. N /\ N - y \in Nat /\ N - (N - y) = y
  OBVIOUS
<1>2. U \in SUBSET Nat /\ U # {}
  BY <1>1
<1>3. PICK u \in U : \A v \in U : u <= v
  BY <1>2, LeastOf
<1>4. ASSUME NEW y \in T PROVE N - u >= y
  <2>1. N - y \in U
    BY <1>1
  <2>2. u <= N - y
    BY <1>3, <2>1
  <2> QED  BY <1>1, <2>2
<1>5. N - u \in T
  BY <1>3
<1> QED  BY <1>4, <1>5 DEF Max

LEMMA MaxOfPair ==
  ASSUME NEW a \in Nat, NEW b \in Nat
  PROVE  Max({a, b}) = IF a >= b THEN a ELSE b
<1> DEFINE m == IF a >= b THEN a ELSE b
<1>1. m \in {a, b} /\ \A y \in {a, b} : m >= y
  OBVIOUS
<1>2. \A x \in {a, b} : (\A y \in {a, b} : x >= y) => x = m
  OBVIOUS
<1> HIDE DEF m
<1>3. Max({a, b}) = m
  BY <1>1, <1>2 DEF Max
<1> QED  BY <1>3 DEF m

-----------------------------------------------------------------------------
(* How rows move. *)

\* The rest of a row; expires and released do not matter here.
Kept(r, q) ==
  /\ q.claimed = r.claimed /\ q.receipt = r.receipt /\ q.preboot = r.preboot
  /\ q.after = r.after

Quiet(j) ==
  LET r == job[j] q == job'[j] IN
  /\ Kept(r, q)
  /\ \/ q.status = r.status
     \/ r.status \in {"queued", "offered"} /\ q.status \in {"offered", "cancelled"}
Created(j) ==
  LET r == job[j] q == job'[j] IN
  /\ r.status = "absent" /\ q.status = "queued"
  /\ ~q.claimed /\ q.receipt = NoDoc /\ q.preboot = 0
Granted(j) ==
  LET r == job[j] q == job'[j] IN
  /\ r.status \in {"queued", "offered"} /\ q.status = "running" /\ q.claimed
  /\ q.receipt = r.receipt /\ q.preboot = r.preboot /\ q.after = r.after
\* A cancelled job takes the report that it was not executed.
Receipted(j) ==
  LET r == job[j] q == job'[j] IN
  /\ r.status = "cancelled" /\ q.status = "cancelled"
  /\ q.receipt = receipts[j] /\ q.claimed = r.claimed /\ q.preboot = r.preboot
  /\ q.after = r.after
Awaited(j) ==
  LET r == job[j] q == job'[j] IN
  /\ r.status \in {"running", "waiting_for_reboot"}
  /\ q.status = "waiting_for_reboot"
  /\ Operation(j) = "reboot" /\ applied[j].times > 0
  /\ q.preboot = IF r.preboot = 0 THEN applied[j].boot ELSE r.preboot
  /\ q.claimed = r.claimed /\ q.after = r.after
Told(j) ==
  LET r == job[j] q == job'[j] doc == receipts[j] IN
  /\ r.status \in Active /\ doc # NoDoc /\ q.receipt = doc
  /\ q.claimed = r.claimed /\ q.preboot = r.preboot /\ q.after = r.after
  /\ q.status \in {"succeeded", "failed", "reconciliation_required"}
  /\ q.status = "failed" <=> doc.status = "failed"
  /\ q.status = "succeeded" => doc.status \in {"succeeded", "reboot_required"}
Resolved(j) ==
  LET r == job[j] q == job'[j] IN
  /\ r.status = "reconciliation_required" /\ q.status = "succeeded" /\ Kept(r, q)
  /\ Proven(j) /\ j \in StepJobs

RowMoves(j) ==
  \/ Quiet(j) \/ Created(j) \/ Granted(j) \/ Receipted(j) \/ Awaited(j)
  \/ Told(j) \/ Resolved(j)

\* What is common to all moves.
Forward(j) ==
  LET r == job[j] q == job'[j] IN
  /\ r.status # "absent" => q.status # "absent" /\ q.after = r.after
  /\ r.claimed => q.claimed
  /\ r.status \in Terminal => q.status \in Terminal
  /\ r.status = "succeeded" => q.status = "succeeded"

LEMMA RowTyped ==
  ASSUME TypeOK, NEW j \in Jobs
  PROVE  job[j] \in Rows /\ receipts[j] \in Docs
BY DEF TypeOK, Rows

LEMMA MovesForward ==
  ASSUME TypeOK, NEW j \in Jobs, RowOK(j), RowMoves(j)
  PROVE  Forward(j)
<1> USE DEF Forward, Kept, Active, Terminal
<1>1. CASE Quiet(j) \/ Created(j)
  BY <1>1 DEF Quiet, Created, RowOK
<1>2. CASE Granted(j) \/ Receipted(j)
  BY <1>2 DEF Granted, Receipted
<1>3. CASE Awaited(j) \/ Told(j) \/ Resolved(j)
  BY <1>3 DEF Awaited, Told, Resolved
<1> QED  BY <1>1, <1>2, <1>3 DEF RowMoves

LEMMA RowsKeep ==
  ASSUME TypeOK, NEW j \in Jobs, RowOK(j), JobOK(j), RowMoves(j),
         UNCHANGED <<receipts, applied>>
  PROVE  RowOK(j)'
<1> USE DEF RowOK, Active, Terminal, Kept
<1>1. CASE Quiet(j)
  BY <1>1 DEF Quiet
<1>2. CASE Created(j)
  BY <1>2 DEF Created
<1>3. CASE Granted(j)
  BY <1>3 DEF Granted
<1>4. CASE Receipted(j)
  BY <1>4 DEF Receipted
<1>5. CASE Awaited(j)
  BY <1>5 DEF Awaited
<1>6. CASE Told(j)
  <2>1. DocOK(j, receipts[j])
    BY <1>6 DEF Told, JobOK, ReceiptOK
  <2>2. /\ receipts[j].status = "failed" \/ job[j].claimed
        /\ j \in Inspections /\ job'[j].status = "succeeded" =>
             receipts[j].status = "succeeded"
    BY <1>6, <2>1, JobFacts DEF DocOK, NotExecuted, Told
  <2> QED  BY <1>6, <2>2 DEF Told
<1>7. CASE Resolved(j)
  BY <1>7, JobFacts DEF Resolved
<1> QED  BY <1>1, <1>2, <1>3, <1>4, <1>5, <1>6, <1>7 DEF RowMoves

\* What is on the machine, for one step.
OnMachine(j) ==
  LET h == host[NodeOf(j)] IN
  /\ Reached(NodeOf(j)) >= Target(Operation(j))
  /\ Operation(j) = "reboot" /\ applied[j].times > 0 => h.boot > applied[j].boot

LEMMA HostTyped ==
  ASSUME TypeOK, NEW n \in Nodes
  PROVE  /\ host[n].boot \in Nat /\ host[n].level \in Levels
         /\ host[n].staged \in Levels /\ host[n].pending \in BOOLEAN
         /\ host[n].shutdown \in BOOLEAN
         /\ Reached(n) \in Levels
         /\ Reached(n) >= host[n].level /\ Reached(n) >= host[n].staged
<1>1. host[n] \in [boot : Nat, pending : BOOLEAN, shutdown : BOOLEAN,
                   level : Levels, staged : Levels]
  BY DEF TypeOK
<1>2. host[n].level \in Nat /\ host[n].staged \in Nat
  BY <1>1 DEF Levels
<1> QED  BY <1>1, <1>2, MaxOfPair DEF Reached, Levels

LEMMA ToldProven ==
  ASSUME TypeOK, NEW j \in StepJobs, JobOK(j), Told(j), job'[j].status = "succeeded"
  PROVE  OnMachine(j)
<1> DEFINE n == NodeOf(j) op == Operation(j) doc == receipts[j]
<1>1. n \in Nodes /\ op \in Operations /\ j \in Jobs
  BY JobFacts
<1>2. DocOK(j, doc)
  BY DEF Told, JobOK, ReceiptOK
<1>3. doc.status \in {"succeeded", "reboot_required"} /\ doc \in Reports
  BY <1>1, RowTyped DEF Told, Docs
<1>4. applied[j].times \in Nat /\ applied[j].boot \in Nat
  BY <1>1 DEF TypeOK
<1>5. CASE doc.status = "reboot_required"
  BY <1>2, <1>5, <1>1 DEF DocOK, OnMachine
<1>6. CASE doc.status = "succeeded"
  <2>1. doc.seen \in Observations /\ Proves(op, doc.seen)
    BY <1>2, <1>3, <1>6 DEF DocOK, Reports, Views
  <2>2. /\ doc.seen.boot <= host[n].boot /\ doc.seen.level <= Reached(n)
        /\ op = "reboot" /\ applied[j].times > 0 => doc.seen.boot > applied[j].boot
    BY <1>2, <1>6, <2>1, HgsAssumption DEF DocOK, HgsAssumption
  <2>3. doc.seen.boot \in Nat /\ doc.seen.level \in 0 .. 3
    BY <2>1 DEF Observations, Levels
  <2>4. Target(op) \in 0 .. 3
    BY <1>1 DEF Target, Operations
  <2>5. Reached(n) >= Target(op)
    <3>1. doc.seen.level >= Target(op) \/ Target(op) = 0
      BY <1>1, <2>1 DEF Proves, Target, Operations
    <3> QED  BY <1>1, <2>2, <2>3, <2>4, <3>1, HostTyped DEF Levels
  <2> QED  BY <1>1, <1>4, <2>2, <2>3, <2>5, HostTyped DEF OnMachine
<1> QED  BY <1>3, <1>5, <1>6

\* The inspection a reconciliation goes by was requested after the step.
LEMMA LatestIs ==
  ASSUME TypeOK, NEW n \in Nodes, NEW after \in 0 .. Rounds,
         NEW i, i = LatestInspection(n, after), i # NoJob
  PROVE  /\ i \in Inspections /\ NodeOf(i) = n /\ i[3] > after
         /\ job[i].status = "succeeded"
<1> DEFINE done == {r \in after + 1 .. Rounds :
                      job[<<n, "inspect", r>>].status = "succeeded"}
<1>1. Rounds \in Nat /\ after \in Nat
  BY HgsAssumption DEF HgsAssumption
<1>2. done # {} /\ i = <<n, "inspect", Max(done)>>
  BY DEF LatestInspection
<1>3. done \in SUBSET (0 .. Rounds)
  BY <1>1
<1>4. Max(done) \in done
  BY <1>1, <1>2, <1>3, MaxOf
<1> QED  BY <1>1, <1>2, <1>4, JobFacts

LEMMA ResolvedProven ==
  ASSUME IInv, NEW j \in StepJobs, Resolved(j)
  PROVE  OnMachine(j)
<1> DEFINE n == NodeOf(j) op == Operation(j)
           i == LatestInspection(n, job[j].after)
<1>1. n \in Nodes /\ op \in Operations /\ j \in Jobs /\ TypeOK
  BY JobFacts DEF IInv
<1>2. job[j] \in Rows
  BY <1>1, RowTyped
<1>3. i \in recent /\ i # NoJob /\ recent \subseteq Inspections
  BY <1>1, JobFacts DEF Resolved, Proven, TypeOK
<1>4. /\ i \in Inspections /\ NodeOf(i) = n /\ i[3] > job[j].after
      /\ job[i].status = "succeeded" /\ i \in Jobs
  BY <1>1, <1>2, <1>3, LatestIs, JobFacts DEF Rows
<1>5. /\ job[i].receipt = receipts[i] /\ receipts[i] # NoDoc
      /\ receipts[i].status = "succeeded"
  BY <1>4 DEF IInv, PortalOK, RowOK, Terminal
<1>6. DocOK(i, receipts[i]) /\ Operation(i) = "inspect"
  BY <1>4, <1>5, JobFacts DEF IInv, JobOK, ReceiptOK
<1> DEFINE seen == receipts[i].seen
<1>7. receipts[i] \in Reports /\ seen \in Observations
  BY <1>1, <1>4, <1>5, <1>6, RowTyped DEF Docs, Reports, Views, DocOK
<1>8. /\ seen.boot <= host[n].boot /\ seen.level <= Reached(n) /\ Fresh(i, receipts[i])
  BY <1>4, <1>6, <1>7, HgsAssumption DEF DocOK, HgsAssumption
<1>9. Later(i, j)
  BY <1>4 DEF Later, Resolved
<1>10. /\ seen.boot >= applied[j].boot
       /\ receipts[j] # NoDoc /\ receipts[j].seen # NoDoc =>
            seen.boot >= receipts[j].seen.boot
  BY <1>8, <1>9 DEF Fresh
<1>11. Proves(op, seen)
  BY <1>5 DEF Resolved, Proven
<1>12. /\ seen.boot \in Nat /\ seen.level \in 0 .. 3
       /\ applied[j].times \in Nat /\ applied[j].boot \in Nat
  BY <1>1, <1>7 DEF Observations, Levels, TypeOK
<1>13. Reached(n) >= Target(op)
  <2>1. seen.level >= Target(op) \/ Target(op) = 0
    BY <1>1, <1>11 DEF Proves, Target, Operations
  <2>2. Target(op) \in 0 .. 3
    BY <1>1 DEF Target, Operations
  <2> QED  BY <1>1, <1>8, <1>12, <2>1, <2>2, HostTyped DEF Levels
<1>14. ASSUME op = "reboot", applied[j].times > 0
       PROVE  host[n].boot > applied[j].boot
  <2>1. /\ job[j].receipt = receipts[j] /\ receipts[j] # NoDoc
        /\ job[j].preboot # 0 => job[j].preboot = applied[j].boot
        /\ DocOK(j, receipts[j])
    BY <1>1 DEF IInv, PortalOK, RowOK, Terminal, Resolved, JobOK, ReceiptOK
  <2>2. receipts[j].seen # NoDoc =>
          receipts[j].seen.boot >= applied[j].boot /\ receipts[j].seen.boot \in Nat
    <3>1. receipts[j] \in Reports
      BY <1>1, <2>1, RowTyped DEF Docs
    <3> QED  BY <1>14, <2>1, <3>1 DEF DocOK, Reports, Views, Observations
  <2>3. CASE job[j].preboot # 0
    <3>1. seen.boot # applied[j].boot
      BY <1>5, <1>14, <2>1, <2>3 DEF Resolved, Proven
    <3> QED  BY <1>1, <1>8, <1>10, <1>12, <3>1, HostTyped
  <2>4. CASE job[j].preboot = 0
    <3>1. receipts[j].seen # NoDoc /\ seen.boot # receipts[j].seen.boot
      BY <1>5, <1>14, <2>1, <2>4 DEF Resolved, Proven
    <3> QED  BY <1>1, <1>8, <1>10, <1>12, <2>1, <2>2, <3>1, HostTyped
  <2> QED  BY <2>3, <2>4
<1> QED  BY <1>13, <1>14 DEF OnMachine

-----------------------------------------------------------------------------
(* The portal keeps the invariant.                                         *)

LEMMA RoundsUsedIs ==
  ASSUME TypeOK, RoundsOK
  PROVE  RoundsUsed \in 0 .. Rounds /\ Rounding(RoundsUsed)
<1>1. PICK r \in 0 .. Rounds : Rounding(r)
  BY DEF RoundsOK
<1>2. 1 \in Nodes /\ Rounds \in Nat
  BY HgsAssumption DEF HgsAssumption, Nodes
<1>3. \A i \in 1 .. Rounds : job[<<1, "inspect", i>>].status # "absent" <=> i <= r
  BY <1>1, <1>2, JobFacts DEF Rounding
<1>4. {i \in 1 .. Rounds : job[<<1, "inspect", i>>].status # "absent"} = 1 .. r
  BY <1>1, <1>2, <1>3
<1>5. Cardinality(1 .. r) = r
  <2>1. Cardinality(1 .. r) = IF 1 > r THEN 0 ELSE r - 1 + 1
    BY <1>1, FS_Interval
  <2> QED  BY <1>1, <2>1
<1> QED  BY <1>1, <1>4, <1>5 DEF RoundsUsed

SameRound ==
  /\ \A j \in Inspections : ~Created(j)
  /\ \A k \in StepJobs : Created(k) => job'[k].after = RoundsUsed
NewRound ==
  /\ RoundsUsed < Rounds /\ Busy(job) = {}
  /\ \A j \in Inspections : Created(j) <=> j[3] = RoundsUsed + 1
  /\ \A k \in StepJobs : ~Created(k)

\* What an action of the portal does to the rows of plan and jobs.
PortalMoves ==
  /\ \A j \in Jobs : RowMoves(j)
  /\ SameRound \/ NewRound
  /\ \A k \in StepJobs : Created(k) =>
       /\ plan'.approver # Nobody
       /\ \A i \in Earlier(k) : job'[i].status = "succeeded"
  /\ plan.approver # Nobody => plan'.approver # Nobody
  /\ PlanOK'

\* What it may answer.
Answered(n) ==
  /\ reply'[n].job # NoJob =>
       /\ NodeOf(reply'[n].job) = n /\ job'[reply'[n].job].status # "absent"
       /\ request[n].mode = "claim" => job'[reply'[n].job].claimed
  /\ request[n].mode = "result" => reply'[n] # Rejected

LEMMA RoundsKeep ==
  ASSUME IInv, PortalMoves
  PROVE  /\ RoundsOK'
         /\ \A i \in Inspections, k \in StepJobs :
              Later(i, k)' => Later(i, k) \/ (Created(i) /\ job[k].status \in Terminal)
<1> DEFINE r == RoundsUsed
<1>1. /\ r \in 0 .. Rounds /\ Rounds \in Nat
      /\ \A j \in Inspections : job[j].status # "absent" <=> j[3] <= r
      /\ \A k \in StepJobs : job[k].status # "absent" => job[k].after <= r
  BY RoundsUsedIs, HgsAssumption DEF IInv, PortalOK, HgsAssumption, Rounding
<1> HIDE DEF r
<1>2. \A j \in Jobs : Forward(j) /\ RowMoves(j)
  BY MovesForward DEF IInv, PortalOK, PortalMoves
<1>3. \A j \in Jobs : job[j].status = "absent" /\ job'[j].status # "absent" => Created(j)
  BY <1>2 DEF RowMoves, Quiet, Granted, Receipted, Awaited, Told, Resolved, Active
<1>4. \A j \in Jobs : Created(j) => job[j].status = "absent" /\ job'[j].status # "absent"
  BY DEF Created
<1>5. \A j \in Inspections : j \in Jobs /\ j[3] \in 1 .. Rounds
  BY JobFacts
<1>6. \A k \in StepJobs : k \in Jobs /\ job[k].after \in 0 .. Rounds
  BY JobFacts, RowTyped DEF IInv, Rows
<1>7. CASE SameRound
  <2>1. \A j \in Inspections : job'[j].status # "absent" <=> j[3] <= r
    BY <1>1, <1>2, <1>3, <1>5, <1>7 DEF SameRound, Forward
  <2>2. \A k \in StepJobs : Created(k) => job'[k].after = r
    BY <1>7 DEF SameRound, r
  <2>3. \A k \in StepJobs : job'[k].status # "absent" => job'[k].after <= r
    BY <1>1, <1>2, <1>3, <1>6, <2>2 DEF Forward
  <2>4. RoundsOK'
    BY <1>1, <2>1, <2>3 DEF RoundsOK, Rounding
  <2>5. ASSUME NEW i \in Inspections, NEW k \in StepJobs, Later(i, k)'
        PROVE  Later(i, k)
    <3>1. /\ NodeOf(i) = NodeOf(k) /\ job'[k].status # "absent"
          /\ i[3] > job'[k].after /\ job'[i].status # "absent"
      BY <2>5 DEF Later
    <3>2. job[i].status # "absent" /\ i[3] <= r
      BY <1>1, <2>1, <3>1
    <3>3. ~Created(k)
      BY <1>1, <1>5, <2>2, <3>1, <3>2
    <3>4. job[k].status # "absent" /\ job'[k].after = job[k].after
      BY <1>2, <1>3, <1>6, <3>1, <3>3 DEF Forward
    <3> QED  BY <3>1, <3>2, <3>4 DEF Later
  <2> QED  BY <2>4, <2>5
<1>8. CASE NewRound
  <2>1. r + 1 \in 0 .. Rounds /\ Busy(job) = {}
    BY <1>1, <1>8 DEF NewRound, r
  <2>2. \A j \in Inspections : Created(j) <=> j[3] = r + 1
    BY <1>8 DEF NewRound, r
  <2>3. \A k \in StepJobs : ~Created(k)
    BY <1>8 DEF NewRound
  <2>4. \A j \in Inspections : job'[j].status # "absent" <=> j[3] <= r + 1
    BY <1>1, <1>2, <1>3, <1>4, <1>5, <2>2 DEF Forward
  <2>5. \A k \in StepJobs : job'[k].status # "absent" =>
          job[k].status # "absent" /\ job'[k].after = job[k].after
    BY <1>2, <1>3, <1>6, <2>3 DEF Forward
  <2>6. RoundsOK'
    <3>1. \A k \in StepJobs : job'[k].status # "absent" => job'[k].after <= r + 1
      BY <1>1, <1>6, <2>5
    <3> QED  BY <2>1, <2>4, <3>1 DEF RoundsOK, Rounding
  <2>7. ASSUME NEW i \in Inspections, NEW k \in StepJobs, Later(i, k)'
        PROVE  Later(i, k) \/ (Created(i) /\ job[k].status \in Terminal)
    <3>1. /\ NodeOf(i) = NodeOf(k) /\ job'[k].status # "absent"
          /\ i[3] > job'[k].after /\ job'[i].status # "absent"
      BY <2>7 DEF Later
    <3>2. job[k].status # "absent" /\ i[3] > job[k].after
      BY <2>5, <3>1
    <3>3. job[k].status \in Terminal
      BY <1>6, <2>1, <3>2, RowTyped DEF Busy, Rows, IInv
    <3>4. job[i].status # "absent" \/ Created(i)
      BY <1>3, <1>5, <3>1
    <3> QED  BY <3>1, <3>2, <3>3, <3>4 DEF Later
  <2> QED  BY <2>6, <2>7
<1> QED  BY <1>7, <1>8 DEF PortalMoves

\* Documents about jobs that exist stay as good as they were.
LEMMA DocsKeep ==
  ASSUME IInv, PortalMoves, UNCHANGED <<receipts, applied, host>>,
         NEW j \in Jobs, NEW doc, DocOK(j, doc)
  PROVE  DocOK(j, doc)'
<1>1. Forward(j)
  BY MovesForward DEF IInv, PortalOK, PortalMoves
<1>2. ~Created(j)
  BY DEF DocOK, Created
<1>3. j \in Inspections /\ Fresh(j, doc) => Fresh(j, doc)'
  BY <1>2, RoundsKeep DEF Fresh
<1> QED  BY <1>1, <1>3 DEF DocOK, Forward, Reached

LEMMA PortalKeeps ==
  ASSUME IInv, PortalMoves, TypeOK', UNCHANGED agentVars,
         request' = request, late' \subseteq late,
         \A n \in Nodes : reply'[n] = reply[n] \/ Answered(n)
  PROVE  IInv'
<1>1. UNCHANGED <<journal, receipts, fence, releases, torn, pc, outcome, host, applied>>
  BY DEF agentVars, diskVars
<1>2. \A j \in Jobs : Forward(j) /\ RowMoves(j)
  BY MovesForward DEF IInv, PortalOK, PortalMoves
<1>3. PortalOK'
  <2>1. \A j \in Jobs : RowOK(j)'
    BY <1>1, <1>2, RowsKeep DEF IInv, PortalOK
  <2>2. OrderOK'
    <3> SUFFICES ASSUME NEW k \in StepJobs, job'[k].status # "absent"
                 PROVE  /\ plan'.approver # Nobody
                        /\ \A i \in Earlier(k) : job'[i].status = "succeeded"
      BY DEF OrderOK, Earlier
    <3>1. CASE Created(k)
      BY <3>1 DEF PortalMoves
    <3>2. CASE ~Created(k)
      <4>1. k \in Jobs /\ Earlier(k) \subseteq Jobs
        BY JobFacts DEF Earlier
      <4>2. job[k].status # "absent"
        BY <1>2, <3>2, <4>1
           DEF RowMoves, Quiet, Granted, Receipted, Awaited, Told, Resolved, Active
      <4>3. plan.approver # Nobody /\ \A i \in Earlier(k) : job[i].status = "succeeded"
        BY <4>2 DEF IInv, PortalOK, OrderOK
      <4> QED  BY <1>2, <4>1, <4>3 DEF PortalMoves, Forward
    <3> QED  BY <3>1, <3>2
  <2>3. LaterOK'
    <3> SUFFICES ASSUME NEW i \in Inspections, NEW k \in StepJobs, Later(i, k)'
                 PROVE  job'[k].status \in Terminal
      BY DEF LaterOK
    <3>1. job[k].status \in Terminal
      BY RoundsKeep DEF IInv, PortalOK, LaterOK
    <3> QED  BY <1>2, <3>1, JobFacts DEF Forward
  <2> QED  BY <2>1, <2>2, <2>3, RoundsKeep DEF PortalOK, PortalMoves
<1>4. \A j \in Jobs : JobOK(j)'
  <2> SUFFICES ASSUME NEW j \in Jobs PROVE JobOK(j)'
    OBVIOUS
  <2>1. ReceiptOK(j)'
    BY <1>1, DocsKeep DEF IInv, JobOK, ReceiptOK
  <2>2. AppliedOK(j)'
    BY <1>1, <1>2 DEF IInv, JobOK, AppliedOK, Forward
  <2> QED  BY <2>1, <2>2 DEF JobOK
<1>5. ASSUME NEW n, NEW m, MessageOK(n, m), m.job \in Jobs \cup {NoJob}
      PROVE  MessageOK(n, m)'
  BY <1>1, <1>2, <1>5 DEF MessageOK, Forward, RebootNotice
<1>6. \A n \in Nodes : NodeOK(n)'
  <2> SUFFICES ASSUME NEW n \in Nodes PROVE NodeOK(n)'
    OBVIOUS
  <2>1. /\ journal[n].job \in Jobs \cup {NoJob} /\ request[n].job \in Jobs \cup {NoJob}
        /\ reply[n].job \in Jobs \cup {NoJob}
    BY DEF IInv, TypeOK, Requests, Replies
  <2>2. HostOK(n)' /\ SoleFence(n)'
    BY <1>1 DEF IInv, NodeOK, HostOK, SoleFence, OpenFence
  <2>3. JournalOK(n)'
    <3>1. journal[n].job = NoJob => journal[n].phase = "none"
      BY DEF IInv, NodeOK, JournalOK
    <3> QED  BY <1>1, <1>2, <2>1, <3>1 DEF IInv, NodeOK, JournalOK, Forward, Reached
  <2>4. WorkerOK(n)'
    <3>1. pc[n] = "finishing" => DocOK(journal[n].job, outcome[n])'
      BY <1>1, <2>1, DocsKeep DEF IInv, NodeOK, WorkerOK
    <3> QED  BY <1>1, <3>1 DEF IInv, NodeOK, WorkerOK, Reached
  <2>5. ExchangeOK(n)'
    <3>1. pc[n] = "claiming" =>
            journal[n].job \in Jobs /\ request[n].mode = "claim"
      BY <2>1 DEF IInv, NodeOK, WorkerOK, ExchangeOK
    <3>2. pc[n] = "claiming" /\ reply'[n].job = journal[n].job =>
            job'[journal[n].job].claimed
      BY <1>2, <3>1, JobFacts DEF IInv, NodeOK, ExchangeOK, Forward, Answered
    <3> QED  BY <1>1, <3>2 DEF IInv, NodeOK, ExchangeOK
  <2>6. ReplyOK(n)'
    BY <1>2, <2>1 DEF IInv, NodeOK, ReplyOK, Forward, Answered
  <2>7. MessageOK(n, request[n])'
    BY <1>5, <2>1 DEF IInv, NodeOK
  <2> QED  BY <2>2, <2>3, <2>4, <2>5, <2>6, <2>7 DEF NodeOK
<1>7. \A k \in StepJobs : FenceOK(k)'
  BY <1>1 DEF IInv, FenceOK, Uncertainty
<1>8. \A d \in late' : MessageOK(d[1], d[2])'
  BY <1>5 DEF IInv, TypeOK, Requests
<1>9. ProvenOnTheMachine'
  <2> SUFFICES ASSUME NEW j \in StepJobs, job'[j].status = "succeeded"
               PROVE  OnMachine(j)
    BY <1>1 DEF ProvenOnTheMachine, OnMachine, Reached
  <2>1. j \in Jobs /\ RowMoves(j)
    BY <1>2, JobFacts
  <2>2. CASE job[j].status = "succeeded"
    BY <2>2 DEF IInv, ProvenOnTheMachine, OnMachine, Reached
  <2>3. CASE Told(j)
    BY <2>1, <2>3, ToldProven DEF IInv
  <2>4. CASE Resolved(j)
    BY <2>4, ResolvedProven
  <2> QED
    BY <2>1, <2>2, <2>3, <2>4
       DEF RowMoves, Quiet, Created, Granted, Receipted, Awaited
<1>10. NoReportRefused'
  <2> SUFFICES ASSUME NEW n \in Nodes, pc[n] \in {"reporting", "delivering"}
               PROVE  reply'[n] # Rejected
    BY <1>1 DEF NoReportRefused
  <2>1. request[n].mode = "result" /\ reply[n] # Rejected
    BY DEF IInv, NodeOK, ExchangeOK, NoReportRefused
  <2> QED  BY <2>1 DEF Answered
<1> QED
  BY <1>3, <1>4, <1>6, <1>7, <1>8, <1>9, <1>10 DEF IInv

-----------------------------------------------------------------------------
(* The requests of managers and the messages of Agents are such moves.     *)

LEMMA StateTyped ==
  ASSUME TypeOK
  PROVE  /\ State \in States /\ State.plan = plan /\ State.job = job
         /\ plan \in Plans /\ job \in [Jobs -> Rows]
BY DEF TypeOK, State, States, Plans, Rows

\* Rows and plan of the types they had leave the rest to the action.
LEMMA PortalTyped ==
  ASSUME TypeOK, plan' \in Plans, job' \in [Jobs -> Rows],
         clean' \subseteq Nodes, recent' \subseteq Inspections,
         tenantActive' \in BOOLEAN, permitted' \subseteq Managers,
         unrest' \in 0 .. MaxUnrest, reply' \in [Nodes -> Replies],
         request' = request, late' \subseteq late, UNCHANGED agentVars
  PROVE  TypeOK'
BY DEF TypeOK, Plans, Rows, agentVars, diskVars

\* No row is created.
LEMMA OldRowsMove ==
  ASSUME IInv, \A j \in Jobs : RowMoves(j) /\ ~Created(j),
         plan.approver # Nobody => plan'.approver # Nobody, PlanOK'
  PROVE  PortalMoves
BY JobFacts DEF PortalMoves, SameRound

LEMMA RowsStay ==
  ASSUME NEW j, job'[j].status = job[j].status, Kept(job[j], job'[j])
  PROVE  RowMoves(j) /\ ~Created(j)
BY DEF RowMoves, Quiet, Created

LEMMA FenceIs ==
  ASSUME NEW s \in States
  PROVE  LET t == Fence(s) IN
         /\ t \in States
         /\ t.plan.approver = s.plan.approver /\ t.plan.revoked
         /\ \A j \in Jobs :
              IF s.job[j].status \in {"queued", "offered"}
              THEN t.job[j] = [s.job[j] EXCEPT !.status = "cancelled"]
              ELSE t.job[j] = s.job[j]
         /\ \A j \in Jobs : s.job[j].status \in {"running", "waiting_for_reboot"} =>
              t.plan.status = "reconciliation_required"
<1> DEFINE t == Fence(s)
<1>1. s.plan \in Plans /\ s.job \in [Jobs -> Rows] /\ \A j \in Jobs : s.job[j] \in Rows
  BY DEF States
<1>2. t.plan \in Plans /\ t.plan.approver = s.plan.approver /\ t.plan.revoked
  BY <1>1 DEF Fence, Plans, PlanActive
<1>3. t.job = Cancelled(s.job)
  BY DEF Fence
<1>4. \A j \in Jobs :
        IF s.job[j].status \in {"queued", "offered"}
        THEN t.job[j] = [s.job[j] EXCEPT !.status = "cancelled"]
        ELSE t.job[j] = s.job[j]
  BY <1>3 DEF Cancelled
<1>5. \A j \in Jobs : [s.job[j] EXCEPT !.status = "cancelled"] \in Rows
  BY <1>1 DEF Rows, Terminal
<1>6. t.job \in [Jobs -> Rows]
  BY <1>1, <1>3, <1>5 DEF Cancelled
<1>7. t \in States
  BY <1>2, <1>6 DEF States, Fence
<1>8. \A j \in Jobs : s.job[j].status \in {"running", "waiting_for_reboot"} =>
        t.plan.status = "reconciliation_required"
  BY <1>1 DEF Fence, Plans
<1> QED  BY <1>2, <1>4, <1>7, <1>8

LEMMA FenceMoves ==
  ASSUME IInv, Become(Fence(State))
  PROVE  PortalMoves /\ plan' \in Plans /\ job' \in [Jobs -> Rows]
<1>1. /\ plan' = Fence(State).plan /\ job' = Fence(State).job
      /\ State \in States /\ State.plan = plan /\ State.job = job
  BY StateTyped DEF Become, IInv
<1>2. /\ plan' \in Plans /\ job' \in [Jobs -> Rows]
      /\ plan'.approver = plan.approver
      /\ \A j \in Jobs :
           IF job[j].status \in {"queued", "offered"}
           THEN job'[j] = [job[j] EXCEPT !.status = "cancelled"]
           ELSE job'[j] = job[j]
      /\ \A j \in Jobs : job[j].status \in {"running", "waiting_for_reboot"} =>
           plan'.status = "reconciliation_required"
  BY <1>1, FenceIs DEF States
<1>3. \A j \in Jobs : job[j] \in Rows
  BY RowTyped DEF IInv
<1>4. \A j \in Jobs : Quiet(j)
  BY <1>2, <1>3 DEF Quiet, Kept, Rows
<1>5. \A j \in Jobs : ~Created(j)
  BY <1>2, <1>3 DEF Created, Rows
<1>6. PlanOK'
  BY <1>2, <1>3, JobFacts DEF PlanOK, Rows
<1> QED  BY <1>2, <1>4, <1>5, <1>6, OldRowsMove DEF RowMoves

\* The request of a manager answers nothing.
LEMMA RequestKeeps ==
  ASSUME IInv, PortalMoves, TypeOK', UNCHANGED linkVars, UNCHANGED agentVars
  PROVE  IInv'
BY PortalKeeps DEF linkVars

LEMMA CreatePlanKeeps ==
  ASSUME IInv, NEW m \in Managers, CreatePlan(m), UNCHANGED agentVars
  PROVE  PortalMoves /\ IInv'
<1>1. /\ TypeOK /\ plan \in Plans /\ plan.status = "none" /\ UNCHANGED job
      /\ plan' = [plan EXCEPT !.status = "draft", !.requester = m]
  BY StateTyped DEF IInv, CreatePlan
<1>2. plan' \in Plans /\ plan'.approver = plan.approver
  BY <1>1 DEF Plans, PlanActive
<1>3. TypeOK'
  BY <1>1, <1>2, StateTyped DEF CreatePlan, TypeOK, authorityVars, linkVars, agentVars,
     diskVars, Plans
<1>4. PlanOK'
  BY <1>1 DEF IInv, PortalOK, PlanOK
<1>5. PortalMoves
  BY <1>1, <1>2, <1>4, RowsStay, OldRowsMove DEF Kept
<1> QED  BY <1>3, <1>5, RequestKeeps DEF CreatePlan

LEMMA CancelKeeps ==
  ASSUME IInv, NEW m \in Managers, Cancel(m), UNCHANGED agentVars
  PROVE  PortalMoves /\ IInv'
<1>1. PortalMoves /\ plan' \in Plans /\ job' \in [Jobs -> Rows]
  BY FenceMoves DEF Cancel
<1>2. TypeOK'
  BY <1>1, PortalTyped DEF IInv, TypeOK, Cancel, authorityVars, linkVars
<1> QED  BY <1>1, <1>2, RequestKeeps DEF Cancel

LEMMA FenceOrStay ==
  ASSUME IInv, Become(Fence(State)) \/ UNCHANGED <<plan, job>>
  PROVE  PortalMoves /\ plan' \in Plans /\ job' \in [Jobs -> Rows]
<1>1. CASE UNCHANGED <<plan, job>>
  <2>1. PlanOK'
    BY <1>1 DEF IInv, PortalOK, PlanOK
  <2> QED  BY <1>1, <2>1, RowsStay, OldRowsMove, StateTyped DEF Kept, IInv
<1> QED  BY <1>1, FenceMoves

LEMMA UpdateMembershipKeeps ==
  ASSUME IInv, NEW m \in Managers, UpdateMembership(m), UNCHANGED agentVars
  PROVE  PortalMoves /\ IInv'
<1>1. PortalMoves /\ plan' \in Plans /\ job' \in [Jobs -> Rows]
  BY FenceOrStay DEF UpdateMembership
<1>2. unrest' \in 0 .. MaxUnrest /\ permitted' \subseteq Managers
  BY HgsAssumption DEF IInv, TypeOK, UpdateMembership, Disturbed, HgsAssumption
<1>3. TypeOK'
  BY <1>1, <1>2, PortalTyped DEF IInv, TypeOK, UpdateMembership, linkVars
<1> QED  BY <1>1, <1>3, RequestKeeps DEF UpdateMembership

LEMMA MembershipExpiresKeeps ==
  ASSUME IInv, NEW m \in Managers, MembershipExpires(m), UNCHANGED agentVars
  PROVE  PortalMoves /\ IInv'
<1>1. PortalMoves /\ plan' \in Plans /\ job' \in [Jobs -> Rows]
  BY FenceOrStay DEF MembershipExpires
<1>2. unrest' \in 0 .. MaxUnrest /\ permitted' \subseteq Managers
  BY HgsAssumption DEF IInv, TypeOK, MembershipExpires, Disturbed, HgsAssumption
<1>3. TypeOK'
  BY <1>1, <1>2, PortalTyped DEF IInv, TypeOK, MembershipExpires, linkVars
<1> QED  BY <1>1, <1>3, RequestKeeps DEF MembershipExpires

LEMMA SuspendTenantKeeps ==
  ASSUME IInv, SuspendTenant, UNCHANGED agentVars
  PROVE  PortalMoves /\ IInv'
<1>1. PortalMoves /\ plan' \in Plans /\ job' \in [Jobs -> Rows]
  BY FenceOrStay DEF SuspendTenant
<1>2. unrest' \in 0 .. MaxUnrest
  BY HgsAssumption DEF IInv, TypeOK, SuspendTenant, Disturbed, HgsAssumption
<1>3. TypeOK'
  BY <1>1, <1>2, PortalTyped DEF IInv, TypeOK, SuspendTenant, linkVars
<1> QED  BY <1>1, <1>3, RequestKeeps DEF SuspendTenant

LEMMA ReactivateTenantKeeps ==
  ASSUME IInv, ReactivateTenant, UNCHANGED agentVars
  PROVE  PortalMoves /\ IInv'
<1>1. PortalMoves /\ plan' \in Plans /\ job' \in [Jobs -> Rows]
  BY FenceOrStay DEF ReactivateTenant
<1>2. TypeOK'
  BY <1>1, PortalTyped DEF IInv, TypeOK, ReactivateTenant, linkVars
<1> QED  BY <1>1, <1>2, RequestKeeps DEF ReactivateTenant

LEMMA TimePassesKeeps ==
  ASSUME IInv, NEW age \in {"half_hour", "day"}, TimePasses(age), UNCHANGED agentVars
  PROVE  PortalMoves /\ IInv'
<1>1. /\ plan \in Plans /\ job \in [Jobs -> Rows]
      /\ \A j \in Jobs : job[j] \in Rows /\ [job[j] EXCEPT !.expires = "past"] \in Rows
  BY StateTyped DEF IInv, Rows
<1>2. /\ plan' \in Plans /\ plan'.status = plan.status /\ plan'.approver = plan.approver
  BY <1>1 DEF TimePasses, Plans
<1>3. /\ job' \in [Jobs -> Rows]
      /\ \A j \in Jobs : job'[j] \in {job[j], [job[j] EXCEPT !.expires = "past"]}
  BY <1>1 DEF TimePasses
<1>4. \A j \in Jobs : job'[j].status = job[j].status /\ Kept(job[j], job'[j])
  BY <1>1, <1>3 DEF Kept, Rows
<1>5. PlanOK'
  BY <1>2, <1>4, JobFacts DEF IInv, PortalOK, PlanOK
<1>6. PortalMoves
  BY <1>2, <1>4, <1>5, RowsStay, OldRowsMove
<1>7. unrest' \in 0 .. MaxUnrest /\ recent' = {}
  BY HgsAssumption DEF IInv, TypeOK, TimePasses, Disturbed, HgsAssumption
<1>8. TypeOK'
  BY <1>2, <1>3, <1>7, PortalTyped DEF IInv, TypeOK, TimePasses, linkVars
<1> QED  BY <1>6, <1>8, RequestKeeps DEF TimePasses

LEMMA RequestInspectionKeeps ==
  ASSUME IInv, NEW m \in Managers, NEW reconciliation \in BOOLEAN,
         RequestInspection(m, reconciliation), UNCHANGED agentVars
  PROVE  PortalMoves /\ IInv'
<1> DEFINE i == RoundsUsed + 1
           q == [NoRow EXCEPT !.status = "queued", !.actor = m, !.expires =
                   IF reconciliation THEN "half_hour" ELSE "day"]
<1>1. /\ RoundsUsed \in 0 .. Rounds /\ Rounds \in Nat /\ RoundsUsed < Rounds
      /\ \A j \in Inspections : job[j].status # "absent" <=> j[3] <= RoundsUsed
      /\ TypeOK
  BY RoundsUsedIs, HgsAssumption
     DEF IInv, PortalOK, HgsAssumption, Rounding, RequestInspection
<1>2. /\ plan \in Plans /\ job \in [Jobs -> Rows] /\ q \in Rows
      /\ q.status = "queued" /\ ~q.claimed /\ q.receipt = NoDoc /\ q.preboot = 0
  <2>1. NoRow \in Rows /\ NoRow.receipt = NoDoc /\ NoRow.preboot = 0 /\ ~NoRow.claimed
    BY <1>1 DEF Rows, NoRow, Docs
  <2>2. q \in Rows /\ q.status = "queued" /\ q.receipt = NoRow.receipt
        /\ q.preboot = NoRow.preboot /\ q.claimed = NoRow.claimed
    BY <2>1 DEF Rows, Active
  <2> QED  BY <1>1, <2>1, <2>2, StateTyped
<1>3. job' = [j \in Jobs |-> IF j \in Inspections /\ j[3] = i THEN q ELSE job[j]]
  BY DEF RequestInspection
<1> HIDE DEF q
<1>4. job' \in [Jobs -> Rows]
  BY <1>2, <1>3
<1>5. ASSUME NEW j \in Inspections
      PROVE  (Created(j) <=> j[3] = i) /\ (~Created(j) => job'[j] = job[j])
  <2>1. j \in Jobs /\ j[3] \in 1 .. Rounds
    BY JobFacts
  <2>2. CASE j[3] = i
    BY <1>1, <1>2, <1>3, <2>1, <2>2 DEF Created
  <2>3. CASE j[3] # i
    BY <1>3, <2>1, <2>3 DEF Created
  <2> QED  BY <2>2, <2>3
<1>6. \A k \in StepJobs : job'[k] = job[k] /\ ~Created(k)
  BY <1>3, JobFacts DEF Created
<1>7. \A j \in Jobs : RowMoves(j)
  BY <1>5, <1>6, RowsStay, JobFacts DEF RowMoves, Kept
<1>8. NewRound
  BY <1>1, <1>5, <1>6 DEF NewRound, RequestInspection
<1>9. plan' \in Plans /\ plan'.approver = plan.approver
  BY <1>2 DEF RequestInspection, Plans, PlanActive
<1>10. PlanOK'
  BY <1>6, JobFacts DEF PlanOK, RequestInspection, Busy, Active
<1>11. PortalMoves
  BY <1>6, <1>7, <1>8, <1>9, <1>10 DEF PortalMoves
<1>12. unrest' \in 0 .. MaxUnrest
  BY HgsAssumption DEF IInv, TypeOK, RequestInspection, Disturbed, HgsAssumption
<1>13. TypeOK'
  BY <1>1, <1>4, <1>9, <1>12, PortalTyped DEF TypeOK, RequestInspection, linkVars
<1> QED  BY <1>11, <1>13, RequestKeeps DEF RequestInspection

\* The plan moves on to the step k.
LEMMA WithStepIs ==
  ASSUME IInv, NEW s \in States, NEW n \in Nodes, NEW i \in 1 .. StepsPerNode
  PROVE  LET t == WithStep(s, n, i) k == <<n, "step", i>> IN
         /\ t \in States /\ t.plan.status = "running"
         /\ t.plan.approver = s.plan.approver
         /\ \A j \in Jobs \ {k} : t.job[j] = s.job[j]
         /\ t.job[k].status = "queued" /\ ~t.job[k].claimed
         /\ t.job[k].receipt = NoDoc /\ t.job[k].preboot = 0
         /\ t.job[k].after = RoundsUsed
<1> DEFINE k == <<n, "step", i>>
           q == [NoRow EXCEPT !.status = "queued", !.actor = s.plan.approver,
                   !.expires = IF s.plan.expired THEN "past" ELSE "day",
                   !.after = RoundsUsed]
           t == WithStep(s, n, i)
<1>1. k \in StepJobs /\ k \in Jobs
  BY JobFacts
<1>2. RoundsUsed \in 0 .. Rounds
  BY RoundsUsedIs DEF IInv, PortalOK
<1>3. s.plan \in Plans /\ s.job \in [Jobs -> Rows] /\ s = [plan |-> s.plan, job |-> s.job]
  BY DEF States
<1>4. /\ q \in Rows /\ q.status = "queued" /\ ~q.claimed /\ q.receipt = NoDoc
      /\ q.preboot = 0 /\ q.after = RoundsUsed
  BY <1>2, <1>3 DEF Rows, NoRow, Active, Docs, Plans
<1> HIDE DEF q
<1>5. t = [plan |-> [s.plan EXCEPT !.status = "running"], job |-> [s.job EXCEPT ![k] = q]]
  <2>1. WithJob(s, k, s.plan.approver, IF s.plan.expired THEN "past" ELSE "day")
          = [plan |-> s.plan, job |-> [s.job EXCEPT ![k] = q]]
    BY <1>3 DEF WithJob, q
  <2> QED  BY <2>1 DEF WithStep, WithStatus
<1>6. [s.plan EXCEPT !.status = "running"] \in Plans
  BY <1>3 DEF Plans, PlanActive
<1>7. [s.job EXCEPT ![k] = q] \in [Jobs -> Rows]
  BY <1>1, <1>3, <1>4
<1> HIDE DEF k, t
<1>8. t \in States
  BY <1>5, <1>6, <1>7 DEF States
<1>9. t.job[k] = q /\ \A j \in Jobs \ {k} : t.job[j] = s.job[j]
  BY <1>1, <1>3, <1>5
<1>10. t.plan.status = "running" /\ t.plan.approver = s.plan.approver
  BY <1>3, <1>5 DEF Plans
<1> QED  BY <1>4, <1>8, <1>9, <1>10 DEF k, t

LEMMA AuthorizeKeeps ==
  ASSUME IInv, NEW m \in Managers, Authorize(m), UNCHANGED agentVars
  PROVE  PortalMoves /\ IInv'
<1> DEFINE s == [State EXCEPT !.plan.approver = m]
           t == WithStep(s, 1, 1)
           k == <<1, "step", 1>>
<1>1. /\ 1 \in Nodes /\ 1 \in 1 .. StepsPerNode /\ k \in StepJobs /\ k \in Jobs
      /\ m # Nobody /\ NodeOf(k) = 1 /\ k[3] = 1
  BY HgsAssumption, JobFacts DEF HgsAssumption, Nodes
<1>2. /\ TypeOK /\ plan \in Plans /\ job \in [Jobs -> Rows]
      /\ plan.approver = Nobody
  BY StateTyped DEF IInv, Authorize
<1>3. s = [plan |-> [plan EXCEPT !.approver = m], job |-> job]
  BY DEF State
<1>4. s \in States /\ s.plan.approver = m /\ s.job = job
  <2>1. [plan EXCEPT !.approver = m] \in Plans
    BY <1>2 DEF Plans
  <2>2. [plan EXCEPT !.approver = m].approver = m
    BY <1>2 DEF Plans
  <2> QED  BY <1>2, <1>3, <2>1, <2>2 DEF States
<1>5. plan' = t.plan /\ job' = t.job
  BY DEF Authorize, Become
<1> HIDE DEF s
<1>6. /\ t \in States /\ t.plan.status = "running" /\ t.plan.approver = m
      /\ \A j \in Jobs \ {k} : t.job[j] = job[j]
      /\ t.job[k].status = "queued" /\ ~t.job[k].claimed
      /\ t.job[k].receipt = NoDoc /\ t.job[k].preboot = 0
      /\ t.job[k].after = RoundsUsed
  BY <1>1, <1>4, WithStepIs
<1> HIDE DEF t
<1>7. plan' \in Plans /\ job' \in [Jobs -> Rows]
  BY <1>5, <1>6 DEF States
<1>8. \A j \in StepJobs : job[j].status = "absent"
  BY <1>2 DEF IInv, PortalOK, OrderOK
<1>9. Created(k) /\ \A j \in Jobs \ {k} : RowMoves(j) /\ ~Created(j)
  BY <1>1, <1>5, <1>6, <1>8, RowsStay DEF Created, Kept
<1>10. Earlier(k) = {}
  BY <1>1, JobFacts, HgsAssumption DEF Earlier, Nodes, HgsAssumption
<1>11. PlanOK'
  BY <1>5, <1>6 DEF PlanOK
<1>12. PortalMoves
  <2>1. \A j \in Jobs : RowMoves(j)
    BY <1>9 DEF RowMoves
  <2>2. SameRound
    BY <1>1, <1>5, <1>6, <1>9, JobFacts DEF SameRound
  <2>3. \A j \in StepJobs : Created(j) => j = k
    BY <1>9, JobFacts
  <2> QED  BY <1>1, <1>5, <1>6, <1>10, <1>11, <2>1, <2>2, <2>3 DEF PortalMoves
<1>13. TypeOK'
  BY <1>2, <1>7, PortalTyped DEF TypeOK, Authorize, authorityVars, linkVars
<1> QED  BY <1>12, <1>13, RequestKeeps DEF Authorize

\* The steps that come before or after a step that is under way are proven or
\* absent.
LEMMA OneOpen ==
  ASSUME IInv, NEW j \in StepJobs, job[j].status \notin {"absent", "succeeded"},
         NEW i \in StepJobs, i # j
  PROVE  job[i].status = IF i \in Earlier(j) THEN "succeeded" ELSE "absent"
BY StepsOrdered, NotEarlier DEF IInv, PortalOK, OrderOK

\* The plan moves on from a step that is proven now.
LEMMA Advances ==
  ASSUME IInv, NEW j \in StepJobs, job[j].status \notin {"absent", "succeeded"},
         NEW s \in States, s.job[j].status = "succeeded",
         \A i \in Jobs \ {j} : s.job[i] = job[i],
         s.plan.approver # Nobody, Become(Advance(s, j))
  PROVE  /\ plan' \in Plans /\ job' \in [Jobs -> Rows]
         /\ plan'.approver # Nobody
         /\ job'[j] = s.job[j]
         /\ \A i \in Jobs \ {j} : RowMoves(i)
         /\ \A i \in Inspections : ~Created(i)
         /\ \A k \in StepJobs : Created(k) =>
              /\ job'[k].after = RoundsUsed
              /\ \A i \in Earlier(k) : job'[i].status = "succeeded"
         /\ PlanOK'
<1>1. /\ plan' = Advance(s, j).plan /\ job' = Advance(s, j).job
      /\ j \in Jobs /\ NodeOf(j) \in Nodes /\ j[3] \in 1 .. StepsPerNode
      /\ s.plan \in Plans /\ s.job \in [Jobs -> Rows]
      /\ NodeOf(j) \in Int /\ NodeCount \in Nat /\ StepsPerNode \in Nat
  BY JobFacts, HgsAssumption DEF Become, States, Nodes, HgsAssumption
<1>2. ASSUME NEW n \in Nodes, NEW i \in 1 .. StepsPerNode,
             Advance(s, j) = WithStep(s, n, i),
             Earlier(<<n, "step", i>>) = Earlier(j) \cup {j}
      PROVE  /\ plan' \in Plans /\ job' \in [Jobs -> Rows]
             /\ plan'.approver # Nobody
             /\ job'[j] = s.job[j]
             /\ \A x \in Jobs \ {j} : RowMoves(x)
             /\ \A x \in Inspections : ~Created(x)
             /\ \A x \in StepJobs : Created(x) =>
                  /\ job'[x].after = RoundsUsed
                  /\ \A y \in Earlier(x) : job'[y].status = "succeeded"
             /\ PlanOK'
    <2> DEFINE k == <<n, "step", i>>
               t == WithStep(s, n, i)
    <2>1. /\ t \in States /\ t.plan.status = "running"
          /\ t.plan.approver = s.plan.approver
          /\ \A x \in Jobs \ {k} : t.job[x] = s.job[x]
          /\ t.job[k].status = "queued" /\ ~t.job[k].claimed
          /\ t.job[k].receipt = NoDoc /\ t.job[k].preboot = 0
          /\ t.job[k].after = RoundsUsed
      BY WithStepIs
    <2>2. k \in StepJobs /\ k \in Jobs /\ Earlier(k) = Earlier(j) \cup {j}
      BY <1>2, JobFacts
    <2>3. plan' = t.plan /\ job' = t.job
      BY <1>1, <1>2
    <2> HIDE DEF k, t
    <2>4. k # j /\ k \notin Earlier(j)
      BY <2>2, NotEarlier
    <2>5. job[k].status = "absent"
      BY <2>2, <2>4, OneOpen
    <2>6. Created(k) /\ job'[k].after = RoundsUsed
      BY <2>1, <2>3, <2>5 DEF Created
    <2>7. job'[j] = s.job[j] /\ \A x \in Jobs \ {j, k} : job'[x] = job[x]
      BY <1>1, <2>1, <2>3, <2>4
    <2>8. \A x \in Jobs \ {j, k} : RowMoves(x) /\ ~Created(x)
      BY <2>7, RowsStay DEF Kept
    <2>9. ~Created(j)
      BY DEF Created
    <2>10. \A y \in Earlier(k) : job'[y].status = "succeeded"
      <3>1. \A y \in Earlier(j) : job[y].status = "succeeded"
        BY OneOpen, NotEarlier DEF Earlier
      <3>2. \A y \in Earlier(j) : y \in Jobs /\ y # j /\ y # k
        BY <2>4, NotEarlier, JobFacts DEF Earlier
      <3> QED  BY <2>2, <2>7, <3>1, <3>2
    <2>11. PlanOK'
      BY <2>1, <2>3 DEF PlanOK
    <2>12. plan' \in Plans /\ job' \in [Jobs -> Rows] /\ plan'.approver # Nobody
      BY <2>1, <2>3 DEF States
    <2>13. \A x \in Jobs \ {j} : RowMoves(x)
      BY <2>6, <2>8 DEF RowMoves
    <2>14. \A x \in Jobs : Created(x) => x = k
      BY <2>8, <2>9
    <2> QED
      BY <2>2, <2>6, <2>7, <2>10, <2>11, <2>12, <2>13, <2>14, JobFacts
<1>3. CASE j[3] < StepsPerNode
  <2>1. Advance(s, j) = WithStep(s, NodeOf(j), j[3] + 1)
    BY <1>3 DEF Advance
  <2>2. j[3] + 1 \in 1 .. StepsPerNode
    BY <1>1, <1>3
  <2> QED  BY <1>1, <1>2, <1>3, <2>1, <2>2, NextOfNode
<1>4. CASE j[3] >= StepsPerNode /\ NodeOf(j) < NodeCount
  <2>1. Advance(s, j) = WithStep(s, NodeOf(j) + 1, 1)
    BY <1>1, <1>4 DEF Advance
  <2>2. NodeOf(j) + 1 \in Nodes /\ 1 \in 1 .. StepsPerNode
    BY <1>1, <1>4 DEF Nodes
  <2> QED  BY <1>2, <1>4, <2>1, <2>2, FirstOfNextNode
<1>5. CASE j[3] >= StepsPerNode /\ ~(NodeOf(j) < NodeCount)
  <2>1. Advance(s, j) = WithStatus(s, "succeeded")
    BY <1>1, <1>5 DEF Advance
  <2>2. plan' = [s.plan EXCEPT !.status = "succeeded"] /\ job' = s.job
    BY <1>1, <2>1 DEF WithStatus, States
  <2>3. plan' \in Plans /\ job' \in [Jobs -> Rows] /\ plan'.approver # Nobody
    BY <1>1, <2>2 DEF Plans
  <2>4. \A x \in Jobs \ {j} : job'[x] = job[x] /\ RowMoves(x) /\ ~Created(x)
    BY <2>2, RowsStay DEF Kept
  <2>5. ~Created(j)
    BY DEF Created
  <2>6. PlanOK'
    <3>1. \A x \in StepJobs : job'[x].status \notin {"running", "waiting_for_reboot"}
      BY <2>2, <2>4, OneOpen, JobFacts
    <3> QED  BY <3>1 DEF PlanOK
  <2> QED  BY <2>2, <2>3, <2>4, <2>5, <2>6, JobFacts
<1> QED  BY <1>1, <1>3, <1>4, <1>5

LEMMA ResolveKeeps ==
  ASSUME IInv, NEW m \in Managers, Resolve(m), UNCHANGED agentVars
  PROVE  PortalMoves /\ IInv'
<1>1. PICK j \in Unresolved(job) \ Inspections :
        /\ Proven(j)
        /\ LET s == [plan |-> [plan EXCEPT !.approver = m, !.expired = FALSE,
                                           !.revoked = FALSE, !.status = "running"],
                     job |-> [job EXCEPT ![j].status = "succeeded",
                                         ![j].released = TRUE]]
           IN  Become(AfterResult(s, j, clean))
  BY DEF Resolve
<1> DEFINE p == [plan EXCEPT !.approver = m, !.expired = FALSE,
                             !.revoked = FALSE, !.status = "running"]
           rows == [job EXCEPT ![j].status = "succeeded", ![j].released = TRUE]
           s == [plan |-> p, job |-> rows]
<1>2. /\ TypeOK /\ plan \in Plans /\ job \in [Jobs -> Rows] /\ m # Nobody
      /\ j \in Jobs /\ j \in StepJobs /\ j \notin Inspections
      /\ job[j].status = "reconciliation_required" /\ job[j] \in Rows
  BY StateTyped, JobFacts, HgsAssumption DEF IInv, Unresolved, HgsAssumption
<1>3. /\ p \in Plans /\ p.approver # Nobody /\ p.revoked = FALSE /\ p.status = "running"
  BY <1>2 DEF Plans, PlanActive
<1>4. /\ rows \in [Jobs -> Rows] /\ rows[j].status = "succeeded" /\ Kept(job[j], rows[j])
      /\ \A i \in Jobs \ {j} : rows[i] = job[i]
  BY <1>2 DEF Rows, Terminal, Kept
<1> HIDE DEF p, rows
<1>5. s \in States /\ s.plan = p /\ s.job = rows
  BY <1>3, <1>4 DEF States
<1>6. Become(AfterResult(s, j, clean))
  BY <1>1 DEF p, rows
<1> HIDE DEF s
<1>7. Become(Advance(s, j))
  BY <1>2, <1>3, <1>5, <1>6 DEF AfterResult
<1>8. /\ plan' \in Plans /\ job' \in [Jobs -> Rows]
      /\ plan'.approver # Nobody
      /\ job'[j] = s.job[j]
      /\ \A i \in Jobs \ {j} : RowMoves(i)
      /\ \A i \in Inspections : ~Created(i)
      /\ \A k \in StepJobs : Created(k) =>
           /\ job'[k].after = RoundsUsed
           /\ \A i \in Earlier(k) : job'[i].status = "succeeded"
      /\ PlanOK'
  BY <1>2, <1>3, <1>4, <1>5, <1>7, Advances
<1>9. Resolved(j)
  BY <1>1, <1>2, <1>4, <1>5, <1>8 DEF Resolved
<1>10. PortalMoves
  BY <1>8, <1>9 DEF PortalMoves, RowMoves, SameRound
<1>11. TypeOK'
  BY <1>2, <1>8, PortalTyped DEF TypeOK, Resolve, authorityVars, linkVars
<1> QED  BY <1>10, <1>11, RequestKeeps DEF Resolve

\* Messages are about a job of their sender.
LEMMA Arrived ==
  ASSUME IInv, NEW n \in Nodes, NEW m, NEW live \in BOOLEAN, Arrives(n, m, live)
  PROVE  MessageOK(n, m) /\ m \in Requests
<1>1. CASE live
  BY <1>1 DEF Arrives, IInv, TypeOK, NodeOK
<1>2. CASE ~live
  <2>1. <<n, m>> \in late
    BY <1>2 DEF Arrives
  <2>2. MessageOK(<<n, m>>[1], <<n, m>>[2]) /\ <<n, m>> \in Nodes \X Requests
    BY <2>1 DEF IInv, TypeOK
  <2> QED  BY <2>2
<1> QED  BY <1>1, <1>2

LEMMA Responds ==
  ASSUME IInv, NEW n \in Nodes, NEW m, NEW live \in BOOLEAN, NEW answer \in Replies,
         Arrives(n, m, live), Respond(n, m, live, answer),
         answer.job # NoJob =>
           /\ NodeOf(answer.job) = n /\ job'[answer.job].status # "absent"
           /\ m.mode = "claim" => job'[answer.job].claimed,
         live /\ m.mode = "result" => answer # Rejected
  PROVE  /\ request' = request /\ late' \subseteq late
         /\ reply' \in [Nodes -> Replies]
         /\ \A x \in Nodes : reply'[x] = reply[x] \/ Answered(x)
<1>1. reply \in [Nodes -> Replies]
  BY DEF IInv, TypeOK
<1>2. CASE live
  <2>1. /\ reply' = [reply EXCEPT ![n] = answer] /\ late' = late /\ request' = request
        /\ m = request[n]
    BY <1>2 DEF Respond, Arrives
  <2>2. Answered(n)
    BY <1>1, <1>2, <2>1 DEF Answered
  <2> QED  BY <1>1, <2>1, <2>2
<1>3. CASE ~live
  BY <1>1, <1>3 DEF Respond
<1> QED  BY <1>2, <1>3

LEMMA MessageKeeps ==
  ASSUME IInv, NEW n \in Nodes, NEW m, NEW live \in BOOLEAN, NEW answer \in Replies,
         Arrives(n, m, live), Respond(n, m, live, answer),
         answer.job # NoJob =>
           /\ NodeOf(answer.job) = n /\ job'[answer.job].status # "absent"
           /\ m.mode = "claim" => job'[answer.job].claimed,
         live /\ m.mode = "result" => answer # Rejected,
         PortalMoves, plan' \in Plans, job' \in [Jobs -> Rows],
         clean' \subseteq Nodes, recent' \subseteq Inspections,
         UNCHANGED authorityVars, UNCHANGED agentVars
  PROVE  IInv'
<1>1. /\ request' = request /\ late' \subseteq late
      /\ reply' \in [Nodes -> Replies]
      /\ \A x \in Nodes : reply'[x] = reply[x] \/ Answered(x)
  BY Responds
<1>2. TypeOK'
  BY <1>1, PortalTyped DEF IInv, TypeOK, authorityVars
<1> QED  BY <1>1, <1>2, PortalKeeps

LEMMA AnswersTyped ==
  /\ Nothing \in Replies /\ Accepted \in Replies /\ Rejected \in Replies
  /\ Nothing.job = NoJob /\ Accepted.job = NoJob /\ Rejected.job = NoJob
  /\ Accepted # Rejected
  /\ \A j \in Jobs \cup {NoJob}, release \in Jobs \cup {NoJob} :
       /\ Answer("job", j, release) \in Replies
       /\ Answer("job", j, release).job = j
       /\ Answer("job", j, release) # Rejected
BY DEF Nothing, Accepted, Rejected, Answer, Replies

LEMMA RefuseKeeps ==
  ASSUME IInv, NEW n \in Nodes, NEW m, NEW live \in BOOLEAN, Refuse(n, m, live),
         UNCHANGED agentVars
  PROVE  PortalMoves /\ IInv'
<1>1. /\ Arrives(n, m, live) /\ Respond(n, m, live, Rejected) /\ m.mode # "result"
      /\ UNCHANGED <<plan, job, clean, recent, authorityVars>>
  BY DEF Refuse
<1>2. PortalMoves /\ plan' \in Plans /\ job' \in [Jobs -> Rows]
  BY <1>1, FenceOrStay
<1>3. clean' \subseteq Nodes /\ recent' \subseteq Inspections
  BY <1>1 DEF IInv, TypeOK
<1> QED  BY <1>1, <1>2, <1>3, AnswersTyped, MessageKeeps

LEMMA WithholdKeeps ==
  ASSUME IInv, NEW n \in Nodes, NEW m, NEW live \in BOOLEAN, Withhold(n, m, live),
         UNCHANGED agentVars
  PROVE  PortalMoves /\ IInv'
<1>1. /\ Arrives(n, m, live) /\ Respond(n, m, live, Nothing) /\ m.mode # "result"
      /\ UNCHANGED <<plan, job, clean, recent, authorityVars>>
  BY DEF Withhold
<1>2. PortalMoves /\ plan' \in Plans /\ job' \in [Jobs -> Rows]
  BY <1>1, FenceOrStay
<1>3. clean' \subseteq Nodes /\ recent' \subseteq Inspections
  BY <1>1 DEF IInv, TypeOK
<1> QED  BY <1>1, <1>2, <1>3, AnswersTyped, MessageKeeps

LEMMA ReleaseTyped ==
  ASSUME TypeOK, NEW n \in Nodes
  PROVE  Release(n) \in Jobs \cup {NoJob}
<1> DEFINE T == {i \in 1 .. StepsPerNode : job[<<n, "step", i>>].released}
<1>1. StepsPerNode \in Nat /\ T \in SUBSET (0 .. StepsPerNode)
  BY HgsAssumption DEF HgsAssumption
<1>2. T # {} => Max(T) \in T
  BY <1>1, MaxOf
<1> QED  BY <1>2, JobFacts DEF Release

\* One row moves.
LEMMA RowMove ==
  ASSUME IInv, NEW j \in Jobs, NEW q \in Rows, job' = [job EXCEPT ![j] = q],
         RowMoves(j), ~Created(j), plan' = plan,
         q.status \in {"running", "waiting_for_reboot"} /\ j \in StepJobs =>
           plan.status \in {"running", "waiting_for_reboot", "reconciliation_required"}
  PROVE  PortalMoves /\ plan' \in Plans /\ job' \in [Jobs -> Rows]
<1>1. TypeOK /\ plan \in Plans /\ job \in [Jobs -> Rows]
  BY StateTyped DEF IInv
<1>2. job'[j] = q /\ \A i \in Jobs \ {j} : job'[i] = job[i]
  BY <1>1
<1>3. \A i \in Jobs : RowMoves(i) /\ ~Created(i)
  BY <1>2, RowsStay DEF Kept
<1>4. PlanOK'
  BY <1>2, JobFacts DEF IInv, PortalOK, PlanOK
<1> QED  BY <1>1, <1>3, <1>4, OldRowsMove

LEMMA PollKeeps ==
  ASSUME IInv, NEW n \in Nodes, NEW m, NEW live \in BOOLEAN, Poll(n, m, live),
         UNCHANGED agentVars
  PROVE  PortalMoves /\ IInv'
<1>1. /\ Arrives(n, m, live) /\ m.mode = "poll"
      /\ UNCHANGED <<clean, recent, authorityVars>>
  BY DEF Poll
<1>2. clean' \subseteq Nodes /\ recent' \subseteq Inspections
  BY <1>1 DEF IInv, TypeOK
<1>3. Release(n) \in Jobs \cup {NoJob} /\ TypeOK
  BY ReleaseTyped DEF IInv
<1>4. CASE /\ Respond(n, m, live, Answer("job", NoJob, Release(n)))
           /\ UNCHANGED <<plan, job>>
  BY <1>1, <1>2, <1>3, <1>4, FenceOrStay, AnswersTyped, MessageKeeps
<1>5. CASE \E j \in Offerable(n) :
             IF AuthorityCurrent(j)
             THEN /\ job' = IF job[j].status = "queued"
                            THEN [job EXCEPT ![j].status = "offered"] ELSE job
                  /\ Respond(n, m, live, Answer("job", j, Release(n)))
                  /\ UNCHANGED plan
             ELSE Become(Fence(State)) /\ Respond(n, m, live, Nothing)
  <2>1. PICK j \in Offerable(n) :
          IF AuthorityCurrent(j)
          THEN /\ job' = IF job[j].status = "queued"
                         THEN [job EXCEPT ![j].status = "offered"] ELSE job
               /\ Respond(n, m, live, Answer("job", j, Release(n)))
               /\ UNCHANGED plan
          ELSE Become(Fence(State)) /\ Respond(n, m, live, Nothing)
    BY <1>5
  <2>2. j \in Jobs /\ NodeOf(j) = n /\ job[j].status \in Active /\ job[j] \in Rows
    BY <1>3, RowTyped DEF Offerable, Busy
  <2>3. CASE ~AuthorityCurrent(j)
    BY <1>1, <1>2, <2>1, <2>3, FenceOrStay, AnswersTyped, MessageKeeps
  <2>4. CASE AuthorityCurrent(j) /\ job[j].status # "queued"
    <3>1. UNCHANGED <<plan, job>> /\ job'[j].status # "absent"
      BY <2>1, <2>2, <2>4 DEF Active
    <3> QED  BY <1>1, <1>2, <1>3, <2>1, <2>2, <2>4, <3>1, FenceOrStay, AnswersTyped,
                MessageKeeps
  <2>5. CASE AuthorityCurrent(j) /\ job[j].status = "queued"
    <3> DEFINE q == [job[j] EXCEPT !.status = "offered"]
    <3>1. q \in Rows /\ q.status = "offered" /\ Kept(job[j], q)
      BY <2>2 DEF Rows, Kept, Active
    <3> HIDE DEF q
    <3>2. job' = [job EXCEPT ![j] = q] /\ plan' = plan
      BY <2>1, <2>5 DEF q
    <3>3. job'[j] = q
      BY <1>3, <2>2, <3>2 DEF TypeOK
    <3>4. RowMoves(j) /\ ~Created(j)
      BY <2>5, <3>1, <3>3 DEF RowMoves, Quiet, Created
    <3>5. PortalMoves /\ plan' \in Plans /\ job' \in [Jobs -> Rows]
      BY <2>2, <3>1, <3>2, <3>4, RowMove
    <3> QED  BY <1>1, <1>2, <1>3, <2>1, <2>2, <2>5, <3>1, <3>3, <3>5, AnswersTyped,
                MessageKeeps
  <2> QED  BY <2>3, <2>4, <2>5
<1> QED  BY <1>4, <1>5 DEF Poll

LEMMA ClaimKeeps ==
  ASSUME IInv, NEW n \in Nodes, NEW m, NEW live \in BOOLEAN, Claim(n, m, live),
         UNCHANGED agentVars
  PROVE  PortalMoves /\ IInv'
<1> DEFINE j == m.job
<1>1. /\ Arrives(n, m, live) /\ m.mode = "claim"
      /\ UNCHANGED <<clean, recent, authorityVars>>
  BY DEF Claim
<1>2. clean' \subseteq Nodes /\ recent' \subseteq Inspections /\ TypeOK
  BY <1>1 DEF IInv, TypeOK
<1>3. /\ j \in Jobs /\ NodeOf(j) = n /\ job[j].status # "absent"
  BY <1>1, Arrived DEF MessageOK, Requests
<1>4. job[j] \in Rows /\ RowOK(j)
  BY <1>2, <1>3, RowTyped DEF IInv, PortalOK
<1>5. CASE ~AuthorityCurrent(j)
  BY <1>1, <1>2, <1>5, FenceOrStay, AnswersTyped, MessageKeeps DEF Claim
<1>6. CASE Respond(n, m, live, Nothing) /\ UNCHANGED <<plan, job>>
  BY <1>1, <1>2, <1>6, FenceOrStay, AnswersTyped, MessageKeeps
<1>7. CASE /\ AuthorityCurrent(j)
           /\ job[j].status \in {"queued", "offered"}
           /\ job' = [job EXCEPT ![j].status = "running", ![j].claimed = TRUE]
           /\ Respond(n, m, live, Answer("job", j, NoJob))
           /\ UNCHANGED plan
  <2> DEFINE q == [job[j] EXCEPT !.status = "running", !.claimed = TRUE]
  <2>1. /\ q \in Rows /\ q.status = "running" /\ q.claimed = TRUE
        /\ q.receipt = job[j].receipt /\ q.preboot = job[j].preboot
        /\ q.after = job[j].after
    BY <1>4 DEF Rows, Active
  <2>2. job' = [job EXCEPT ![j] = q]
    BY <1>2, <1>3, <1>7 DEF TypeOK
  <2> HIDE DEF q
  <2>3. job'[j] = q
    BY <1>2, <1>3, <2>2 DEF TypeOK
  <2>4. RowMoves(j) /\ ~Created(j)
    BY <1>7, <2>1, <2>3 DEF RowMoves, Granted, Created
  <2>5. j \in StepJobs => plan.status \in {"running", "waiting_for_reboot"}
    BY <1>7, JobFacts DEF AuthorityCurrent
  <2>6. PortalMoves /\ plan' \in Plans /\ job' \in [Jobs -> Rows]
    BY <1>3, <1>7, <2>1, <2>2, <2>4, <2>5, RowMove
  <2> DEFINE answer == Answer("job", j, NoJob)
  <2>7. answer \in Replies /\ answer.job = j /\ answer # Rejected
    BY <1>3, AnswersTyped
  <2>8. Respond(n, m, live, answer)
    BY <1>7
  <2> HIDE DEF answer
  <2>9. job'[j].status # "absent" /\ job'[j].claimed
    BY <2>1, <2>3
  <2> QED  BY <1>1, <1>2, <1>3, <2>6, <2>7, <2>8, <2>9, MessageKeeps
<1>8. CASE /\ job[j].status \in {"running", "waiting_for_reboot"}
           /\ Respond(n, m, live, Answer("job", j, NoJob))
           /\ UNCHANGED <<plan, job>>
  <2>1. job'[j].claimed /\ job'[j].status # "absent"
    BY <1>3, <1>4, <1>8 DEF RowOK
  <2> QED  BY <1>1, <1>2, <1>3, <1>8, <2>1, FenceOrStay, AnswersTyped, MessageKeeps
<1> QED  BY <1>5, <1>6, <1>7, <1>8 DEF Claim

-----------------------------------------------------------------------------
(* Results.                                                                *)

\* A report that has arrived is the receipt, or tells of a restart that was
\* ordered; the report an Agent waits for is never refused.
LEMMA ReportFacts ==
  ASSUME IInv, NEW n \in Nodes, NEW m, NEW live \in BOOLEAN,
         Arrives(n, m, live), m.mode = "result"
  PROVE  /\ m.job \in Jobs /\ NodeOf(m.job) = n /\ job[m.job].status # "absent"
         /\ m.doc \in Reports
         /\ \/ m.doc = receipts[m.job] /\ DocOK(m.job, m.doc)
            \/ RebootNotice(m.job, m.doc)
<1>1. MessageOK(n, m) /\ m \in Requests
  BY Arrived
<1>2. m.job \in Jobs /\ m.doc \in Reports
  BY <1>1 DEF MessageOK, Requests, Docs
<1>3. JobOK(m.job)
  BY <1>2 DEF IInv
<1> QED  BY <1>1, <1>2, <1>3 DEF MessageOK, JobOK, ReceiptOK

\* What the portal makes of a report about a row that is not terminal.
LEMMA SettledIs ==
  ASSUME IInv, NEW s \in States, NEW j \in Jobs, NEW doc \in Reports,
         s.job[j] = job[j], job[j].status \in Active,
         \/ doc = receipts[j] /\ DocOK(j, doc)
         \/ RebootNotice(j, doc),
         ~Refused(j, doc)
  PROVE  LET r == Settled(s, j, doc) IN
         /\ r \in States /\ r.plan = s.plan
         /\ \A i \in Jobs \ {j} : r.job[i] = s.job[i]
         /\ job'[j] = r.job[j] => Awaited(j) \/ Told(j)
         /\ r.job[j].status \in {"waiting_for_reboot", "succeeded", "failed",
                                 "reconciliation_required"}
         /\ r.job[j].status = "waiting_for_reboot" =>
              job[j].status \in {"running", "waiting_for_reboot"}
         /\ r.job[j].status \in {"failed", "reconciliation_required"} =>
              \/ doc.status = r.job[j].status
              \/ doc.status \notin {"failed", "reconciliation_required"}
<1> DEFINE waits == doc.status = "reboot_required" /\ Operation(j) = "reboot"
           good == doc.status \in {"succeeded", "reboot_required"}
           status == IF waits THEN "waiting_for_reboot"
                     ELSE IF ~good THEN doc.status
                     ELSE IF s.plan.revoked /\ ~ReadOnly(j) THEN "reconciliation_required"
                     ELSE "succeeded"
           preboot == IF waits /\ job[j].preboot = 0 THEN doc.seen.boot ELSE job[j].preboot
           q == [job[j] EXCEPT !.status = status, !.receipt = doc, !.preboot = preboot]
           r == Settled(s, j, doc)
<1>1. /\ s = [plan |-> s.plan, job |-> s.job] /\ s.plan \in Plans
      /\ s.job \in [Jobs -> Rows] /\ job[j] \in Rows
  BY RowTyped DEF States, IInv
<1>2. doc.status \in {"succeeded", "failed", "reconciliation_required", "reboot_required"}
  BY DEF Reports
<1>3. waits => RebootNotice(j, doc)
  BY DEF DocOK
<1>4. waits => applied[j].boot \in Nat /\ doc.seen.boot = applied[j].boot /\ applied[j].times > 0
  BY <1>3 DEF RebootNotice, IInv, TypeOK
<1>5. ~waits => doc = receipts[j] /\ receipts[j] # NoDoc
  BY HgsAssumption DEF RebootNotice, HgsAssumption
<1>6. preboot \in Nat
  BY <1>1, <1>4 DEF Rows
<1>7. status \in {"waiting_for_reboot", "succeeded", "failed", "reconciliation_required"}
  BY <1>2
<1>8. /\ q \in Rows /\ q.status = status /\ q.receipt = doc /\ q.preboot = preboot
      /\ q.claimed = job[j].claimed /\ q.after = job[j].after
  BY <1>1, <1>6, <1>7 DEF Rows, Docs, Active, Terminal
<1>9. r = [plan |-> s.plan, job |-> [s.job EXCEPT ![j] = q]]
  <2>1. /\ s.job[j].preboot = job[j].preboot
        /\ [s.job[j] EXCEPT !.status = status, !.receipt = doc,
              !.preboot = IF waits /\ @ = 0 THEN doc.seen.boot ELSE @] = q
    OBVIOUS
  <2>2. r = [s EXCEPT !.job[j] =
              [s.job[j] EXCEPT !.status = status, !.receipt = doc,
                 !.preboot = IF waits /\ @ = 0 THEN doc.seen.boot ELSE @]]
    BY DEF Settled
  <2> HIDE DEF q, status, preboot, waits, r
  <2>3. r = [s EXCEPT !.job[j] = q]
    BY <2>1, <2>2
  <2> QED  BY <1>1, <2>3
<1> HIDE DEF q, r
<1>10. r \in States /\ r.plan = s.plan /\ r.job[j] = q
       /\ \A i \in Jobs \ {j} : r.job[i] = s.job[i]
  BY <1>1, <1>8, <1>9 DEF States
<1>11. job[j].status \in {"queued", "offered"} => doc.status = "failed"
  BY DEF Refused, NotExecuted
<1>12. waits => job[j].status \in {"running", "waiting_for_reboot"}
  BY <1>11 DEF Active
<1>13. CASE waits
  <2>1. job'[j] = q => Awaited(j)
    BY <1>4, <1>8, <1>12, <1>13 DEF Awaited
  <2> QED  BY <1>8, <1>10, <1>12, <1>13, <2>1 DEF r
<1>14. CASE ~waits
  <2>1. job'[j] = q => Told(j)
    BY <1>2, <1>5, <1>8, <1>14 DEF Told
  <2>2. status \in {"failed", "reconciliation_required"} =>
          doc.status = status \/ doc.status \notin {"failed", "reconciliation_required"}
    BY <1>2, <1>14
  <2>3. status # "waiting_for_reboot"
    BY <1>2, <1>14
  <2> HIDE DEF status
  <2> QED  BY <1>7, <1>8, <1>10, <2>1, <2>2, <2>3 DEF r
<1> QED  BY <1>13, <1>14

\* Cancelled rows, and no others, differ.
LEMMA CancelledIs ==
  ASSUME NEW rows \in [Jobs -> Rows]
  PROVE  /\ Cancelled(rows) \in [Jobs -> Rows]
         /\ \A j \in Jobs :
              /\ rows[j].status \notin {"queued", "offered"} => Cancelled(rows)[j] = rows[j]
              /\ rows[j].status \in {"queued", "offered"} =>
                   /\ Cancelled(rows)[j].status = "cancelled"
                   /\ Kept(rows[j], Cancelled(rows)[j])
<1>1. \A j \in Jobs : /\ rows[j] \in Rows
                      /\ [rows[j] EXCEPT !.status = "cancelled"] \in Rows
                      /\ [rows[j] EXCEPT !.status = "cancelled"].status = "cancelled"
                      /\ Kept(rows[j], [rows[j] EXCEPT !.status = "cancelled"])
  BY DEF Rows, Terminal, Kept
<1> QED  BY <1>1 DEF Cancelled

\* The plan after a report: it moves on, waits, stops, or stays.
LEMMA AcceptMoves ==
  ASSUME IInv, NEW s \in {State, Fence(State)}, NEW j \in Jobs, NEW doc \in Reports,
         NEW ok, job[j].status \in Active,
         s # State => job[j].status \in {"running", "waiting_for_reboot"},
         \/ doc = receipts[j] /\ DocOK(j, doc)
         \/ RebootNotice(j, doc),
         ~Refused(j, doc), Become(AcceptResult(s, j, doc, ok))
  PROVE  PortalMoves /\ plan' \in Plans /\ job' \in [Jobs -> Rows]
<1> DEFINE r == Settled(s, j, doc)
<1>1. /\ State \in States /\ State.plan = plan /\ State.job = job
      /\ \A i \in Jobs : job[i] \in Rows
  BY StateTyped, RowTyped DEF IInv
<1>2. /\ s \in States /\ s.plan.approver = plan.approver
      /\ s # State => s.plan.revoked
      /\ s = State => s.plan = plan /\ s.job = job
      /\ \A i \in Jobs : IF s # State /\ job[i].status \in {"queued", "offered"}
                         THEN s.job[i] = [job[i] EXCEPT !.status = "cancelled"]
                         ELSE s.job[i] = job[i]
      /\ s # State => \A i \in Jobs : job[i].status \in {"running", "waiting_for_reboot"} =>
                        s.plan.status = "reconciliation_required"
  BY <1>1, FenceIs
<1>3. s.job[j] = job[j]
  BY <1>2
<1>4. \A i \in Jobs : \/ s.job[i] = job[i]
                      \/ /\ job[i].status \in {"queued", "offered"}
                         /\ s.job[i].status = "cancelled" /\ Kept(job[i], s.job[i])
  <2>1. \A i \in Jobs : /\ [job[i] EXCEPT !.status = "cancelled"].status = "cancelled"
                        /\ Kept(job[i], [job[i] EXCEPT !.status = "cancelled"])
    BY <1>1 DEF Rows, Kept
  <2> QED  BY <1>2, <2>1
<1>5. \A i \in StepJobs : s.job[i].status \in {"running", "waiting_for_reboot"} =>
        s.plan.status \in {"running", "waiting_for_reboot", "reconciliation_required"}
  <2>1. \A i \in StepJobs : s.job[i].status \in {"running", "waiting_for_reboot"} =>
          job[i].status \in {"running", "waiting_for_reboot"}
    BY <1>4, JobFacts
  <2> QED  BY <1>2, <2>1, JobFacts DEF IInv, PortalOK, PlanOK
<1>6. /\ r \in States /\ r.plan = s.plan
      /\ \A i \in Jobs \ {j} : r.job[i] = s.job[i]
      /\ job'[j] = r.job[j] => Awaited(j) \/ Told(j)
      /\ r.job[j].status \in {"waiting_for_reboot", "succeeded", "failed",
                              "reconciliation_required"}
      /\ r.job[j].status = "waiting_for_reboot" =>
           job[j].status \in {"running", "waiting_for_reboot"}
      /\ r.job[j].status \in {"failed", "reconciliation_required"} =>
           \/ doc.status = r.job[j].status
           \/ doc.status \notin {"failed", "reconciliation_required"}
  BY <1>2, <1>3, SettledIs
<1> HIDE DEF r
<1>7. r.plan \in Plans /\ r.job \in [Jobs -> Rows] /\ r = [plan |-> r.plan, job |-> r.job]
  BY <1>6 DEF States
<1>8. Become(AcceptResult(s, j, doc, ok)) /\ plan.approver = r.plan.approver
  BY <1>2, <1>6
<1>9. \A i \in Jobs : ~(job[i].status = "absent" /\ r.job[i].status = "queued")
  BY <1>4, <1>6
\* The rows of r, some cancelled, are moves.
<1>10. ASSUME job' = r.job \/ job' = Cancelled(r.job), plan' \in Plans,
              plan'.approver = plan.approver, PlanOK'
       PROVE  PortalMoves /\ plan' \in Plans /\ job' \in [Jobs -> Rows]
  <2>1. /\ job' \in [Jobs -> Rows]
        /\ \A i \in Jobs :
              \/ job'[i] = r.job[i]
              \/ /\ r.job[i].status \in {"queued", "offered"}
                 /\ job'[i].status = "cancelled" /\ Kept(r.job[i], job'[i])
    BY <1>7, <1>10, CancelledIs
  <2>2. job'[j] = r.job[j]
    BY <1>6, <2>1
  <2>3. RowMoves(j) /\ ~Created(j)
    BY <1>6, <2>2 DEF RowMoves, Created, Active
  <2>4. ASSUME NEW i \in Jobs \ {j}
        PROVE  RowMoves(i) /\ ~Created(i)
    <3>1. r.job[i] = s.job[i]
      BY <1>6
    <3>2. \/ job'[i] = job[i]
          \/ /\ job[i].status \in {"queued", "offered"}
             /\ job'[i].status = "cancelled" /\ Kept(job[i], job'[i])
      BY <1>4, <2>1, <3>1 DEF Kept
    <3> QED  BY <3>2 DEF RowMoves, Quiet, Created, Kept
  <2> QED  BY <1>10, <2>1, <2>3, <2>4, OldRowsMove
\* With the plan as it was.
<1>11. ASSUME plan' = r.plan, job' = r.job, r.job[j].status # "waiting_for_reboot"
       PROVE  PortalMoves /\ plan' \in Plans /\ job' \in [Jobs -> Rows]
  <2>1. PlanOK'
    BY <1>5, <1>6, <1>11, JobFacts DEF PlanOK
  <2> QED  BY <1>7, <1>8, <1>10, <1>11, <2>1
<1>12. CASE r.job[j].status = "waiting_for_reboot"
  <2>1. /\ job' = r.job
        /\ plan' = [r.plan EXCEPT !.status = IF s.plan.revoked THEN "reconciliation_required"
                                             ELSE "waiting_for_reboot"]
    BY <1>7, <1>8, <1>12 DEF AcceptResult, WithStatus, Become, r
  <2>2. /\ plan' \in Plans /\ plan'.approver = r.plan.approver
        /\ plan'.status \in {"reconciliation_required", "waiting_for_reboot"}
    BY <1>7, <2>1 DEF Plans, PlanActive
  <2>3. PlanOK'
    BY <2>2 DEF PlanOK
  <2> QED  BY <1>8, <1>10, <2>1, <2>2, <2>3
<1>13. CASE /\ r.job[j].status # "waiting_for_reboot"
            /\ j \in Inspections \/ r.job[j].status = "succeeded"
  <2>1. Become(AfterResult(r, j, ok))
    BY <1>8, <1>13 DEF AcceptResult, r
  <2>2. CASE r.plan.revoked /\ Busy(r.job) \cup Unresolved(r.job) = {}
    <3>1. Become(WithStatus(r, "cancelled"))
      BY <2>1, <2>2 DEF AfterResult
    <3>2. job' = r.job /\ plan' = [r.plan EXCEPT !.status = "cancelled"]
      BY <1>7, <3>1 DEF WithStatus, Become
    <3>3. plan' \in Plans /\ plan'.approver = r.plan.approver
      BY <1>7, <3>2 DEF Plans
    <3>4. PlanOK'
      BY <2>2, <3>2, JobFacts DEF PlanOK, Busy, Active
    <3> QED  BY <1>8, <1>10, <3>2, <3>3, <3>4
  <2>3. CASE /\ ~(r.plan.revoked /\ Busy(r.job) \cup Unresolved(r.job) = {})
             /\ j \in Inspections
    <3>1. CASE \/ Busy(r.job) \cap Inspections # {} \/ r.plan.revoked
               \/ r.plan.status \notin {"inspecting", "draft", "blocked", "ready"}
      <4>1. Become(r)
        BY <2>1, <2>3, <3>1 DEF AfterResult
      <4> QED  BY <1>11, <1>13, <4>1 DEF Become
    <3>2. CASE ~(\/ Busy(r.job) \cap Inspections # {} \/ r.plan.revoked
                 \/ r.plan.status \notin {"inspecting", "draft", "blocked", "ready"})
      <4>1. Become(WithStatus(r, IF ok = Nodes THEN "ready" ELSE "blocked"))
        BY <2>1, <2>3, <3>2 DEF AfterResult
      <4>2. /\ job' = r.job
            /\ plan' = [r.plan EXCEPT !.status = IF ok = Nodes THEN "ready" ELSE "blocked"]
        BY <1>7, <4>1 DEF WithStatus, Become
      <4>3. plan' \in Plans /\ plan'.approver = r.plan.approver
        BY <1>7, <4>2 DEF Plans, PlanActive
      <4>4. PlanOK'
        <5>1. \A i \in StepJobs : i \in Jobs \ {j}
          BY <2>3, JobFacts
        <5> QED  BY <1>5, <1>6, <3>2, <4>2, <5>1 DEF PlanOK
      <4> QED  BY <1>8, <1>10, <4>2, <4>3, <4>4
    <3> QED  BY <3>1, <3>2
  <2>4. CASE /\ ~(r.plan.revoked /\ Busy(r.job) \cup Unresolved(r.job) = {})
             /\ j \notin Inspections
             /\ r.plan.revoked \/ r.plan.status \in {"cancelled", "reconciliation_required"}
    <3>1. Become(r)
      BY <2>1, <2>4 DEF AfterResult
    <3> QED  BY <1>11, <1>13, <3>1 DEF Become
  <2>5. CASE /\ ~(r.plan.revoked /\ Busy(r.job) \cup Unresolved(r.job) = {})
             /\ j \notin Inspections
             /\ ~(r.plan.revoked \/ r.plan.status \in {"cancelled", "reconciliation_required"})
    <3>1. Become(Advance(r, j)) /\ s = State
      BY <1>2, <1>6, <2>1, <2>5 DEF AfterResult
    <3>2. j \in StepJobs /\ r.job[j].status = "succeeded"
      BY <1>13, <2>5, JobFacts
    <3>3. job[j].status \notin {"absent", "succeeded"}
      BY DEF Active
    <3>4. r.plan.approver # Nobody
      BY <1>8, <3>2, <3>3 DEF IInv, PortalOK, OrderOK
    <3>5. \A i \in Jobs \ {j} : r.job[i] = job[i]
      BY <1>2, <1>6, <3>1
    <3>6. /\ plan' \in Plans /\ job' \in [Jobs -> Rows]
          /\ plan'.approver # Nobody
          /\ job'[j] = r.job[j]
          /\ \A i \in Jobs \ {j} : RowMoves(i)
          /\ \A i \in Inspections : ~Created(i)
          /\ \A k \in StepJobs : Created(k) =>
               /\ job'[k].after = RoundsUsed
               /\ \A i \in Earlier(k) : job'[i].status = "succeeded"
          /\ PlanOK'
      BY <1>6, <3>1, <3>2, <3>3, <3>4, <3>5, Advances
    <3> QED  BY <1>6, <3>6 DEF PortalMoves, RowMoves, SameRound
  <2> QED  BY <2>2, <2>3, <2>4, <2>5
<1>14. CASE /\ r.job[j].status # "waiting_for_reboot"
            /\ ~(j \in Inspections \/ r.job[j].status = "succeeded")
            /\ doc.status \in {"failed", "reconciliation_required"}
  <2>1. job' = Cancelled(r.job) /\ plan' = [r.plan EXCEPT !.status = doc.status]
    BY <1>8, <1>14 DEF AcceptResult, Become, r
  <2>2. /\ plan' \in Plans /\ plan'.approver = r.plan.approver
        /\ plan'.status = doc.status
    BY <1>7, <1>14, <2>1 DEF Plans, PlanActive
  <2>3. j \in StepJobs /\ doc.status = r.job[j].status
    BY <1>6, <1>14, JobFacts
  <2>4. PlanOK'
    <3> SUFFICES ASSUME NEW i \in StepJobs,
                        job'[i].status \in {"running", "waiting_for_reboot"}
                 PROVE  FALSE
      BY DEF PlanOK
    <3>1. i \in Jobs /\ r.job[i].status \in {"running", "waiting_for_reboot"}
      BY <1>7, <2>1, CancelledIs, JobFacts
    <3>2. i # j /\ job[i].status \in {"running", "waiting_for_reboot"}
      BY <1>4, <1>6, <1>14, <3>1
    <3> QED  BY <2>3, <3>2, OneOpen DEF Active
  <2> QED  BY <1>8, <1>10, <2>1, <2>2, <2>4
<1>15. CASE /\ r.job[j].status # "waiting_for_reboot"
            /\ ~(j \in Inspections \/ r.job[j].status = "succeeded")
            /\ doc.status \notin {"failed", "reconciliation_required"}
  <2>1. Become(r)
    BY <1>8, <1>15 DEF AcceptResult, r
  <2> QED  BY <1>11, <1>15, <2>1 DEF Become
<1> QED  BY <1>12, <1>13, <1>14, <1>15

LEMMA NeverRefused ==
  ASSUME IInv, NEW n \in Nodes, NEW m, Arrives(n, m, TRUE), m.mode = "result"
  PROVE  ~Refused(m.job, m.doc)
<1> DEFINE j == m.job doc == m.doc row == job[j]
<1>1. /\ j \in Jobs /\ NodeOf(j) = n /\ row.status # "absent" /\ doc \in Reports
      /\ \/ doc = receipts[j] /\ DocOK(j, doc)
         \/ RebootNotice(j, doc)
  BY ReportFacts
<1>2. doc = receipts[j] \/ receipts[j] = NoDoc
  <2>1. m = request[n]
    BY DEF Arrives
  <2>2. pc[n] \in {"reporting", "delivering"}
    <3>1. pc[n] \notin {"polling", "claiming", "reporting", "delivering"} =>
            request[n] = NoRequest
      BY DEF IInv, NodeOK, ExchangeOK
    <3>2. /\ pc[n] = "polling" => request[n].mode = "poll"
          /\ pc[n] = "claiming" => request[n].mode = "claim"
      BY DEF IInv, NodeOK, ExchangeOK
    <3> QED  BY <2>1, <3>1, <3>2 DEF NoRequest, Message
  <2> QED  BY <2>1, <2>2 DEF IInv, NodeOK, ExchangeOK
<1>3. /\ TypeOK /\ row \in Rows /\ RowOK(j) /\ AppliedOK(j) /\ Operation(j) \in Operations
      /\ applied[j].times \in Nat /\ applied[j].boot \in Nat
      /\ NoDoc \notin Reports
  BY <1>1, RowTyped, JobFacts, HgsAssumption
     DEF IInv, PortalOK, JobOK, TypeOK, HgsAssumption
<1>4. row.claimed => row.status \notin {"queued", "offered", "cancelled"}
  BY <1>3 DEF RowOK
<1>5. CASE RebootNotice(j, doc)
  <2>1. row.claimed /\ receipts[j] \in {NoDoc, doc}
    BY <1>2, <1>3, <1>5 DEF RebootNotice, AppliedOK
  <2>2. doc # receipts[j] => row.status \notin Terminal
    BY <1>3, <1>4, <2>1 DEF RowOK
  <2>3. row.status \in Terminal => row.receipt = doc
    BY <1>3, <1>4, <2>1, <2>2 DEF RowOK, Terminal
  <2> QED  BY <1>4, <1>5, <2>1, <2>3 DEF RebootNotice, Refused
<1>6. CASE doc = receipts[j] /\ DocOK(j, doc)
  <2>1. doc.status = "succeeded" => Proves(Operation(j), doc.seen)
    BY <1>6 DEF DocOK
  <2>2. doc.status = "reboot_required" => Operation(j) \in {"install_role", "promote"}
    BY <1>6 DEF DocOK
  <2>3. NotExecuted(doc) \/ row.claimed
    BY <1>6 DEF DocOK
  <2>4. row.status \in Terminal /\ row.receipt # doc =>
          row.status = "cancelled" /\ row.receipt = NoDoc
    BY <1>3, <1>6 DEF RowOK
  <2>5. Operation(j) = "reboot" /\ doc.status = "succeeded" /\ row.preboot # 0 =>
          doc.seen.boot # row.preboot
    <3> SUFFICES ASSUME Operation(j) = "reboot", doc.status = "succeeded", row.preboot # 0
                 PROVE  doc.seen.boot # row.preboot
      OBVIOUS
    <3>1. row.preboot = applied[j].boot /\ applied[j].times > 0
      BY <1>3 DEF RowOK
    <3>2. doc.seen # NoDoc /\ doc.seen \in Views
      BY <1>1, <1>6 DEF DocOK, Reports
    <3>3. doc.seen.boot > applied[j].boot /\ doc.seen.boot \in Nat
      BY <1>6, <3>1, <3>2 DEF DocOK, Views, Observations
    <3> QED  BY <1>3, <3>1, <3>3
  <2> QED  BY <1>4, <2>1, <2>2, <2>3, <2>4, <2>5 DEF Refused
<1> QED  BY <1>1, <1>5, <1>6

LEMMA ResultKeeps ==
  ASSUME IInv, NEW n \in Nodes, NEW m, NEW live \in BOOLEAN, Result(n, m, live),
         UNCHANGED agentVars
  PROVE  PortalMoves /\ IInv'
<1> DEFINE j == m.job doc == m.doc
           lost == /\ ~AuthorityCurrent(j) /\ ~plan.revoked
                   /\ job[j].status \in {"running", "waiting_for_reboot"}
           s == IF lost THEN Fence(State) ELSE State
<1>1. /\ Arrives(n, m, live) /\ m.mode = "result" /\ UNCHANGED authorityVars
      /\ TypeOK /\ clean \subseteq Nodes /\ recent \subseteq Inspections
  BY DEF Result, IInv, TypeOK
<1>2. /\ j \in Jobs /\ NodeOf(j) = n /\ job[j].status # "absent" /\ doc \in Reports
      /\ \/ doc = receipts[j] /\ DocOK(j, doc)
         \/ RebootNotice(j, doc)
  BY <1>1, ReportFacts
<1>3. job[j] \in Rows /\ RowOK(j) /\ job \in [Jobs -> Rows]
  BY <1>1, <1>2, RowTyped, StateTyped DEF IInv, PortalOK
<1>4. CASE Refused(j, doc)
  <2>1. Respond(n, m, live, Rejected) /\ UNCHANGED <<plan, job, clean, recent>>
    BY <1>4 DEF Result
  <2>2. ~live
    BY <1>1, <1>4, NeverRefused
  <2> QED  BY <1>1, <2>1, <2>2, FenceOrStay, AnswersTyped, MessageKeeps
<1>5. CASE ~Refused(j, doc) /\ job[j].status \in Terminal
  <2>1. /\ job' = [job EXCEPT ![j].receipt = doc]
        /\ Respond(n, m, live, Accepted)
        /\ UNCHANGED <<plan, clean, recent>>
    BY <1>5 DEF Result
  <2> DEFINE q == [job[j] EXCEPT !.receipt = doc]
  <2>2. /\ q \in Rows /\ q.status = job[j].status /\ q.receipt = doc
        /\ q.claimed = job[j].claimed /\ q.preboot = job[j].preboot
        /\ q.after = job[j].after
    BY <1>2, <1>3 DEF Rows, Docs
  <2>3. job' = [job EXCEPT ![j] = q]
    BY <1>2, <1>3, <2>1
  <2> HIDE DEF q
  <2>4. job'[j] = q
    BY <1>2, <1>3, <2>3
  <2>5. \/ job[j].receipt = doc
        \/ job[j].status = "cancelled" /\ doc = receipts[j]
    <3>1. \/ job[j].receipt = doc
          \/ job[j].status = "cancelled" /\ NotExecuted(doc)
      BY <1>5 DEF Refused
    <3>2. NotExecuted(doc) => doc = receipts[j]
      BY <1>2 DEF NotExecuted, RebootNotice
    <3> QED  BY <3>1, <3>2
  <2>6. RowMoves(j) /\ ~Created(j)
    BY <1>5, <2>2, <2>4, <2>5 DEF RowMoves, Quiet, Kept, Receipted, Created, Terminal
  <2>7. PortalMoves /\ plan' \in Plans /\ job' \in [Jobs -> Rows]
    BY <1>2, <1>5, <2>1, <2>2, <2>3, <2>6, RowMove DEF Terminal
  <2> QED  BY <1>1, <2>1, <2>7, AnswersTyped, MessageKeeps
<1>6. CASE ~Refused(j, doc) /\ job[j].status \notin Terminal
  <2>1. /\ clean' \in Observed(n, j, doc)
        /\ recent' = IF j \in Inspections /\ doc.status = "succeeded"
                     THEN recent \cup {j} ELSE recent
        /\ Become(AcceptResult(s, j, doc, clean'))
        /\ Respond(n, m, live, Accepted)
    BY <1>6 DEF Result
  <2>2. clean' \subseteq Nodes /\ recent' \subseteq Inspections
    BY <1>1, <2>1 DEF Observed
  <2>3. job[j].status \in Active
    BY <1>2, <1>3, <1>6 DEF Rows
  <2>4. /\ s \in {State, Fence(State)}
        /\ s # State => job[j].status \in {"running", "waiting_for_reboot"}
    OBVIOUS
  <2> HIDE DEF s
  <2>5. PortalMoves /\ plan' \in Plans /\ job' \in [Jobs -> Rows]
    BY <1>2, <1>6, <2>1, <2>3, <2>4, AcceptMoves
  <2> QED  BY <1>1, <2>1, <2>2, <2>5, AnswersTyped, MessageKeeps
<1> QED  BY <1>4, <1>5, <1>6

LEMMA GatewayKeeps ==
  ASSUME IInv, NEW n \in Nodes, NEW m, NEW live \in BOOLEAN,
         Gateway(n, m, live) \/ Withhold(n, m, live), UNCHANGED agentVars
  PROVE  PortalMoves /\ IInv'
BY RefuseKeeps, PollKeeps, ClaimKeeps, ResultKeeps, WithholdKeeps DEF Gateway

LEMMA UserKeeps ==
  ASSUME IInv, User, UNCHANGED agentVars
  PROVE  PortalMoves /\ IInv'
BY CreatePlanKeeps, RequestInspectionKeeps, AuthorizeKeeps, CancelKeeps, ResolveKeeps,
   UpdateMembershipKeeps, MembershipExpiresKeeps, SuspendTenantKeeps,
   ReactivateTenantKeeps, TimePassesKeeps DEF User

-----------------------------------------------------------------------------
(* The Agents keep the invariant.                                          *)

\* What a step of the Agent of n leaves alone.
Elsewhere(n) ==
  /\ \A x \in Nodes \ {n} :
       /\ journal'[x] = journal[x] /\ pc'[x] = pc[x] /\ outcome'[x] = outcome[x]
       /\ request'[x] = request[x] /\ reply'[x] = reply[x]
       /\ fence'[x] = fence[x] /\ host'[x] = host[x]
  /\ \A j \in Jobs : NodeOf(j) # n => receipts'[j] = receipts[j] /\ applied'[j] = applied[j]
  /\ releases \subseteq releases'
  /\ late' \subseteq late \cup {<<n, request[n]>>}

LEMMA AgentKeeps ==
  ASSUME IInv, NEW n \in Nodes, Elsewhere(n), UNCHANGED portalKept, TypeOK',
         NodeOK(n)',
         \A j \in Jobs : NodeOf(j) = n => RowOK(j)' /\ JobOK(j)',
         \A k \in StepJobs : NodeOf(k) = n =>
           FenceOK(k)' /\ (job[k].status = "succeeded" => OnMachine(k)'),
         \A m \in Requests : MessageOK(n, m) => MessageOK(n, m)',
         pc'[n] \in {"reporting", "delivering"} => reply'[n] # Rejected
  PROVE  IInv'
<1>1. job' = job /\ plan' = plan
  BY DEF portalKept
<1>2. ASSUME NEW x \in Nodes \ {n}
      PROVE  /\ journal'[x] = journal[x] /\ pc'[x] = pc[x] /\ outcome'[x] = outcome[x]
             /\ request'[x] = request[x] /\ reply'[x] = reply[x]
             /\ fence'[x] = fence[x] /\ host'[x] = host[x] /\ Reached(x)' = Reached(x)
  BY DEF Elsewhere, Reached
<1>3. ASSUME NEW j \in Jobs, NodeOf(j) # n
      PROVE  receipts'[j] = receipts[j] /\ applied'[j] = applied[j]
  BY <1>3 DEF Elsewhere
<1>4. \A j \in Jobs : NodeOf(j) \in Nodes
  BY JobFacts
<1>5. ASSUME NEW j \in Jobs, NodeOf(j) # n, NEW doc, DocOK(j, doc)
      PROVE  DocOK(j, doc)'
  <2>1. /\ receipts'[j] = receipts[j] /\ applied'[j] = applied[j]
        /\ Reached(NodeOf(j))' = Reached(NodeOf(j)) /\ host'[NodeOf(j)] = host[NodeOf(j)]
    BY <1>2, <1>3, <1>4, <1>5
  <2>2. Fresh(j, doc) => Fresh(j, doc)'
    <3>1. \A k \in StepJobs : Later(j, k)' => Later(j, k) /\ k \in Jobs /\ NodeOf(k) # n
      BY <1>1, <1>5, JobFacts DEF Later
    <3> QED  BY <1>3, <3>1 DEF Fresh
  <2> QED  BY <1>1, <1>5, <2>1, <2>2 DEF DocOK
<1>6. PortalOK'
  <2>1. \A j \in Jobs : RowOK(j)'
    <3> SUFFICES ASSUME NEW j \in Jobs, NodeOf(j) # n PROVE RowOK(j)'
      OBVIOUS
    <3> QED  BY <1>1, <1>3 DEF IInv, PortalOK, RowOK
  <2>2. RoundsOK' /\ OrderOK' /\ PlanOK' /\ LaterOK'
    BY <1>1 DEF IInv, PortalOK, RoundsOK, Rounding, OrderOK, PlanOK, LaterOK, Later
  <2> QED  BY <2>1, <2>2 DEF PortalOK
<1>7. ASSUME NEW j \in Jobs PROVE JobOK(j)'
  <2>1. CASE NodeOf(j) = n
    BY <2>1
  <2>2. CASE NodeOf(j) # n
    <3>1. ReceiptOK(j)'
      BY <1>3, <1>5, <2>2 DEF IInv, JobOK, ReceiptOK
    <3>2. AppliedOK(j)'
      BY <1>1, <1>2, <1>3, <1>4, <2>2 DEF IInv, JobOK, AppliedOK
    <3> QED  BY <3>1, <3>2 DEF JobOK
  <2> QED  BY <2>1, <2>2
<1>8. ASSUME NEW x \in Nodes \ {n}, NEW m \in Requests, MessageOK(x, m)
      PROVE  MessageOK(x, m)'
  BY <1>1, <1>3, <1>8 DEF MessageOK, RebootNotice, Requests
<1>9. ASSUME NEW x \in Nodes PROVE NodeOK(x)'
  <2>1. CASE x = n
    BY <2>1
  <2>2. CASE x # n
    <3>1. /\ journal'[x] = journal[x] /\ pc'[x] = pc[x] /\ outcome'[x] = outcome[x]
          /\ request'[x] = request[x] /\ reply'[x] = reply[x]
          /\ fence'[x] = fence[x] /\ host'[x] = host[x] /\ Reached(x)' = Reached(x)
      BY <1>2, <2>2
    <3>2. /\ journal[x].job \in Jobs \cup {NoJob} /\ request[x] \in Requests
          /\ JournalOK(x) /\ NodeOK(x) /\ MessageOK(x, request[x])
      BY DEF IInv, TypeOK, NodeOK
    <3>3. journal[x].job # NoJob =>
            /\ receipts'[journal[x].job] = receipts[journal[x].job]
            /\ applied'[journal[x].job] = applied[journal[x].job]
      BY <1>3, <2>2, <3>2 DEF JournalOK
    <3>4. HostOK(x)' /\ ReplyOK(x)' /\ MessageOK(x, request[x])'
      BY <1>1, <1>8, <2>2, <3>1, <3>2 DEF NodeOK, HostOK, ReplyOK
    <3>5. SoleFence(x)'
      BY <3>1, <3>2 DEF NodeOK, SoleFence, OpenFence, Elsewhere
    <3>6. JournalOK(x)'
      BY <1>1, <3>1, <3>2, <3>3 DEF JournalOK
    <3>7. WorkerOK(x)'
      <4>1. pc[x] = "finishing" => DocOK(journal[x].job, outcome[x])'
        BY <1>5, <2>2, <3>1, <3>2 DEF NodeOK, WorkerOK, JournalOK
      <4> QED  BY <3>1, <3>2, <3>3, <4>1 DEF NodeOK, WorkerOK, JournalOK
    <3>8. ExchangeOK(x)'
      <4>1. request[x].mode = "result" =>
              receipts'[request[x].job] = receipts[request[x].job]
        BY <1>3, <2>2, <3>2 DEF MessageOK, Requests
      <4> QED  BY <1>1, <3>1, <3>2, <4>1 DEF NodeOK, ExchangeOK
    <3> QED  BY <3>1, <3>4, <3>5, <3>6, <3>7, <3>8 DEF NodeOK
  <2> QED  BY <2>1, <2>2
<1>10. ASSUME NEW k \in StepJobs PROVE FenceOK(k)'
  <2>1. CASE NodeOf(k) = n
    BY <2>1
  <2>2. CASE NodeOf(k) # n
    BY <1>2, <1>3, <1>4, <2>2, JobFacts DEF IInv, FenceOK, Uncertainty, Elsewhere
  <2> QED  BY <2>1, <2>2
<1>11. ASSUME NEW d \in late' PROVE MessageOK(d[1], d[2])'
  <2>1. d[1] \in Nodes /\ d[2] \in Requests /\ MessageOK(d[1], d[2])
    <3>1. CASE d \in late
      BY <3>1 DEF IInv, TypeOK
    <3>2. CASE d = <<n, request[n]>>
      BY <3>2 DEF IInv, TypeOK, NodeOK
    <3> QED  BY <3>1, <3>2 DEF Elsewhere
  <2> QED  BY <1>8, <2>1
<1>12. ProvenOnTheMachine'
  <2> SUFFICES ASSUME NEW k \in StepJobs, job[k].status = "succeeded"
               PROVE  OnMachine(k)'
    BY <1>1 DEF ProvenOnTheMachine, OnMachine, Reached
  <2>1. CASE NodeOf(k) = n
    BY <2>1
  <2>2. CASE NodeOf(k) # n
    BY <1>2, <1>3, <1>4, <2>2, JobFacts
       DEF IInv, ProvenOnTheMachine, OnMachine, Reached
  <2> QED  BY <2>1, <2>2
<1>13. NoReportRefused'
  BY <1>2 DEF IInv, NoReportRefused
<1> QED  BY <1>6, <1>7, <1>9, <1>10, <1>11, <1>12, <1>13 DEF IInv

\* Steps that neither save a receipt nor change the machine.
LEMMA LocalKeeps ==
  ASSUME IInv, NEW n \in Nodes, Elsewhere(n),
         UNCHANGED <<portalKept, receipts, applied, host>>, TypeOK',
         JournalOK(n)', WorkerOK(n)', ExchangeOK(n)', SoleFence(n)', ReplyOK(n)',
         MessageOK(n, request'[n]),
         \A j \in Jobs : NodeOf(j) = n => AppliedOK(j)',
         \A k \in StepJobs : NodeOf(k) = n => FenceOK(k)',
         pc'[n] \in {"reporting", "delivering"} => reply'[n] # Rejected
  PROVE  IInv'
<1>1. job' = job /\ plan' = plan
  BY DEF portalKept
<1>2. ASSUME NEW j \in Jobs, NEW doc, DocOK(j, doc)
      PROVE  DocOK(j, doc)'
  BY <1>1, <1>2 DEF DocOK, Reached, Fresh, Later
<1>3. \A m \in Requests : MessageOK(n, m) => MessageOK(n, m)'
  BY <1>1 DEF MessageOK, RebootNotice
<1>4. request'[n] \in Requests
  BY DEF TypeOK
<1>5. NodeOK(n)'
  BY <1>3, <1>4 DEF IInv, NodeOK, HostOK
<1>6. \A j \in Jobs : NodeOf(j) = n => RowOK(j)' /\ JobOK(j)'
  BY <1>1, <1>2 DEF IInv, PortalOK, RowOK, JobOK, ReceiptOK
<1>7. \A k \in StepJobs : job[k].status = "succeeded" => OnMachine(k)'
  BY DEF IInv, ProvenOnTheMachine, OnMachine, Reached
<1> QED  BY <1>3, <1>5, <1>6, <1>7, AgentKeeps

\* The parts of the state of the Agents that one step may change.
Journals ==
  [job : Jobs \cup {NoJob}, phase : {"none"} \cup Phases, before : Views]
Places ==
  {"idle", "reporting", "polling", "inspecting", "claiming", "intent", "applied",
   "finishing", "saving", "delivering"}
Moves(n) ==
  /\ journal' \in [Nodes -> Journals] /\ fence' \in [Nodes -> Jobs \cup {NoJob}]
  /\ releases' \subseteq Jobs /\ releases \subseteq releases' /\ torn' \subseteq Nodes
  /\ pc' \in [Nodes -> Places] /\ outcome' \in [Nodes -> Docs]
  /\ \A x \in Nodes \ {n} : /\ journal'[x] = journal[x] /\ fence'[x] = fence[x]
                            /\ pc'[x] = pc[x] /\ outcome'[x] = outcome[x]
Linked(n) ==
  /\ request' \in [Nodes -> Requests] /\ reply' \in [Nodes -> Replies]
  /\ late' \subseteq late \cup {<<n, request[n]>>}
  /\ unrest' \in 0 .. MaxUnrest
  /\ \A x \in Nodes \ {n} : request'[x] = request[x] /\ reply'[x] = reply[x]

LEMMA AgentTyped ==
  ASSUME TypeOK
  PROVE  /\ journal \in [Nodes -> Journals] /\ fence \in [Nodes -> Jobs \cup {NoJob}]
         /\ releases \subseteq Jobs /\ torn \subseteq Nodes
         /\ pc \in [Nodes -> Places] /\ outcome \in [Nodes -> Docs]
         /\ request \in [Nodes -> Requests] /\ reply \in [Nodes -> Replies]
         /\ unrest \in 0 .. MaxUnrest
BY DEF TypeOK, Journals, Places

LEMMA MovesTyped ==
  ASSUME TypeOK, NEW n \in Nodes, Moves(n), Linked(n), UNCHANGED portalKept,
         receipts' \in [Jobs -> Docs],
         applied' \in [Jobs -> [times : Nat, boot : Nat]],
         host' \in [Nodes -> [boot : Nat, pending : BOOLEAN, shutdown : BOOLEAN,
                              level : Levels, staged : Levels]],
         \A x \in Nodes \ {n} : host'[x] = host[x],
         \A j \in Jobs : NodeOf(j) # n => receipts'[j] = receipts[j] /\ applied'[j] = applied[j]
  PROVE  TypeOK' /\ Elsewhere(n)
<1>1. <<n, request[n]>> \in Nodes \X Requests
  BY DEF TypeOK
<1>2. late' \subseteq Nodes \X Requests
  BY <1>1 DEF TypeOK, Linked
<1>3. TypeOK'
  BY <1>2 DEF TypeOK, Moves, Linked, portalKept, Journals, Places
<1> QED  BY <1>3 DEF Elsewhere, Moves, Linked

LEMMA Sends ==
  ASSUME TypeOK, NEW n \in Nodes, NEW mode \in {"poll", "claim", "result"},
         NEW j \in Jobs \cup {NoJob}, NEW doc \in Docs, Send(n, mode, j, doc),
         UNCHANGED unrest
  PROVE  /\ Linked(n) /\ reply'[n] = NoReply
         /\ request'[n] = Message(mode, j, doc)
<1>1. Message(mode, j, doc) \in Requests /\ NoReply \in Replies
  BY DEF Message, Requests, NoReply, Answer, Replies
<1> QED  BY <1>1 DEF TypeOK, Send, Linked

LEMMA Closes ==
  ASSUME TypeOK, NEW n \in Nodes, Close(n),
         \/ UNCHANGED <<late, unrest>>
         \/ UNCHANGED late /\ Disturbed
         \/ Delay(n)
  PROVE  /\ Linked(n) /\ reply'[n] = NoReply /\ request'[n] = NoRequest
<1>1. NoRequest \in Requests /\ NoReply \in Replies
  BY DEF NoRequest, Message, Requests, NoReply, Answer, Replies, Docs
<1>2. unrest' \in 0 .. MaxUnrest
  BY HgsAssumption DEF TypeOK, Delay, Disturbed, HgsAssumption
<1> QED  BY <1>1, <1>2 DEF TypeOK, Close, Delay, Linked

LEMMA LinksStay ==
  ASSUME TypeOK, NEW n \in Nodes, UNCHANGED <<linkVars, unrest>>
  PROVE  Linked(n) /\ reply'[n] = reply[n] /\ request'[n] = request[n]
BY DEF TypeOK, linkVars, Linked

\* Nothing is waited for.
LEMMA Silences ==
  ASSUME IInv, NEW n \in Nodes, UNCHANGED portalKept, request'[n] = NoRequest,
         reply'[n] \in {reply[n], NoReply},
         pc'[n] \notin {"polling", "claiming", "reporting", "delivering"}
  PROVE  ExchangeOK(n)' /\ ReplyOK(n)' /\ MessageOK(n, request'[n])
<1>1. ExchangeOK(n)'
  BY DEF ExchangeOK
<1>2. ReplyOK(n)'
  BY DEF IInv, NodeOK, ReplyOK, NoReply, Answer, portalKept
<1>3. MessageOK(n, request'[n])
  BY DEF MessageOK, NoRequest, Message
<1> QED  BY <1>1, <1>2, <1>3

\* Something is.
LEMMA Speaks ==
  ASSUME IInv, NEW n \in Nodes, NEW mode, NEW j, NEW doc,
         request'[n] = Message(mode, j, doc), reply'[n] = NoReply,
         \/ pc'[n] = "polling" /\ mode = "poll"
         \/ pc'[n] = "claiming" /\ mode = "claim" /\ j = journal'[n].job /\ j # NoJob
         \/ /\ pc'[n] \in {"reporting", "delivering"} /\ mode = "result"
            /\ doc = receipts'[j] \/ receipts'[j] = NoDoc
  PROVE  ExchangeOK(n)' /\ ReplyOK(n)' /\ reply'[n] # Rejected
<1>1. /\ reply'[n].type = "none" /\ reply'[n].job = NoJob /\ reply'[n] # Rejected
      /\ request'[n].mode = mode /\ request'[n].job = j /\ request'[n].doc = doc
  BY DEF NoReply, Answer, Message, Rejected
<1>2. ExchangeOK(n)'
  BY <1>1 DEF ExchangeOK
<1>3. ReplyOK(n)'
  BY <1>1 DEF ReplyOK
<1> QED  BY <1>1, <1>2, <1>3

\* A worker outside an exchange has no request.
LEMMA Quiescent ==
  ASSUME IInv, NEW n \in Nodes,
         pc[n] \in {"idle", "inspecting", "intent", "applied", "finishing", "saving"}
  PROVE  request[n] = NoRequest
BY DEF IInv, NodeOK, ExchangeOK

\* Receipts stay, so do the fences that go with them.
LEMMA FenceStays ==
  ASSUME IInv, NEW n \in Nodes, UNCHANGED receipts, releases \subseteq releases',
         NEW k \in StepJobs, NodeOf(k) = n, fence'[n] = fence[n],
         \/ journal[n].job # k
         \/ pc[n] \notin {"idle", "saving"}
         \/ receipts[k] = NoDoc
         \/ journal'[n].job = journal[n].job /\ pc'[n] \in {"idle", "saving"}
  PROVE  FenceOK(k)'
BY DEF IInv, FenceOK, Uncertainty

LEMMA JournalStays ==
  ASSUME IInv, NEW n \in Nodes, UNCHANGED <<portalKept, receipts, applied, host>>,
         journal'[n] = journal[n], fence'[n] = fence[n], releases \subseteq releases'
  PROVE  /\ JournalOK(n)' /\ SoleFence(n)'
         /\ \A j \in Jobs : NodeOf(j) = n => AppliedOK(j)'
<1>1. JournalOK(n)'
  BY DEF IInv, NodeOK, JournalOK, portalKept, Reached
<1>2. SoleFence(n)'
  BY DEF IInv, NodeOK, SoleFence, OpenFence
<1>3. \A j \in Jobs : NodeOf(j) = n => AppliedOK(j)'
  BY DEF IInv, JobOK, AppliedOK, portalKept
<1> QED  BY <1>1, <1>2, <1>3

\* A worker comes to the end of its step, with a report that is true.
LEMMA Concludes ==
  ASSUME IInv, NEW n \in Nodes, NEW doc \in Reports, Conclude(n, doc),
         UNCHANGED <<portalKept, diskVars, host, applied>>,
         \/ /\ UNCHANGED <<linkVars, unrest>>
            /\ pc[n] \in {"idle", "inspecting", "intent", "applied"}
         \/ Abandon(n),
         journal[n].job # NoJob, receipts[journal[n].job] = NoDoc,
         DocOK(journal[n].job, doc)
  PROVE  IInv'
<1>1. TypeOK /\ doc \in Docs /\ doc # NoDoc
  BY HgsAssumption DEF IInv, Docs, HgsAssumption
<1>2. /\ Linked(n) /\ request'[n] = NoRequest /\ reply'[n] \in {reply[n], NoReply}
  <2>1. CASE Abandon(n)
    BY <1>1, <2>1, Closes DEF Abandon
  <2>2. CASE /\ UNCHANGED <<linkVars, unrest>>
             /\ pc[n] \in {"idle", "inspecting", "intent", "applied"}
    BY <1>1, <2>2, LinksStay, Quiescent
  <2> QED  BY <2>1, <2>2
<1>3. /\ Moves(n) /\ pc'[n] = "finishing" /\ outcome'[n] = doc
      /\ UNCHANGED <<journal, receipts, fence, releases, torn, host, applied>>
  BY <1>1, AgentTyped DEF Conclude, Goto, Moves, Places, diskVars
<1>4. TypeOK' /\ Elsewhere(n)
  BY <1>1, <1>2, <1>3, MovesTyped DEF TypeOK
<1>5. /\ JournalOK(n)' /\ SoleFence(n)'
      /\ \A j \in Jobs : NodeOf(j) = n => AppliedOK(j)'
  BY <1>3, JournalStays
<1>6. WorkerOK(n)'
  <2>1. DocOK(journal[n].job, doc)'
    BY <1>3 DEF DocOK, portalKept, Reached, Fresh, Later
  <2> QED  BY <1>1, <1>3, <2>1 DEF WorkerOK
<1>7. ExchangeOK(n)' /\ ReplyOK(n)' /\ MessageOK(n, request'[n])
  BY <1>2, <1>3, Silences
<1>8. \A k \in StepJobs : NodeOf(k) = n => FenceOK(k)'
  BY <1>3, FenceStays
<1> QED  BY <1>3, <1>4, <1>5, <1>6, <1>7, <1>8, LocalKeeps

-----------------------------------------------------------------------------
(* Reports that are true.                                                  *)

LEMMA Working ==
  ASSUME IInv, NEW j \in Jobs
  PROVE  /\ TypeOK /\ NodeOf(j) \in Nodes /\ Operation(j) \in Operations
         /\ AppliedOK(j) /\ applied[j].times \in Nat /\ applied[j].boot \in Nat
         /\ NoDoc \notin Observations /\ NoDoc \notin Reports
BY JobFacts, HgsAssumption DEF IInv, JobOK, TypeOK, HgsAssumption

LEMMA SeenFacts ==
  ASSUME IInv, NEW n \in Nodes
  PROVE  /\ See(n) \in Observations /\ See(n) # NoDoc
         /\ See(n).boot = host[n].boot /\ See(n).level = host[n].level
         /\ See(n).level <= Reached(n) /\ See(n).boot <= host[n].boot
         /\ \A seen \in MaySee(n) : seen = NoDoc \/ seen = See(n)
<1>1. /\ host[n].boot \in Nat /\ host[n].level \in Levels
      /\ host[n].pending \in BOOLEAN /\ Reached(n) \in Levels
      /\ Reached(n) >= host[n].level
  BY HostTyped DEF IInv
<1>2. See(n) \in Observations
  BY <1>1 DEF See, Observations
<1>3. See(n) # NoDoc
  BY <1>2, HgsAssumption DEF HgsAssumption
<1>4. See(n).boot = host[n].boot /\ See(n).level = host[n].level
  BY DEF See
<1> QED  BY <1>1, <1>2, <1>3, <1>4 DEF MaySee, Levels

\* What is seen now is seen after everything that was done.
LEMMA SeenFresh ==
  ASSUME IInv, NEW i \in Inspections, NEW doc, doc.seen = See(NodeOf(i))
  PROVE  Fresh(i, doc)
<1> SUFFICES ASSUME NEW k \in StepJobs, Later(i, k)
             PROVE  /\ doc.seen.boot >= applied[k].boot
                    /\ receipts[k] # NoDoc /\ receipts[k].seen # NoDoc =>
                         doc.seen.boot >= receipts[k].seen.boot
  BY DEF Fresh
<1> DEFINE n == NodeOf(k)
<1>1. k \in Jobs /\ n \in Nodes /\ NodeOf(i) = n /\ JobOK(k) /\ TypeOK
  BY JobFacts DEF Later, IInv
<1>2. doc.seen.boot = host[n].boot /\ host[n].boot \in Nat
  BY <1>1, SeenFacts, HostTyped
<1>3. applied[k].boot <= host[n].boot /\ applied[k].boot \in Nat
  BY <1>1 DEF JobOK, AppliedOK, TypeOK
<1>4. receipts[k] # NoDoc /\ receipts[k].seen # NoDoc =>
        receipts[k].seen.boot <= host[n].boot /\ receipts[k].seen.boot \in Nat
  <2>1. receipts[k] # NoDoc => receipts[k] \in Reports
    BY <1>1, RowTyped DEF Docs
  <2> QED  BY <1>1, <2>1 DEF JobOK, ReceiptOK, DocOK, Reports, Views, Observations
<1> QED  BY <1>2, <1>3, <1>4

LEMMA FailedOK ==
  ASSUME IInv, NEW j \in Jobs, job[j].status # "absent", applied[j].times = 0
  PROVE  Failed \in Reports /\ DocOK(j, Failed)
<1>1. /\ Failed \in Reports /\ Failed.status = "failed" /\ Failed.unclaimed = TRUE
      /\ Failed.seen = NoDoc
  BY DEF Failed, Doc, Reports, Views
<1> QED  BY <1>1 DEF DocOK, NotExecuted

LEMMA DisprovedOK ==
  ASSUME IInv, NEW j \in Jobs, job[j].status # "absent", applied[j].times = 0,
         job[j].claimed
  PROVE  Disproved \in Reports /\ DocOK(j, Disproved)
<1>1. /\ Disproved \in Reports /\ Disproved.status = "failed" /\ Disproved.seen = NoDoc
  BY DEF Disproved, Doc, Reports, Views
<1> QED  BY <1>1 DEF DocOK

LEMMA UncertainOK ==
  ASSUME IInv, NEW j \in Jobs, job[j].status # "absent", job[j].claimed, ~ReadOnly(j),
         NEW seen \in MaySee(NodeOf(j))
  PROVE  Uncertain(j, seen) \in Reports /\ DocOK(j, Uncertain(j, seen))
<1> DEFINE doc == Uncertain(j, seen)
<1>1. TypeOK /\ NodeOf(j) \in Nodes /\ AppliedOK(j)
  BY Working
<1>2. /\ seen \in Views
      /\ seen # NoDoc => seen = See(NodeOf(j))
  BY <1>1, SeenFacts DEF Views
<1>3. /\ doc \in Reports /\ doc.status = "reconciliation_required"
      /\ doc.seen \in {NoDoc, seen}
  BY <1>2 DEF Uncertain, Doc, Reports, Views
<1>4. j \notin Inspections
  BY DEF ReadOnly, Operation
<1> HIDE DEF doc
<1>5. doc.seen # NoDoc =>
        /\ doc.seen.boot = host[NodeOf(j)].boot
        /\ doc.seen.boot <= host[NodeOf(j)].boot
        /\ doc.seen.level <= Reached(NodeOf(j))
  BY <1>1, <1>2, <1>3, SeenFacts
<1>6. applied[j].boot <= host[NodeOf(j)].boot
  BY <1>1 DEF AppliedOK
<1>7. doc.seen # NoDoc => doc.seen.boot >= applied[j].boot
  BY <1>1, <1>5, <1>6, HostTyped, Working
<1>8. DocOK(j, doc)
  BY <1>3, <1>4, <1>5, <1>7 DEF DocOK
<1> QED  BY <1>3, <1>8 DEF doc

LEMMA SucceededOK ==
  ASSUME IInv, NEW j \in Jobs, job[j].status # "absent", job[j].claimed,
         NEW seen \in Observations, Proves(Operation(j), seen),
         seen.boot <= host[NodeOf(j)].boot, seen.level <= Reached(NodeOf(j)),
         Operation(j) = "reboot" => seen.boot >= applied[j].boot,
         Operation(j) = "reboot" /\ applied[j].times > 0 => seen.boot > applied[j].boot,
         j \in Inspections => seen = See(NodeOf(j))
  PROVE  Succeeded(seen) \in Reports /\ DocOK(j, Succeeded(seen))
<1> DEFINE doc == Succeeded(seen)
<1>1. /\ doc \in Reports /\ doc.status = "succeeded" /\ doc.seen = seen /\ seen # NoDoc
  BY HgsAssumption DEF Succeeded, Doc, Reports, Views, HgsAssumption
<1> HIDE DEF doc
<1>2. j \in Inspections => Fresh(j, doc)
  BY <1>1, SeenFresh
<1>3. DocOK(j, doc)
  BY <1>1, <1>2 DEF DocOK
<1> QED  BY <1>1, <1>3 DEF doc

LEMMA RebootRequiredOK ==
  ASSUME IInv, NEW j \in Jobs, job[j].status # "absent", job[j].claimed,
         Operation(j) \in {"install_role", "promote"},
         Reached(NodeOf(j)) >= Target(Operation(j))
  PROVE  LET doc == RebootRequired(See(NodeOf(j)))
         IN  doc \in Reports /\ DocOK(j, doc)
<1> DEFINE seen == See(NodeOf(j)) doc == RebootRequired(seen)
<1>1. NodeOf(j) \in Nodes /\ j \notin Inspections
  BY Working DEF Operation
<1>2. /\ seen \in Observations /\ seen.boot <= host[NodeOf(j)].boot
      /\ seen.level <= Reached(NodeOf(j))
  BY <1>1, SeenFacts
<1>3. /\ doc \in Reports /\ doc.status = "reboot_required" /\ doc.seen = seen
  BY <1>2 DEF RebootRequired, Doc, Reports, Views
<1> HIDE DEF doc, seen
<1>4. DocOK(j, doc)
  BY <1>1, <1>2, <1>3 DEF DocOK
<1> QED  BY <1>3, <1>4 DEF doc, seen

\* What a worker has at hand.
LEMMA WorkFacts ==
  ASSUME IInv, NEW n \in Nodes,
         pc[n] \in {"inspecting", "claiming", "intent", "applied", "finishing"}
  PROVE  LET j == journal[n].job IN
         /\ j # NoJob /\ j \in Jobs /\ NodeOf(j) = n
         /\ job[j].status # "absent" /\ receipts[j] = NoDoc
         /\ pc[n] \in {"inspecting", "claiming", "intent"} => applied[j].times = 0
         /\ pc[n] \in {"intent", "applied"} =>
              /\ job[j].claimed
              /\ journal[n].before \in Observations
              /\ journal[n].before.boot <= host[n].boot
              /\ journal[n].before.level <= Reached(n)
              /\ applied[j].times > 0 => applied[j].boot = journal[n].before.boot
<1> DEFINE j == journal[n].job
<1>1. journal[n] \in Journals /\ TypeOK
  BY AgentTyped DEF IInv
<1>2. j # NoJob /\ receipts[j] = NoDoc
  BY DEF IInv, NodeOK, WorkerOK
<1>3. j \in Jobs
  BY <1>1, <1>2 DEF Journals
<1>4. NodeOf(j) = n /\ job[j].status # "absent"
  BY <1>2 DEF IInv, NodeOK, JournalOK
<1>5. pc[n] \in {"inspecting", "claiming", "intent"} => applied[j].times = 0
  BY DEF IInv, NodeOK, WorkerOK, JournalOK
<1>6. pc[n] \in {"intent", "applied"} =>
        /\ job[j].claimed
        /\ journal[n].before # NoDoc /\ journal[n].before.boot <= host[n].boot
        /\ journal[n].before.level <= Reached(n)
        /\ applied[j].times > 0 => applied[j].boot = journal[n].before.boot
  BY DEF IInv, NodeOK, WorkerOK, JournalOK
<1>7. journal[n].before # NoDoc => journal[n].before \in Observations
  BY <1>1 DEF Journals, Views
<1> QED  BY <1>2, <1>3, <1>4, <1>5, <1>6, <1>7

LEMMA ShownOK ==
  ASSUME IInv, NEW j \in Jobs, job[j].status # "absent", job[j].claimed,
         NEW before, Shows(j, before, See(NodeOf(j))),
         applied[j].times > 0 => applied[j].boot = before.boot
  PROVE  LET doc == Succeeded(See(NodeOf(j))) IN doc \in Reports /\ DocOK(j, doc)
<1> DEFINE n == NodeOf(j) seen == See(n)
<1>1. /\ n \in Nodes /\ TypeOK /\ AppliedOK(j)
      /\ applied[j].times \in Nat /\ applied[j].boot \in Nat
  BY Working
<1>2. /\ seen \in Observations /\ seen.boot = host[n].boot
      /\ seen.boot <= host[n].boot /\ seen.level <= Reached(n) /\ host[n].boot \in Nat
  BY <1>1, SeenFacts, HostTyped
<1>3. /\ Proves(Operation(j), seen)
      /\ Operation(j) = "reboot" => seen.boot # before.boot
  BY DEF Shows
<1>4. seen.boot >= applied[j].boot
  BY <1>1, <1>2 DEF AppliedOK
<1>5. Operation(j) = "reboot" /\ applied[j].times > 0 => seen.boot > applied[j].boot
  BY <1>1, <1>2, <1>3, <1>4
<1> HIDE DEF seen
<1>6. seen = See(NodeOf(j))
  BY DEF seen
<1> QED  BY <1>2, <1>3, <1>4, <1>5, <1>6, SucceededOK

LEMMA PreflightFailsKeeps ==
  ASSUME IInv, NEW n \in Nodes, PreflightFails(n)
  PROVE  IInv'
<1>1. Failed \in Reports /\ DocOK(journal[n].job, Failed)
  BY WorkFacts, FailedOK DEF PreflightFails
<1> QED  BY <1>1, WorkFacts, Concludes
         DEF PreflightFails, portalVars, authorityVars, portalKept

LEMMA AuthorityLostKeeps ==
  ASSUME IInv, NEW n \in Nodes, AuthorityLost(n)
  PROVE  IInv'
<1>1. Failed \in Reports /\ DocOK(journal[n].job, Failed)
  BY WorkFacts, FailedOK DEF AuthorityLost
<1> QED  BY <1>1, WorkFacts, Concludes
         DEF AuthorityLost, portalVars, authorityVars, portalKept

LEMMA ClaimFailsKeeps ==
  ASSUME IInv, NEW n \in Nodes, ClaimFails(n)
  PROVE  IInv'
<1>1. Failed \in Reports /\ DocOK(journal[n].job, Failed)
  BY WorkFacts, FailedOK DEF ClaimFails
<1> QED  BY <1>1, WorkFacts, Concludes DEF ClaimFails

LEMMA ObserveKeeps ==
  ASSUME IInv, NEW n \in Nodes, NEW seen \in MaySee(n), Observe(n, seen)
  PROVE  IInv'
<1> DEFINE j == journal[n].job before == journal[n].before
<1>1. /\ pc[n] = "intent" /\ ReadOnly(j)
      /\ UNCHANGED <<portalVars, diskVars, host, applied>>
  BY DEF Observe
<1>2. /\ j \in Jobs /\ j # NoJob /\ NodeOf(j) = n /\ job[j].status # "absent"
      /\ job[j].claimed /\ receipts[j] = NoDoc /\ applied[j].times = 0
  BY <1>1, WorkFacts
<1>3. \E doc \in Reports : Conclude(n, doc) /\ DocOK(j, doc)
  <2>1. CASE Conclude(n, Failed)
    BY <1>2, <2>1, FailedOK
  <2>2. CASE Conclude(n, Disproved)
    BY <1>2, <2>2, DisprovedOK
  <2>3. CASE seen # NoDoc /\ Shows(j, before, seen) /\ Conclude(n, Succeeded(seen))
    <3>1. seen = See(NodeOf(j))
      BY <1>2, <2>3, SeenFacts
    <3>2. Succeeded(seen) \in Reports /\ DocOK(j, Succeeded(seen))
      BY <1>2, <2>3, <3>1, ShownOK
    <3> QED  BY <2>3, <3>2
  <2> QED  BY <2>1, <2>2, <2>3 DEF Observe
<1> QED  BY <1>1, <1>2, <1>3, Concludes DEF portalVars, authorityVars, portalKept

LEMMA NothingToDoKeeps ==
  ASSUME IInv, NEW n \in Nodes, NothingToDo(n)
  PROVE  IInv'
<1> DEFINE j == journal[n].job before == journal[n].before
<1>1. /\ pc[n] = "intent" /\ ~ReadOnly(j) /\ AlreadyDone(j, before)
      /\ Conclude(n, Succeeded(before))
      /\ UNCHANGED <<portalVars, diskVars, host, applied>>
  BY DEF NothingToDo
<1>2. /\ j \in Jobs /\ j # NoJob /\ NodeOf(j) = n /\ job[j].status # "absent"
      /\ job[j].claimed /\ receipts[j] = NoDoc /\ applied[j].times = 0
      /\ before \in Observations /\ before.boot <= host[n].boot
      /\ before.level <= Reached(n)
  BY <1>1, WorkFacts
<1>3. /\ Proves(Operation(j), before) /\ j \notin Inspections
  <2>1. Operation(j) = "reboot" => Proves(Operation(j), before)
    BY <1>1 DEF AlreadyDone, Proves
  <2>2. Operation(j) # "reboot" => Proves(Operation(j), before)
    BY <1>1 DEF AlreadyDone
  <2> QED  BY <1>1, <2>1, <2>2 DEF ReadOnly, Operation
<1>4. before.boot >= applied[j].boot
  <2>1. applied[j].boot = 0
    BY <1>2, Working DEF AppliedOK
  <2> QED  BY <1>2, <2>1 DEF Observations
<1>5. Succeeded(before) \in Reports /\ DocOK(j, Succeeded(before))
  BY <1>2, <1>3, <1>4, SucceededOK
<1> QED  BY <1>1, <1>2, <1>5, Concludes DEF portalVars, authorityVars, portalKept

LEMMA ApplyFailsKeeps ==
  ASSUME IInv, NEW n \in Nodes, ApplyFails(n)
  PROVE  IInv'
<1> DEFINE j == journal[n].job
<1>1. /\ pc[n] = "intent" /\ ~ReadOnly(j) /\ Conclude(n, Uncertain(j, NoDoc))
      /\ UNCHANGED <<portalVars, diskVars, host, applied>>
  BY DEF ApplyFails
<1>2. /\ j \in Jobs /\ j # NoJob /\ NodeOf(j) = n /\ job[j].status # "absent"
      /\ job[j].claimed /\ receipts[j] = NoDoc
  BY <1>1, WorkFacts
<1>3. Uncertain(j, NoDoc) \in Reports /\ DocOK(j, Uncertain(j, NoDoc))
  BY <1>1, <1>2, UncertainOK DEF MaySee
<1> QED  BY <1>1, <1>2, <1>3, Concludes DEF portalVars, authorityVars, portalKept

LEMMA InspectAfterKeeps ==
  ASSUME IInv, NEW n \in Nodes, NEW seen \in MaySee(n), InspectAfter(n, seen)
  PROVE  IInv'
<1> DEFINE j == journal[n].job before == journal[n].before
           doc == Applied(j, before, seen)
<1>1. /\ pc[n] = "applied" /\ Operation(j) # "reboot" /\ Conclude(n, doc)
      /\ UNCHANGED <<portalVars, diskVars, host, applied>>
  BY DEF InspectAfter
<1>2. /\ j \in Jobs /\ j # NoJob /\ NodeOf(j) = n /\ job[j].status # "absent"
      /\ job[j].claimed /\ receipts[j] = NoDoc
      /\ applied[j].times > 0 => applied[j].boot = before.boot
  BY <1>1, WorkFacts
<1>3. applied[j].times > 0 /\ Reached(n) >= Target(Operation(j))
  BY <1>1 DEF IInv, NodeOK, WorkerOK
<1>4. ~ReadOnly(j)
  BY <1>2, <1>3, Working DEF AppliedOK
<1>5. doc \in Reports /\ DocOK(j, doc)
  <2>1. CASE doc = Uncertain(j, NoDoc) \/ doc = Uncertain(j, seen)
    BY <1>2, <1>4, <2>1, UncertainOK DEF MaySee
  <2>2. CASE /\ seen # NoDoc /\ Operation(j) \in {"install_role", "promote"}
             /\ doc = RebootRequired(seen)
    BY <1>2, <1>3, <2>2, SeenFacts, RebootRequiredOK
  <2>3. CASE seen # NoDoc /\ Shows(j, before, seen) /\ doc = Succeeded(seen)
    BY <1>2, <2>3, SeenFacts, ShownOK
  <2> QED  BY <2>1, <2>2, <2>3 DEF Applied
<1> HIDE DEF doc
<1> QED  BY <1>1, <1>2, <1>5, Concludes DEF portalVars, authorityVars, portalKept

\* What is recovered of an interrupted step is true of it.
LEMMA RecoveredOK ==
  ASSUME IInv, NEW n \in Nodes, journal[n].job # NoJob,
         receipts[journal[n].job] = NoDoc, NEW seen \in MaySee(n)
  PROVE  LET j == journal[n].job
             doc == Recovered(n, j, journal[n].before, seen)
         IN  j \in Jobs /\ doc \in Reports /\ DocOK(j, doc)
<1> DEFINE j == journal[n].job before == journal[n].before phase == journal[n].phase
           doc == Recovered(n, j, before, seen)
<1>1. /\ journal[n] \in Journals /\ j \in Jobs /\ JournalOK(n)
  BY AgentTyped DEF IInv, Journals, NodeOK
<1>2. /\ NodeOf(j) = n /\ job[j].status # "absent"
      /\ phase \in {"prepared", "claiming", "intent", "reboot_wait"}
  BY <1>1 DEF JournalOK, Journals, Phases
<1>3. CASE phase \in {"prepared", "claiming"}
  <2>1. applied[j].times = 0 /\ doc = Failed
    BY <1>1, <1>3 DEF JournalOK, Recovered
  <2> QED  BY <1>1, <1>2, <2>1, FailedOK
<1>4. CASE phase \in {"intent", "reboot_wait"}
  <2>1. job[j].claimed /\ (applied[j].times > 0 => applied[j].boot = before.boot)
    BY <1>1, <1>4 DEF JournalOK
  <2>2. ReadOnly(j) => applied[j].times = 0
    BY <1>1, Working DEF AppliedOK
  <2>3. seen # NoDoc => seen = See(NodeOf(j)) /\ See(NodeOf(j)).level <= Reached(n)
                        /\ See(NodeOf(j)).level \in 0 .. 3
    BY <1>2, SeenFacts DEF Observations, Levels
  <2>4. doc \in {Failed, Disproved} => ReadOnly(j)
    BY <1>4 DEF Recovered, Uncertain, Doc, Failed, Disproved, RebootRequired, Succeeded
  <2>5. CASE doc = Failed \/ doc = Disproved
    BY <1>1, <1>2, <2>1, <2>2, <2>4, <2>5, FailedOK, DisprovedOK
  <2>6. CASE ~ReadOnly(j) /\ (doc = Uncertain(j, NoDoc) \/ doc = Uncertain(j, seen))
    BY <1>1, <1>2, <2>1, <2>6, UncertainOK DEF MaySee
  <2>7. CASE seen # NoDoc /\ Shows(j, before, seen) /\ doc = Succeeded(seen)
    BY <1>1, <1>2, <2>1, <2>3, <2>7, ShownOK
  <2>8. CASE /\ seen # NoDoc /\ Shows(j, before, seen) /\ seen.pending /\ ~ReadOnly(j)
             /\ doc = RebootRequired(seen)
    <3>1. Proves(Operation(j), seen) /\ Operation(j) \in Operations
      BY <1>1, <2>8, Working DEF Shows
    <3>2. Operation(j) \in {"install_role", "promote"}
      BY <2>8, <3>1 DEF Proves, ReadOnly, Operations
    <3>3. seen.level >= Target(Operation(j)) /\ Target(Operation(j)) \in 0 .. 3
      BY <3>1, <3>2 DEF Proves, Target
    <3>4. Reached(n) >= Target(Operation(j))
      BY <2>3, <2>8, <3>3, HostTyped DEF IInv, Levels
    <3> QED  BY <1>1, <1>2, <2>1, <2>3, <2>8, <3>2, <3>4, RebootRequiredOK
  <2> QED  BY <1>4, <2>5, <2>6, <2>7, <2>8 DEF Recovered
<1> QED  BY <1>2, <1>3, <1>4

-----------------------------------------------------------------------------
(* The steps of the Agents.                                                *)

\* A report is sent that is the receipt, or tells of a restart.
LEMMA SpeaksResult ==
  ASSUME IInv, NEW n \in Nodes, NEW j \in Jobs, NodeOf(j) = n,
         job[j].status # "absent", NEW doc \in Reports,
         doc = receipts[j] \/ RebootNotice(j, doc)
  PROVE  MessageOK(n, Message("result", j, doc))
<1>1. doc # NoDoc /\ j # NoJob
  BY HgsAssumption, JobFacts DEF HgsAssumption
<1> QED  BY <1>1 DEF MessageOK, Message

LEMMA RecoverKeeps ==
  ASSUME IInv, NEW n \in Nodes, NEW seen \in MaySee(n), Recover(n, seen)
  PROVE  IInv'
<1> DEFINE j == journal[n].job before == journal[n].before
           doc == Recovered(n, j, before, seen)
<1>1. /\ pc[n] = "idle" /\ j # NoJob /\ receipts[j] = NoDoc
      /\ UNCHANGED <<portalRows, diskVars, host, applied>>
  BY DEF Recover
<1>2. j \in Jobs /\ doc \in Reports /\ DocOK(j, doc)
  BY <1>1, RecoveredOK
<1>3. CASE Conclude(n, doc) /\ UNCHANGED linkVars
  BY <1>1, <1>2, <1>3, Concludes DEF portalRows
<1>4. CASE /\ journal[n].phase = "reboot_wait" /\ seen # NoDoc
           /\ seen.boot = before.boot
           /\ Send(n, "result", j, RebootRequired(seen))
           /\ Goto(n, "delivering")
           /\ UNCHANGED outcome
  <2> DEFINE notice == RebootRequired(seen)
  <2>1. /\ TypeOK /\ NodeOf(j) = n /\ job[j].status # "absent" /\ JournalOK(n)
    BY <1>1 DEF IInv, NodeOK, JournalOK
  <2>2. /\ seen \in Observations
    BY <1>4, SeenFacts
  <2>3. /\ notice \in Reports /\ notice.status = "reboot_required" /\ notice.seen = seen
    BY <2>2 DEF RebootRequired, Doc, Reports, Views
  <2>4. RebootNotice(j, notice)
    BY <1>4, <2>1, <2>3 DEF RebootNotice, JournalOK
  <2> HIDE DEF notice
  <2>5. Send(n, "result", j, notice) /\ pc' = [pc EXCEPT ![n] = "delivering"]
    BY <1>4 DEF notice, Goto
  <2>6. Linked(n) /\ reply'[n] = NoReply /\ request'[n] = Message("result", j, notice)
    BY <1>1, <1>2, <2>1, <2>3, <2>5, Sends DEF Docs, portalRows
  <2>7. /\ Moves(n) /\ pc'[n] = "delivering" /\ UNCHANGED portalKept
        /\ UNCHANGED <<journal, receipts, fence, releases, torn, host, applied, outcome>>
    BY <1>1, <1>4, <2>1, <2>5, AgentTyped DEF Moves, Places, diskVars, portalRows
  <2>8. TypeOK' /\ Elsewhere(n)
    BY <2>1, <2>6, <2>7, MovesTyped DEF TypeOK
  <2>9. /\ JournalOK(n)' /\ SoleFence(n)'
        /\ \A i \in Jobs : NodeOf(i) = n => AppliedOK(i)'
    BY <2>7, JournalStays
  <2>10. WorkerOK(n)'
    BY <2>7 DEF WorkerOK
  <2>11. ExchangeOK(n)' /\ ReplyOK(n)' /\ reply'[n] # Rejected
    BY <1>1, <2>6, <2>7, Speaks
  <2>12. MessageOK(n, request'[n])
    BY <1>2, <2>1, <2>3, <2>4, <2>6, SpeaksResult
  <2>13. \A k \in StepJobs : NodeOf(k) = n => FenceOK(k)'
    BY <1>1, <2>7, FenceStays
  <2> QED  BY <2>7, <2>8, <2>9, <2>10, <2>11, <2>12, <2>13, LocalKeeps
<1> QED  BY <1>3, <1>4 DEF Recover

\* An exchange is over, or was never begun, and the cycle with it.
LEMMA Stops ==
  ASSUME IInv, NEW n \in Nodes, pc' = [pc EXCEPT ![n] = "idle"],
         Close(n), UNCHANGED <<late, unrest>> \/ (UNCHANGED late /\ Disturbed) \/ Delay(n),
         outcome' \in {outcome, [outcome EXCEPT ![n] = NoDoc]},
         torn' \subseteq Nodes,
         UNCHANGED <<portalKept, journal, receipts, fence, releases, host, applied>>
  PROVE  IInv'
<1>1. TypeOK
  BY DEF IInv
<1>2. Linked(n) /\ reply'[n] = NoReply /\ request'[n] = NoRequest
  BY <1>1, Closes
<1>3. Moves(n) /\ pc'[n] = "idle"
  BY <1>1, AgentTyped DEF Moves, Places, Docs
<1>4. TypeOK' /\ Elsewhere(n)
  BY <1>1, <1>2, <1>3, MovesTyped DEF TypeOK
<1>5. /\ JournalOK(n)' /\ SoleFence(n)'
      /\ \A j \in Jobs : NodeOf(j) = n => AppliedOK(j)'
  BY JournalStays
<1>6. WorkerOK(n)'
  BY <1>3 DEF WorkerOK
<1>7. ExchangeOK(n)' /\ ReplyOK(n)' /\ MessageOK(n, request'[n])
  BY <1>2, <1>3, Silences
<1>8. \A k \in StepJobs : NodeOf(k) = n => FenceOK(k)'
  BY <1>3, FenceStays
<1> QED  BY <1>3, <1>4, <1>5, <1>6, <1>7, <1>8, LocalKeeps

LEMMA RefusalKeeps ==
  ASSUME IInv, NEW n \in Nodes, Refusal(n)
  PROVE  IInv'
<1>1. torn \subseteq Nodes
  BY DEF IInv, TypeOK
<1> QED  BY <1>1, Stops DEF Refusal, Goto, portalRows, diskVars

LEMMA HangUpKeeps ==
  ASSUME IInv, NEW n \in Nodes, HangUp(n)
  PROVE  IInv'
<1>1. torn \subseteq Nodes
  BY DEF IInv, TypeOK
<1> QED  BY <1>1, Stops DEF HangUp, Abandon, Goto, portalKept, diskVars

LEMMA CrashKeeps ==
  ASSUME IInv, NEW n \in Nodes, Crash(n)
  PROVE  IInv'
<1>1. torn \subseteq Nodes
  BY DEF IInv, TypeOK
<1> QED  BY <1>1, Stops DEF Crash, Stop, Abandon, Goto

LEMMA ReportedKeeps ==
  ASSUME IInv, NEW n \in Nodes, Reported(n)
  PROVE  IInv'
<1>1. TypeOK /\ torn \subseteq Nodes /\ UNCHANGED <<portalRows, diskVars, outcome, host, applied>>
  BY DEF IInv, TypeOK, Reported
<1>2. CASE pc[n] = "delivering" /\ Close(n) /\ UNCHANGED late /\ Goto(n, "idle")
  BY <1>1, <1>2, Stops DEF Goto, portalRows, diskVars
<1>3. CASE /\ pc[n] = "reporting" /\ Send(n, "poll", NoJob, NoDoc)
           /\ Goto(n, "polling")
  <2>1. Linked(n) /\ reply'[n] = NoReply /\ request'[n] = Message("poll", NoJob, NoDoc)
    BY <1>1, <1>3, Sends DEF Docs, portalRows
  <2>2. /\ Moves(n) /\ pc'[n] = "polling" /\ UNCHANGED portalKept
        /\ UNCHANGED <<journal, receipts, fence, releases, torn, host, applied, outcome>>
    BY <1>1, <1>3, AgentTyped DEF Moves, Places, diskVars, portalRows, Goto
  <2>3. TypeOK' /\ Elsewhere(n)
    BY <1>1, <2>1, <2>2, MovesTyped DEF TypeOK
  <2>4. /\ JournalOK(n)' /\ SoleFence(n)'
        /\ \A i \in Jobs : NodeOf(i) = n => AppliedOK(i)'
    BY <2>2, JournalStays
  <2>5. WorkerOK(n)'
    BY <1>3, <2>2 DEF IInv, NodeOK, WorkerOK
  <2>6. ExchangeOK(n)' /\ ReplyOK(n)' /\ reply'[n] # Rejected
    BY <2>1, <2>2, Speaks
  <2>7. MessageOK(n, request'[n])
    BY <2>1 DEF MessageOK, Message
  <2>8. \A k \in StepJobs : NodeOf(k) = n => FenceOK(k)'
    BY <1>3, <2>2, FenceStays
  <2> QED  BY <2>2, <2>3, <2>4, <2>5, <2>6, <2>7, <2>8, LocalKeeps
<1> QED  BY <1>2, <1>3 DEF Reported

LEMMA BeginCycleKeeps ==
  ASSUME IInv, NEW n \in Nodes, BeginCycle(n)
  PROVE  IInv'
<1> DEFINE j == journal[n].job
<1>1. /\ TypeOK /\ pc[n] = "idle" /\ journal[n] \in Journals
      /\ UNCHANGED <<portalKept, unrest, receipts, releases, torn, outcome, host, applied>>
  BY AgentTyped DEF IInv, BeginCycle, portalRows
<1>2. CASE /\ j = NoJob /\ Send(n, "poll", NoJob, NoDoc) /\ Goto(n, "polling")
           /\ UNCHANGED <<journal, fence>>
  <2>1. Linked(n) /\ reply'[n] = NoReply /\ request'[n] = Message("poll", NoJob, NoDoc)
    BY <1>1, <1>2, Sends DEF Docs
  <2>2. Moves(n) /\ pc'[n] = "polling"
    BY <1>1, <1>2, AgentTyped DEF Moves, Places, Goto
  <2>3. TypeOK' /\ Elsewhere(n)
    BY <1>1, <2>1, <2>2, MovesTyped DEF TypeOK
  <2>4. /\ JournalOK(n)' /\ SoleFence(n)'
        /\ \A i \in Jobs : NodeOf(i) = n => AppliedOK(i)'
    BY <1>1, <1>2, JournalStays
  <2>5. WorkerOK(n)'
    BY <1>2, <2>2 DEF WorkerOK
  <2>6. ExchangeOK(n)' /\ ReplyOK(n)' /\ reply'[n] # Rejected
    BY <2>1, <2>2, Speaks
  <2>7. MessageOK(n, request'[n])
    BY <2>1 DEF MessageOK, Message
  <2>8. \A k \in StepJobs : NodeOf(k) = n => FenceOK(k)'
    BY <1>1, <1>2, FenceStays, JobFacts
  <2> QED  BY <1>1, <2>2, <2>3, <2>4, <2>5, <2>6, <2>7, <2>8, LocalKeeps
<1>3. CASE /\ j # NoJob /\ receipts[j] # NoDoc
           /\ IF receipts[j].status = "reconciliation_required"
              THEN /\ n \notin torn
                   /\ fence' = [fence EXCEPT ![n] = j]
                   /\ journal' = [journal EXCEPT ![n].phase = "terminal"]
              ELSE UNCHANGED <<journal, fence>>
           /\ Send(n, "result", j, receipts[j])
           /\ Goto(n, "reporting")
  <2>1. /\ j \in Jobs /\ NodeOf(j) = n /\ job[j].status # "absent"
        /\ receipts[j] \in Reports /\ receipts[j] \in Docs
    BY <1>1, <1>3, RowTyped DEF Journals, Docs, IInv, NodeOK, JournalOK
  <2>2. /\ Linked(n) /\ reply'[n] = NoReply
        /\ request'[n] = Message("result", j, receipts[j])
    BY <1>1, <1>3, <2>1, Sends
  <2>3. /\ journal' \in [Nodes -> Journals] /\ fence' \in [Nodes -> Jobs \cup {NoJob}]
        /\ \A x \in Nodes \ {n} : journal'[x] = journal[x] /\ fence'[x] = fence[x]
        /\ journal'[n].job = j
        /\ \/ journal'[n] = journal[n] /\ fence'[n] = fence[n]
              /\ ~Uncertainty(j)
           \/ /\ journal'[n].phase = "terminal" /\ journal'[n].before = journal[n].before
              /\ fence'[n] = j
    <3>1. journal \in [Nodes -> Journals] /\ fence \in [Nodes -> Jobs \cup {NoJob}]
      BY <1>1, AgentTyped
    <3>2. CASE UNCHANGED <<journal, fence>> /\ ~Uncertainty(j)
      BY <3>1, <3>2
    <3>3. CASE /\ fence' = [fence EXCEPT ![n] = j]
               /\ journal' = [journal EXCEPT ![n].phase = "terminal"]
      <4> DEFINE e == [journal[n] EXCEPT !.phase = "terminal"]
      <4>1. /\ e \in Journals /\ e.job = j /\ e.phase = "terminal"
            /\ e.before = journal[n].before
        BY <1>1 DEF Journals, Phases
      <4>2. journal' = [journal EXCEPT ![n] = e]
        BY <3>3
      <4> HIDE DEF e
      <4> QED  BY <2>1, <3>1, <3>3, <4>1, <4>2
    <3> QED  BY <1>3, <3>2, <3>3 DEF Uncertainty
  <2>4. Moves(n) /\ pc'[n] = "reporting"
    BY <1>1, <1>3, <2>3, AgentTyped DEF Moves, Places, Goto
  <2>5. TypeOK' /\ Elsewhere(n)
    BY <1>1, <2>2, <2>4, MovesTyped DEF TypeOK
  <2>6. JournalOK(n)'
    <3>1. /\ UNCHANGED <<job, host, applied, receipts>>
          /\ JournalOK(n) /\ j # NoJob
      BY <1>1, <1>3 DEF IInv, NodeOK, portalKept
    <3>2. CASE journal'[n] = journal[n]
      BY <3>1, <3>2 DEF JournalOK, Reached
    <3>3. CASE journal'[n].phase = "terminal"
      BY <1>3, <2>1, <2>3, <3>1, <3>3 DEF JournalOK
    <3> QED  BY <2>3, <3>2, <3>3
  <2>7. \A i \in Jobs : NodeOf(i) = n => AppliedOK(i)'
    <3> SUFFICES ASSUME NEW i \in Jobs, NodeOf(i) = n PROVE AppliedOK(i)'
      OBVIOUS
    <3>1. applied[i].times > 0 /\ receipts[i] = NoDoc => journal[n].job = i
      BY DEF IInv, JobOK, AppliedOK
    <3> QED  BY <1>1, <1>3, <3>1 DEF IInv, JobOK, AppliedOK, portalKept
  <2>8. SoleFence(n)'
    BY <1>1, <2>1, <2>3 DEF IInv, NodeOK, SoleFence, OpenFence
  <2>9. WorkerOK(n)'
    BY <1>1, <1>3, <2>3, <2>4 DEF WorkerOK
  <2>10. ExchangeOK(n)' /\ ReplyOK(n)' /\ reply'[n] # Rejected
    BY <1>1, <2>2, <2>4, Speaks
  <2>11. MessageOK(n, request'[n])
    BY <2>1, <2>2, SpeaksResult
  <2>12. \A k \in StepJobs : NodeOf(k) = n => FenceOK(k)'
    <3> SUFFICES ASSUME NEW k \in StepJobs, NodeOf(k) = n, Uncertainty(k), k \notin releases
                 PROVE  fence'[n] = k
      BY <1>1 DEF FenceOK, Uncertainty
    <3>1. CASE k = j
      BY <2>3, <3>1
    <3>2. CASE k # j
      <4>1. fence[n] = k
        BY <3>2 DEF IInv, FenceOK
      <4>2. OpenFence(n) = k
        BY <4>1 DEF OpenFence
      <4>3. k # NoJob
        BY JobFacts
      <4>4. j \notin StepJobs
        BY <3>2, <4>2, <4>3 DEF IInv, NodeOK, SoleFence
      <4>5. ~Uncertainty(j)
        <5>1. ReadOnly(j)
          BY <2>1, <4>4, JobFacts DEF ReadOnly
        <5> QED  BY <2>1, <5>1 DEF IInv, JobOK, ReceiptOK, DocOK, Uncertainty
      <4>6. fence' = fence
        BY <1>3, <4>5 DEF Uncertainty
      <4> QED  BY <4>1, <4>6
    <3> QED  BY <3>1, <3>2
  <2> QED  BY <1>1, <2>4, <2>5, <2>6, <2>7, <2>8, <2>9, <2>10, <2>11, <2>12, LocalKeeps
<1> QED  BY <1>2, <1>3 DEF BeginCycle

LEMMA SaveJournalKeeps ==
  ASSUME IInv, NEW n \in Nodes, SaveJournal(n)
  PROVE  IInv'
<1> DEFINE j == journal[n].job doc == outcome[n]
           uncertain == doc.status = "reconciliation_required"
           previous == OpenFence(n)
<1>1. /\ TypeOK /\ pc[n] = "saving" /\ journal[n] \in Journals
      /\ UNCHANGED <<portalKept, unrest, receipts, releases, torn, host, applied>>
      /\ outcome' = [outcome EXCEPT ![n] = NoDoc]
  BY AgentTyped DEF IInv, SaveJournal, portalRows
<1>2. /\ j # NoJob /\ j \in Jobs /\ doc # NoDoc /\ receipts[j] = doc
      /\ NodeOf(j) = n /\ job[j].status # "absent" /\ doc \in Docs /\ doc \in Reports
      /\ DocOK(j, doc)
  <2>1. j # NoJob /\ doc # NoDoc /\ receipts[j] = doc
    BY <1>1 DEF IInv, NodeOK, WorkerOK
  <2>2. j \in Jobs /\ NodeOf(j) = n /\ job[j].status # "absent"
    BY <1>1, <2>1 DEF Journals, IInv, NodeOK, JournalOK
  <2> QED  BY <1>1, <2>1, <2>2, RowTyped DEF Docs, IInv, JobOK, ReceiptOK
<1>3. uncertain => j \in StepJobs /\ previous \in {NoJob, j}
  <2>1. uncertain => ~ReadOnly(j)
    BY <1>2 DEF DocOK
  <2>2. ~ReadOnly(j) => j \in StepJobs
    BY <1>2, JobFacts DEF ReadOnly
  <2> QED  BY <2>1, <2>2 DEF IInv, NodeOK, SoleFence
<1>4. fence' = IF uncertain THEN [fence EXCEPT ![n] = j] ELSE fence
  BY <1>3 DEF SaveJournal
<1>5. /\ fence' \in [Nodes -> Jobs \cup {NoJob}]
      /\ \A x \in Nodes \ {n} : fence'[x] = fence[x]
      /\ fence'[n] = IF uncertain THEN j ELSE fence[n]
  BY <1>1, <1>2, <1>4, AgentTyped
<1>6. SoleFence(n)' \/ journal'[n].job # j
  BY <1>1, <1>2, <1>5 DEF IInv, NodeOK, SoleFence, OpenFence
<1>7. ASSUME NEW k \in StepJobs, NodeOf(k) = n, journal'[n].job = j
      PROVE  (pc'[n] = "idle" => FenceOK(k)') /\ (k # j => FenceOK(k)')
             /\ (uncertain \/ k # j => FenceOK(k)')
  <2>1. Uncertainty(k) /\ k \notin releases => fence[n] = k \/ j = k
    BY <1>7 DEF IInv, FenceOK
  <2>2. Uncertainty(k) /\ k \notin releases /\ k # j => ~uncertain
    <3> SUFFICES ASSUME Uncertainty(k), k \notin releases, k # j, uncertain
                 PROVE  FALSE
      OBVIOUS
    <3>1. fence[n] = k /\ previous = k
      BY <2>1 DEF OpenFence
    <3> QED  BY <1>3, <3>1, JobFacts
  <2>3. Uncertainty(j) => uncertain
    BY <1>2 DEF Uncertainty
  <2> QED  BY <1>1, <1>5, <1>7, <2>1, <2>2, <2>3 DEF FenceOK, Uncertainty
<1>8. CASE n \in torn
  <2>1. pc' = [pc EXCEPT ![n] = "idle"] /\ UNCHANGED <<linkVars, journal>>
    BY <1>8 DEF SaveJournal, Goto
  <2>2. Linked(n) /\ reply'[n] = reply[n] /\ request'[n] = NoRequest
    BY <1>1, <2>1, LinksStay, Quiescent
  <2>3. Moves(n) /\ pc'[n] = "idle"
    BY <1>1, <1>5, <2>1, AgentTyped DEF Moves, Places, Docs
  <2>4. TypeOK' /\ Elsewhere(n)
    BY <1>1, <2>2, <2>3, MovesTyped DEF TypeOK
  <2>5. JournalOK(n)'
    BY <1>1, <2>1 DEF IInv, NodeOK, JournalOK, portalKept, Reached
  <2>6. \A i \in Jobs : NodeOf(i) = n => AppliedOK(i)'
    BY <1>1, <2>1 DEF IInv, JobOK, AppliedOK, portalKept
  <2>7. WorkerOK(n)'
    BY <2>3 DEF WorkerOK
  <2>8. ExchangeOK(n)' /\ ReplyOK(n)' /\ MessageOK(n, request'[n])
    BY <1>1, <2>2, <2>3, Silences
  <2> QED  BY <1>1, <1>6, <1>7, <2>1, <2>3, <2>4, <2>5, <2>6, <2>7, <2>8, LocalKeeps
<1>9. CASE n \notin torn
  <2>1. /\ journal' = [journal EXCEPT ![n].phase = "terminal"]
        /\ Send(n, "result", j, doc)
        /\ pc' = [pc EXCEPT ![n] = "delivering"]
    BY <1>3, <1>9 DEF SaveJournal, Goto
  <2>2. /\ Linked(n) /\ reply'[n] = NoReply
        /\ request'[n] = Message("result", j, doc)
    BY <1>1, <1>2, <2>1, Sends
  <2> DEFINE e == [journal[n] EXCEPT !.phase = "terminal"]
  <2>3. /\ e \in Journals /\ e.job = j /\ e.phase = "terminal"
    BY <1>1 DEF Journals, Phases
  <2>4. journal' = [journal EXCEPT ![n] = e]
    BY <2>1
  <2> HIDE DEF e
  <2>5. /\ journal' \in [Nodes -> Journals] /\ journal'[n] = e
        /\ \A x \in Nodes \ {n} : journal'[x] = journal[x]
    BY <1>1, <2>3, <2>4, AgentTyped
  <2>6. Moves(n) /\ pc'[n] = "delivering"
    BY <1>1, <1>5, <2>1, <2>5, AgentTyped DEF Moves, Places, Docs
  <2>7. TypeOK' /\ Elsewhere(n)
    BY <1>1, <2>2, <2>6, MovesTyped DEF TypeOK
  <2>8. JournalOK(n)'
    BY <1>1, <1>2, <2>3, <2>5 DEF JournalOK, portalKept
  <2>9. \A i \in Jobs : NodeOf(i) = n => AppliedOK(i)'
    <3> SUFFICES ASSUME NEW i \in Jobs, NodeOf(i) = n PROVE AppliedOK(i)'
      OBVIOUS
    <3>1. applied[i].times > 0 /\ receipts[i] = NoDoc => journal[n].job = i
      BY DEF IInv, JobOK, AppliedOK
    <3> QED  BY <1>1, <1>2, <3>1 DEF IInv, JobOK, AppliedOK, portalKept
  <2>10. WorkerOK(n)'
    BY <2>6 DEF WorkerOK
  <2>11. ExchangeOK(n)' /\ ReplyOK(n)' /\ reply'[n] # Rejected
    BY <1>1, <1>2, <2>2, <2>6, Speaks
  <2>12. MessageOK(n, request'[n])
    BY <1>2, <2>2, SpeaksResult
  <2>13. \A k \in StepJobs : NodeOf(k) = n => FenceOK(k)'
    <3>1. \A k \in StepJobs : k = j /\ ~uncertain => FenceOK(k)'
      BY <1>1, <1>2 DEF FenceOK, Uncertainty
    <3> QED  BY <1>7, <2>3, <2>5, <3>1
  <2> QED  BY <1>1, <1>6, <2>3, <2>5, <2>6, <2>7, <2>8, <2>9, <2>10, <2>11, <2>12, <2>13,
              LocalKeeps
<1> QED  BY <1>8, <1>9

\* A new journal may begin while nothing is under way on the machine.
LEMMA NewJournal ==
  ASSUME IInv, NEW n \in Nodes, pc[n] = "polling", NEW j \in Jobs, receipts[j] = NoDoc
  PROVE  /\ NodeOf(j) = n => applied[j].times = 0
         /\ \A i \in Jobs : NodeOf(i) = n =>
              applied[i].times = 0 \/ receipts[i] # NoDoc
<1>1. ASSUME NEW i \in Jobs, NodeOf(i) = n, applied[i].times > 0, receipts[i] = NoDoc
      PROVE  FALSE
  <2>1. journal[n].job = i
    BY <1>1 DEF IInv, JobOK, AppliedOK
  <2>2. journal[n].job = NoJob \/ receipts[journal[n].job] # NoDoc
    BY DEF IInv, NodeOK, WorkerOK
  <2> QED  BY <1>1, <2>1, <2>2, JobFacts
<1>2. \A i \in Jobs : applied[i].times \in Nat
  BY Working
<1> QED  BY <1>1, <1>2

LEMMA ReceivePollKeeps ==
  ASSUME IInv, NEW n \in Nodes, ReceivePoll(n)
  PROVE  IInv'
<1> DEFINE j == reply[n].job release == reply[n].release
<1>1. /\ TypeOK /\ pc[n] = "polling" /\ reply[n].type = "job"
      /\ j \in Jobs \cup {NoJob} /\ release \in Jobs \cup {NoJob}
      /\ UNCHANGED <<portalKept, unrest, receipts, fence, torn, outcome, host, applied>>
      /\ torn \subseteq Nodes
  BY AgentTyped DEF IInv, TypeOK, ReceivePoll, portalRows, Replies
<1>2. releases' \subseteq Jobs /\ releases \subseteq releases'
  BY <1>1, AgentTyped DEF ReceivePoll
<1>3. \A k \in StepJobs : NodeOf(k) = n => FenceOK(k)'
  BY <1>1, <1>2, FenceStays
<1>4. ASSUME Close(n), UNCHANGED late, Goto(n, "idle"), UNCHANGED journal
      PROVE  IInv'
  <2>1. Linked(n) /\ reply'[n] = NoReply /\ request'[n] = NoRequest
    BY <1>1, <1>4, Closes
  <2>2. Moves(n) /\ pc'[n] = "idle"
    BY <1>1, <1>2, <1>4, AgentTyped DEF Moves, Places, Goto
  <2>3. TypeOK' /\ Elsewhere(n)
    BY <1>1, <2>1, <2>2, MovesTyped DEF TypeOK
  <2>4. /\ JournalOK(n)' /\ SoleFence(n)'
        /\ \A i \in Jobs : NodeOf(i) = n => AppliedOK(i)'
    BY <1>1, <1>2, <1>4, JournalStays
  <2>5. WorkerOK(n)'
    BY <2>2 DEF WorkerOK
  <2>6. ExchangeOK(n)' /\ ReplyOK(n)' /\ MessageOK(n, request'[n])
    BY <1>1, <2>1, <2>2, Silences
  <2> QED  BY <1>1, <1>3, <2>2, <2>3, <2>4, <2>5, <2>6, LocalKeeps
<1>5. ASSUME j # NoJob
      PROVE  j \in Jobs /\ NodeOf(j) = n /\ job[j].status # "absent"
  BY <1>1, <1>5 DEF IInv, NodeOK, ReplyOK
<1>6. ASSUME j # NoJob, receipts[j] # NoDoc, Send(n, "result", j, receipts[j]),
             Goto(n, "delivering"), UNCHANGED journal
      PROVE  IInv'
  <2>1. receipts[j] \in Docs /\ receipts[j] \in Reports
    BY <1>1, <1>5, <1>6, RowTyped DEF Docs
  <2>2. /\ Linked(n) /\ reply'[n] = NoReply
        /\ request'[n] = Message("result", j, receipts[j])
    BY <1>1, <1>6, <2>1, Sends
  <2>3. Moves(n) /\ pc'[n] = "delivering"
    BY <1>1, <1>2, <1>6, AgentTyped DEF Moves, Places, Goto
  <2>4. TypeOK' /\ Elsewhere(n)
    BY <1>1, <2>2, <2>3, MovesTyped DEF TypeOK
  <2>5. /\ JournalOK(n)' /\ SoleFence(n)'
        /\ \A i \in Jobs : NodeOf(i) = n => AppliedOK(i)'
    BY <1>1, <1>2, <1>6, JournalStays
  <2>6. WorkerOK(n)'
    BY <2>3 DEF WorkerOK
  <2>7. ExchangeOK(n)' /\ ReplyOK(n)' /\ reply'[n] # Rejected
    BY <1>1, <2>2, <2>3, Speaks
  <2>8. MessageOK(n, request'[n])
    BY <1>5, <1>6, <2>1, <2>2, SpeaksResult
  <2> QED  BY <1>1, <1>3, <2>3, <2>4, <2>5, <2>6, <2>7, <2>8, LocalKeeps
<1>7. ASSUME j # NoJob, receipts[j] = NoDoc, Close(n), UNCHANGED late,
             j \in Inspections \/ fence[n] \in releases' \cup {NoJob},
             journal' = [journal EXCEPT ![n] = Record(j, "prepared", NoDoc)],
             Goto(n, "inspecting")
      PROVE  IInv'
  <2> DEFINE e == Record(j, "prepared", NoDoc)
  <2>1. /\ e \in Journals /\ e.job = j /\ e.phase = "prepared"
    BY <1>5, <1>7 DEF Record, Journals, Phases, Views
  <2> HIDE DEF e
  <2>2. /\ journal' \in [Nodes -> Journals] /\ journal'[n] = e
        /\ \A x \in Nodes \ {n} : journal'[x] = journal[x]
    BY <1>1, <1>7, <2>1, AgentTyped DEF e
  <2>3. Linked(n) /\ reply'[n] = NoReply /\ request'[n] = NoRequest
    BY <1>1, <1>7, Closes
  <2>4. Moves(n) /\ pc'[n] = "inspecting"
    BY <1>1, <1>2, <1>7, <2>2, AgentTyped DEF Moves, Places, Goto
  <2>5. TypeOK' /\ Elsewhere(n)
    BY <1>1, <2>3, <2>4, MovesTyped DEF TypeOK
  <2>6. /\ applied[j].times = 0
        /\ \A i \in Jobs : NodeOf(i) = n => applied[i].times = 0 \/ receipts[i] # NoDoc
    BY <1>1, <1>5, <1>7, NewJournal
  <2>7. JournalOK(n)'
    BY <1>1, <1>5, <1>7, <2>1, <2>2, <2>6 DEF JournalOK, portalKept
  <2>8. \A i \in Jobs : NodeOf(i) = n => AppliedOK(i)'
    <3> SUFFICES ASSUME NEW i \in Jobs, NodeOf(i) = n PROVE AppliedOK(i)'
      OBVIOUS
    <3> QED  BY <1>1, <2>6 DEF IInv, JobOK, AppliedOK, portalKept
  <2>9. SoleFence(n)'
    BY <1>1, <1>7, <2>1, <2>2, JobFacts DEF SoleFence, OpenFence
  <2>10. WorkerOK(n)'
    BY <1>1, <1>7, <2>1, <2>2, <2>4 DEF WorkerOK
  <2>11. ExchangeOK(n)' /\ ReplyOK(n)' /\ MessageOK(n, request'[n])
    BY <1>1, <2>3, <2>4, Silences
  <2> QED  BY <1>1, <1>3, <2>4, <2>5, <2>7, <2>8, <2>9, <2>10, <2>11, LocalKeeps
<1> QED  BY <1>4, <1>6, <1>7 DEF ReceivePoll

LEMMA SaveClaimingKeeps ==
  ASSUME IInv, NEW n \in Nodes, SaveClaiming(n)
  PROVE  IInv'
<1> DEFINE j == journal[n].job e == Record(j, "claiming", See(n))
<1>1. /\ TypeOK /\ pc[n] = "inspecting"
      /\ UNCHANGED <<portalKept, unrest, receipts, fence, releases, torn, outcome, host, applied>>
      /\ journal' = [journal EXCEPT ![n] = e] /\ torn \subseteq Nodes
      /\ Send(n, "claim", j, NoDoc) /\ Goto(n, "claiming")
  BY DEF IInv, TypeOK, SaveClaiming, portalRows
<1>2. /\ j # NoJob /\ j \in Jobs /\ NodeOf(j) = n /\ job[j].status # "absent"
      /\ receipts[j] = NoDoc /\ applied[j].times = 0
  BY <1>1, WorkFacts
<1>3. /\ e \in Journals /\ e.job = j /\ e.phase = "claiming" /\ e.before = See(n)
      /\ See(n) # NoDoc /\ See(n).boot = host[n].boot /\ See(n).boot <= host[n].boot
      /\ See(n).level <= Reached(n)
  BY <1>2, SeenFacts DEF Record, Journals, Phases, Views
<1> HIDE DEF e
<1>4. /\ journal' \in [Nodes -> Journals] /\ journal'[n] = e
      /\ \A x \in Nodes \ {n} : journal'[x] = journal[x]
  BY <1>1, <1>3, AgentTyped
<1>5. /\ Linked(n) /\ reply'[n] = NoReply /\ request'[n] = Message("claim", j, NoDoc)
  BY <1>1, <1>2, Sends DEF Docs
<1>6. Moves(n) /\ pc'[n] = "claiming"
  BY <1>1, <1>4, AgentTyped DEF Moves, Places, Goto
<1>7. TypeOK' /\ Elsewhere(n)
  BY <1>1, <1>5, <1>6, MovesTyped DEF TypeOK
<1>8. Reached(n)' = Reached(n)
  BY <1>1 DEF Reached
<1>9. JournalOK(n)'
  BY <1>1, <1>2, <1>3, <1>4, <1>8 DEF JournalOK, portalKept
<1>10. \A i \in Jobs : NodeOf(i) = n => AppliedOK(i)'
  <2> SUFFICES ASSUME NEW i \in Jobs, NodeOf(i) = n PROVE AppliedOK(i)'
    OBVIOUS
  <2>1. applied[i].times > 0 /\ receipts[i] = NoDoc => journal[n].job = i
    BY DEF IInv, JobOK, AppliedOK
  <2>2. ~(applied[j].times > 0)
    BY <1>2
  <2> QED  BY <1>1, <2>1, <2>2 DEF IInv, JobOK, AppliedOK, portalKept
<1>11. SoleFence(n)'
  BY <1>1, <1>3, <1>4 DEF IInv, NodeOK, SoleFence, OpenFence
<1>12. WorkerOK(n)'
  BY <1>1, <1>2, <1>3, <1>4, <1>6 DEF WorkerOK
<1>13. ExchangeOK(n)' /\ ReplyOK(n)' /\ reply'[n] # Rejected
  BY <1>2, <1>3, <1>4, <1>5, <1>6, Speaks
<1>14. MessageOK(n, request'[n])
  BY <1>2, <1>5 DEF MessageOK, Message
<1>15. \A k \in StepJobs : NodeOf(k) = n => FenceOK(k)'
  BY <1>1, FenceStays
<1> QED  BY <1>1, <1>6, <1>7, <1>9, <1>10, <1>11, <1>12, <1>13, <1>14, <1>15, LocalKeeps

LEMMA ClaimGrantedKeeps ==
  ASSUME IInv, NEW n \in Nodes, ClaimGranted(n)
  PROVE  IInv'
<1> DEFINE j == journal[n].job e == [journal[n] EXCEPT !.phase = "intent"]
<1>1. /\ TypeOK /\ pc[n] = "claiming" /\ reply[n].job = j
      /\ UNCHANGED <<portalKept, unrest, receipts, fence, releases, torn, outcome, host, applied>>
      /\ journal' = [journal EXCEPT ![n] = e] /\ torn \subseteq Nodes
      /\ Close(n) /\ UNCHANGED late /\ Goto(n, "intent")
  BY DEF IInv, TypeOK, ClaimGranted, portalRows
<1>2. /\ j # NoJob /\ j \in Jobs /\ NodeOf(j) = n /\ job[j].status # "absent"
      /\ receipts[j] = NoDoc /\ applied[j].times = 0
  BY <1>1, WorkFacts
<1>3. job[j].claimed
  BY <1>1 DEF IInv, NodeOK, ExchangeOK
<1>4. /\ journal[n].before # NoDoc /\ journal[n].before.boot <= host[n].boot
      /\ journal[n].before.level <= Reached(n)
      /\ journal[n].before.boot = host[n].boot /\ journal[n] \in Journals
  BY <1>1, AgentTyped DEF IInv, NodeOK, WorkerOK, JournalOK
<1>5. /\ e \in Journals /\ e.job = j /\ e.phase = "intent" /\ e.before = journal[n].before
  BY <1>4 DEF Journals, Phases
<1> HIDE DEF e
<1>6. /\ journal' \in [Nodes -> Journals] /\ journal'[n] = e
      /\ \A x \in Nodes \ {n} : journal'[x] = journal[x]
  BY <1>1, <1>5, AgentTyped
<1>7. Linked(n) /\ reply'[n] = NoReply /\ request'[n] = NoRequest
  BY <1>1, Closes
<1>8. Moves(n) /\ pc'[n] = "intent"
  BY <1>1, <1>6, AgentTyped DEF Moves, Places, Goto
<1>9. TypeOK' /\ Elsewhere(n)
  BY <1>1, <1>7, <1>8, MovesTyped DEF TypeOK
<1>10. Reached(n)' = Reached(n)
  BY <1>1 DEF Reached
<1>11. JournalOK(n)'
  BY <1>1, <1>2, <1>3, <1>4, <1>5, <1>6, <1>10 DEF JournalOK, portalKept
<1>12. \A i \in Jobs : NodeOf(i) = n => AppliedOK(i)'
  <2> SUFFICES ASSUME NEW i \in Jobs, NodeOf(i) = n PROVE AppliedOK(i)'
    OBVIOUS
  <2>1. applied[i].times > 0 /\ receipts[i] = NoDoc => journal[n].job = i
    BY DEF IInv, JobOK, AppliedOK
  <2>2. ~(applied[j].times > 0)
    BY <1>2
  <2> QED  BY <1>1, <2>1, <2>2 DEF IInv, JobOK, AppliedOK, portalKept
<1>13. SoleFence(n)'
  BY <1>1, <1>5, <1>6 DEF IInv, NodeOK, SoleFence, OpenFence
<1>14. WorkerOK(n)'
  BY <1>1, <1>2, <1>4, <1>5, <1>6, <1>8 DEF WorkerOK
<1>15. ExchangeOK(n)' /\ ReplyOK(n)' /\ MessageOK(n, request'[n])
  BY <1>1, <1>7, <1>8, Silences
<1>16. \A k \in StepJobs : NodeOf(k) = n => FenceOK(k)'
  BY <1>1, FenceStays
<1> QED  BY <1>1, <1>8, <1>9, <1>11, <1>12, <1>13, <1>14, <1>15, <1>16, LocalKeeps

LEMMA SaveRebootWaitKeeps ==
  ASSUME IInv, NEW n \in Nodes, SaveRebootWait(n)
  PROVE  IInv'
<1> DEFINE j == journal[n].job e == [journal[n] EXCEPT !.phase = "reboot_wait"]
           doc == RebootRequired(journal[n].before)
<1>1. /\ TypeOK /\ pc[n] = "applied" /\ Operation(j) = "reboot"
      /\ UNCHANGED <<portalKept, unrest, receipts, fence, releases, torn, outcome, host, applied>>
      /\ journal' = [journal EXCEPT ![n] = e] /\ torn \subseteq Nodes
      /\ Send(n, "result", j, doc) /\ Goto(n, "delivering")
  BY DEF IInv, TypeOK, SaveRebootWait, portalRows
<1>2. /\ j # NoJob /\ j \in Jobs /\ NodeOf(j) = n /\ job[j].status # "absent"
      /\ receipts[j] = NoDoc /\ job[j].claimed
      /\ journal[n].before \in Observations
      /\ journal[n].before.boot <= host[n].boot
      /\ journal[n].before.level <= Reached(n)
      /\ applied[j].times > 0 => applied[j].boot = journal[n].before.boot
  BY <1>1, WorkFacts
<1>3. applied[j].times > 0 /\ journal[n] \in Journals /\ journal[n].before # NoDoc
  BY <1>1, <1>2, AgentTyped, HgsAssumption DEF IInv, NodeOK, WorkerOK, HgsAssumption
<1>4. /\ e \in Journals /\ e.job = j /\ e.phase = "reboot_wait"
      /\ e.before = journal[n].before
  BY <1>3 DEF Journals, Phases
<1>5. /\ doc \in Reports /\ doc.status = "reboot_required" /\ doc.seen = journal[n].before
      /\ doc \in Docs
  BY <1>2 DEF RebootRequired, Doc, Reports, Views, Docs
<1>6. RebootNotice(j, doc)
  BY <1>1, <1>2, <1>3, <1>5 DEF RebootNotice
<1> HIDE DEF e, doc
<1>7. /\ journal' \in [Nodes -> Journals] /\ journal'[n] = e
      /\ \A x \in Nodes \ {n} : journal'[x] = journal[x]
  BY <1>1, <1>4, AgentTyped
<1>8. /\ Linked(n) /\ reply'[n] = NoReply /\ request'[n] = Message("result", j, doc)
  BY <1>1, <1>2, <1>5, Sends
<1>9. Moves(n) /\ pc'[n] = "delivering"
  BY <1>1, <1>7, AgentTyped DEF Moves, Places, Goto
<1>10. TypeOK' /\ Elsewhere(n)
  BY <1>1, <1>8, <1>9, MovesTyped DEF TypeOK
<1>11. Reached(n)' = Reached(n)
  BY <1>1 DEF Reached
<1>12. JournalOK(n)'
  BY <1>1, <1>2, <1>3, <1>4, <1>7, <1>11 DEF JournalOK, portalKept
<1>13. \A i \in Jobs : NodeOf(i) = n => AppliedOK(i)'
  <2> SUFFICES ASSUME NEW i \in Jobs, NodeOf(i) = n PROVE AppliedOK(i)'
    OBVIOUS
  <2>1. applied[i].times > 0 /\ receipts[i] = NoDoc => journal[n].job = i
    BY DEF IInv, JobOK, AppliedOK
  <2> QED  BY <1>1, <1>4, <1>7, <2>1 DEF IInv, JobOK, AppliedOK, portalKept
<1>14. SoleFence(n)'
  BY <1>1, <1>4, <1>7 DEF IInv, NodeOK, SoleFence, OpenFence
<1>15. WorkerOK(n)'
  BY <1>9 DEF WorkerOK
<1>16. ExchangeOK(n)' /\ ReplyOK(n)' /\ reply'[n] # Rejected
  BY <1>1, <1>2, <1>8, <1>9, Speaks
<1>17. MessageOK(n, request'[n])
  BY <1>2, <1>5, <1>6, <1>8, SpeaksResult
<1>18. \A k \in StepJobs : NodeOf(k) = n => FenceOK(k)'
  BY <1>1, FenceStays
<1> QED  BY <1>1, <1>9, <1>10, <1>12, <1>13, <1>14, <1>15, <1>16, <1>17, <1>18, LocalKeeps

\* The receipt of a step says what its outcome was, and is the first.
LEMMA SaveReceiptKeeps ==
  ASSUME IInv, NEW n \in Nodes, SaveReceipt(n)
  PROVE  IInv'
<1> DEFINE j == journal[n].job doc == outcome[n]
<1>1. /\ TypeOK /\ pc[n] = "finishing" /\ pc' = [pc EXCEPT ![n] = "saving"]
      /\ receipts' = [receipts EXCEPT ![j] = doc]
      /\ UNCHANGED <<portalKept, linkVars, unrest, journal, fence, releases, torn, outcome,
                     host, applied>>
  BY DEF IInv, SaveReceipt, Goto, portalVars, portalKept, authorityVars
<1>2. /\ j # NoJob /\ j \in Jobs /\ NodeOf(j) = n /\ job[j].status # "absent"
      /\ receipts[j] = NoDoc
  BY <1>1, WorkFacts
<1>3. doc # NoDoc /\ doc \in Docs /\ DocOK(j, doc)
  BY <1>1 DEF IInv, NodeOK, WorkerOK, TypeOK
<1>4. /\ receipts' \in [Jobs -> Docs] /\ receipts'[j] = doc
      /\ \A i \in Jobs \ {j} : receipts'[i] = receipts[i]
  BY <1>1, <1>2, <1>3 DEF TypeOK
<1>5. Linked(n) /\ reply'[n] = reply[n] /\ request'[n] = NoRequest
  BY <1>1, LinksStay, Quiescent
<1>6. Moves(n) /\ pc'[n] = "saving"
  BY <1>1, AgentTyped DEF Moves, Places
<1>7. TypeOK' /\ Elsewhere(n)
  BY <1>1, <1>2, <1>4, <1>5, <1>6, MovesTyped DEF TypeOK
<1>8. job' = job /\ RowOK(j) /\ job[j] \in Rows
  BY <1>1, <1>2, RowTyped DEF portalKept, IInv, PortalOK
<1>9. job[j].status \in Terminal => job[j].status = "cancelled" /\ job[j].receipt = NoDoc
  BY <1>2, <1>8 DEF RowOK
<1>10. job[j].status \in Terminal => doc.seen = NoDoc
  <2>1. job[j].status = "cancelled" => ~job[j].claimed
    BY <1>8 DEF RowOK
  <2>2. NotExecuted(doc) \/ job[j].claimed
    BY <1>3 DEF DocOK
  <2> QED  BY <1>3, <1>9, <2>1, <2>2 DEF NotExecuted, DocOK
<1>11. ASSUME NEW i \in Jobs, NEW d, DocOK(i, d)
       PROVE  DocOK(i, d)'
  <2>1. i \in Inspections /\ Fresh(i, d) => Fresh(i, d)'
    <3> SUFFICES ASSUME i \in Inspections, Fresh(i, d), NEW k \in StepJobs, Later(i, k)
                 PROVE  /\ d.seen.boot >= applied[k].boot
                        /\ receipts'[k] # NoDoc /\ receipts'[k].seen # NoDoc =>
                             d.seen.boot >= receipts'[k].seen.boot
      BY <1>1, <1>8 DEF Fresh, Later
    <3>1. job[k].status \in Terminal /\ k \in Jobs
      BY JobFacts DEF IInv, PortalOK, LaterOK
    <3>2. k = j => receipts'[k].seen = NoDoc
      BY <1>4, <1>10, <3>1
    <3>3. k # j => receipts'[k] = receipts[k]
      BY <1>4, <3>1
    <3> QED  BY <3>2, <3>3 DEF Fresh
  <2>2. Reached(NodeOf(i))' = Reached(NodeOf(i))
    BY <1>1 DEF Reached
  <2> QED  BY <1>1, <1>8, <1>11, <2>1, <2>2 DEF DocOK
<1>12. ASSUME NEW i \in Jobs PROVE RowOK(i)' /\ JobOK(i)'
  <2>1. CASE i = j
    <3>1. RowOK(i)'
      BY <1>1, <1>4, <1>8, <1>9, <2>1 DEF RowOK, Terminal
    <3>2. ReceiptOK(i)'
      BY <1>2, <1>3, <1>4, <1>11, <2>1 DEF ReceiptOK
    <3>3. AppliedOK(i)'
      BY <1>1, <1>3, <1>4, <1>8, <2>1 DEF IInv, JobOK, AppliedOK
    <3> QED  BY <3>1, <3>2, <3>3 DEF JobOK
  <2>2. CASE i # j
    <3>1. receipts'[i] = receipts[i]
      BY <1>4, <2>2
    <3>2. RowOK(i)'
      BY <1>1, <1>8, <3>1 DEF IInv, PortalOK, RowOK
    <3>3. ReceiptOK(i)'
      BY <1>11, <3>1 DEF IInv, JobOK, ReceiptOK
    <3>4. AppliedOK(i)'
      BY <1>1, <1>8, <3>1 DEF IInv, JobOK, AppliedOK
    <3> QED  BY <3>2, <3>3, <3>4 DEF JobOK
  <2> QED  BY <2>1, <2>2
<1>13. \A m \in Requests : MessageOK(n, m) => MessageOK(n, m)'
  <2> SUFFICES ASSUME NEW m \in Requests, MessageOK(n, m) PROVE MessageOK(n, m)'
    OBVIOUS
  <2>1. m.mode \in {"claim", "result"} => m.job \in Jobs
    BY DEF MessageOK, Requests
  <2>2. m.mode = "result" /\ m.job = j => RebootNotice(j, m.doc)
    BY <1>2 DEF MessageOK
  <2>3. m.mode = "result" /\ m.job # j => receipts'[m.job] = receipts[m.job]
    BY <1>4, <2>1
  <2> QED  BY <1>1, <1>8, <2>1, <2>2, <2>3 DEF MessageOK, RebootNotice
<1>14. NodeOK(n)'
  <2>1. HostOK(n)' /\ SoleFence(n)'
    BY <1>1 DEF IInv, NodeOK, HostOK, SoleFence, OpenFence
  <2>2. JournalOK(n)'
    BY <1>1, <1>2, <1>3, <1>4, <1>8 DEF IInv, NodeOK, JournalOK, Reached
  <2>3. WorkerOK(n)'
    BY <1>1, <1>2, <1>3, <1>4, <1>6 DEF WorkerOK
  <2>4. ExchangeOK(n)' /\ ReplyOK(n)' /\ MessageOK(n, request'[n])
    BY <1>1, <1>5, <1>6, Silences
  <2>5. MessageOK(n, request[n])'
    BY <1>5 DEF MessageOK, NoRequest, Message
  <2> QED  BY <2>1, <2>2, <2>3, <2>4, <2>5 DEF NodeOK
<1>15. ASSUME NEW k \in StepJobs, NodeOf(k) = n
       PROVE  FenceOK(k)' /\ (job[k].status = "succeeded" => OnMachine(k)')
  <2>1. k \in Jobs
    BY JobFacts
  <2>2. FenceOK(k)'
    <3>1. CASE k = j
      BY <1>1, <1>2, <1>6, <3>1 DEF FenceOK
    <3>2. CASE k # j
      BY <1>1, <1>4, <2>1, <3>2 DEF IInv, FenceOK, Uncertainty
    <3> QED  BY <3>1, <3>2
  <2>3. job[k].status = "succeeded" => OnMachine(k)'
    BY <1>1 DEF IInv, ProvenOnTheMachine, OnMachine, Reached
  <2> QED  BY <2>2, <2>3
<1> QED  BY <1>1, <1>6, <1>7, <1>12, <1>13, <1>14, <1>15, AgentKeeps

\* What a change of the machine leaves.
LEMMA EffectsAre ==
  ASSUME TypeOK, NEW n \in Nodes, HostOK(n), NEW op \in Operations,
         op \notin {"inspect", "verify"}, NEW h \in Effects(op, host[n])
  PROVE  /\ h \in [boot : Nat, pending : BOOLEAN, shutdown : BOOLEAN,
                   level : Levels, staged : Levels]
         /\ h.boot = host[n].boot /\ h.staged \in {0, 2}
         /\ Max({h.level, h.staged}) >= Reached(n)
         /\ Max({h.level, h.staged}) >= Target(op)
<1> DEFINE g == host[n]
           H == [boot : Nat, pending : BOOLEAN, shutdown : BOOLEAN,
                 level : Levels, staged : Levels]
<1>1. g \in H /\ g.staged \in {0, 2} /\ Reached(n) = Max({g.level, g.staged})
  BY DEF TypeOK, HostOK, Reached
<1>2. g.level \in Nat /\ g.level \in 0 .. 3 /\ g.staged \in Nat
  BY <1>1 DEF Levels
<1>3. Reached(n) = IF g.level >= g.staged THEN g.level ELSE g.staged
  BY <1>1, <1>2, MaxOfPair
<1>4. CASE op = "reboot"
  <2>1. h = [g EXCEPT !.shutdown = TRUE]
    BY <1>4 DEF Effects
  <2>2. h \in H /\ h.boot = g.boot /\ h.level = g.level /\ h.staged = g.staged
    BY <1>1, <2>1
  <2>3. Target(op) = 0
    BY <1>4 DEF Target
  <2> QED  BY <1>1, <1>2, <1>3, <2>2, <2>3
<1>5. CASE op = "install_role"
  <2>1. PICK p \in BOOLEAN : h = [g EXCEPT !.level = Max({1, g.level}), !.pending = p]
    BY <1>5 DEF Effects
  <2>2. Max({1, g.level}) = IF 1 >= g.level THEN 1 ELSE g.level
    BY <1>2, MaxOfPair
  <2>3. h \in H /\ h.boot = g.boot /\ h.staged = g.staged
        /\ h.level = IF 1 >= g.level THEN 1 ELSE g.level
    <3> DEFINE l == IF 1 >= g.level THEN 1 ELSE g.level
    <3>1. l \in Levels
      BY <1>2 DEF Levels
    <3>2. h = [g EXCEPT !.level = l, !.pending = p]
      BY <2>1, <2>2
    <3>3. h.level = l
      <4> HIDE DEF l
      <4> QED  BY <1>1, <3>2
    <3>4. h \in H /\ h.boot = g.boot /\ h.staged = g.staged
      <4> HIDE DEF l
      <4> QED  BY <1>1, <3>1, <3>2
    <3> QED  BY <3>3, <3>4
  <2>4. Max({h.level, h.staged}) = IF h.level >= h.staged THEN h.level ELSE h.staged
    BY <1>2, <2>3, MaxOfPair
  <2>5. Target(op) = 1
    BY <1>5 DEF Target
  <2> QED  BY <1>1, <1>2, <1>3, <2>3, <2>4, <2>5
<1>6. CASE op = "promote"
  <2>1. h = [g EXCEPT !.staged = 2, !.pending = TRUE]
    BY <1>6 DEF Effects
  <2>2. h \in H /\ h.boot = g.boot /\ h.staged = 2 /\ h.level = g.level
    <3>1. 2 \in Levels
      BY DEF Levels
    <3> QED  BY <1>1, <2>1, <3>1
  <2>3. Max({h.level, h.staged}) = IF h.level >= h.staged THEN h.level ELSE h.staged
    BY <1>2, <2>2, MaxOfPair
  <2>4. Target(op) = 2
    BY <1>6 DEF Target
  <2> QED  BY <1>1, <1>2, <1>3, <2>2, <2>3, <2>4
<1>7. CASE op = "initialize"
  <2>1. h = [g EXCEPT !.level = 3]
    BY <1>7 DEF Effects
  <2>2. h \in H /\ h.boot = g.boot /\ h.staged = g.staged /\ h.level = 3
    BY <1>1, <2>1 DEF Levels
  <2>3. Max({h.level, h.staged}) = IF h.level >= h.staged THEN h.level ELSE h.staged
    BY <1>2, <2>2, MaxOfPair
  <2>4. Target(op) = 3
    BY <1>7 DEF Target
  <2> QED  BY <1>1, <1>2, <1>3, <2>2, <2>3, <2>4
<1> QED  BY <1>4, <1>5, <1>6, <1>7 DEF Operations

LEMMA ApplyKeeps ==
  ASSUME IInv, NEW n \in Nodes, Apply(n)
  PROVE  IInv'
<1> DEFINE j == journal[n].job op == Operation(j)
           a == [times |-> applied[j].times + 1, boot |-> host[n].boot]
<1>1. /\ TypeOK /\ pc[n] = "intent" /\ ~ReadOnly(j)
      /\ applied' = [applied EXCEPT ![j] = [times |-> @.times + 1, boot |-> host[n].boot]]
      /\ UNCHANGED <<portalKept, linkVars, unrest, journal, receipts, fence, releases, torn>>
  BY DEF IInv, Apply, portalVars, portalKept, authorityVars, diskVars
<1>2. /\ j # NoJob /\ j \in Jobs /\ NodeOf(j) = n /\ job[j].status # "absent"
      /\ receipts[j] = NoDoc /\ applied[j].times = 0 /\ job[j].claimed
      /\ journal[n].before \in Observations /\ journal[n].before.boot <= host[n].boot
      /\ journal[n].before.level <= Reached(n)
  BY <1>1, WorkFacts
<1>3. /\ op \in Operations /\ op \notin {"inspect", "verify"} /\ HostOK(n)
      /\ journal[n].before.boot = host[n].boot /\ journal[n].phase = "intent"
      /\ JournalOK(n)
  BY <1>1, <1>2, Working DEF ReadOnly, IInv, NodeOK, WorkerOK
<1>4. PICK h \in Effects(op, host[n]) : host' = [host EXCEPT ![n] = h]
  BY DEF Apply
<1>5. /\ h \in [boot : Nat, pending : BOOLEAN, shutdown : BOOLEAN,
                level : Levels, staged : Levels]
      /\ h.boot = host[n].boot /\ h.staged \in {0, 2}
      /\ Max({h.level, h.staged}) >= Reached(n)
      /\ Max({h.level, h.staged}) >= Target(op)
  BY <1>1, <1>3, EffectsAre
<1>6. /\ host' \in [Nodes -> [boot : Nat, pending : BOOLEAN, shutdown : BOOLEAN,
                              level : Levels, staged : Levels]]
      /\ host'[n] = h /\ \A x \in Nodes \ {n} : host'[x] = host[x]
  BY <1>1, <1>4, <1>5 DEF TypeOK
<1>7. /\ \A x \in Nodes : host'[x].boot = host[x].boot
      /\ \A x \in Nodes \ {n} : Reached(x)' = Reached(x)
      /\ Reached(n)' >= Reached(n) /\ Reached(n)' >= Target(op)
  BY <1>5, <1>6 DEF Reached
<1>8. Reached(n) \in 0 .. 3 /\ Reached(n)' \in Nat /\ host[n].boot \in Nat
  <2>1. Reached(n) \in 0 .. 3 /\ host[n].boot \in Nat
    BY <1>1, HostTyped DEF Levels
  <2>2. h.level \in Nat /\ h.staged \in Nat
    BY <1>5 DEF Levels
  <2>3. Max({h.level, h.staged}) \in Nat
    BY <2>2, MaxOfPair
  <2> QED  BY <1>6, <2>1, <2>3 DEF Reached
<1>9. /\ applied' \in [Jobs -> [times : Nat, boot : Nat]]
      /\ applied'[j].times = 1 /\ applied'[j].boot = host[n].boot
      /\ \A i \in Jobs \ {j} : applied'[i] = applied[i]
  <2>1. applied' = [applied EXCEPT ![j] = a]
    BY <1>1
  <2>2. a \in [times : Nat, boot : Nat] /\ a.times = 1 /\ a.boot = host[n].boot
    BY <1>2, <1>8
  <2> HIDE DEF a
  <2> QED  BY <1>1, <1>2, <2>1, <2>2 DEF TypeOK
<1>10. /\ pc' \in [Nodes -> Places] /\ outcome' \in [Nodes -> Docs]
       /\ \A x \in Nodes \ {n} : pc'[x] = pc[x] /\ outcome'[x] = outcome[x]
       /\ \/ pc'[n] = "applied"
          \/ pc'[n] = "finishing" /\ outcome'[n] = Uncertain(j, NoDoc) /\ op # "reboot"
  <2>1. Uncertain(j, NoDoc) \in Docs
    BY DEF Uncertain, Doc, Docs, Reports, Views
  <2> QED  BY <1>1, <2>1, AgentTyped DEF Apply, Conclude, Goto, Places
<1>11. Linked(n) /\ reply'[n] = reply[n] /\ request'[n] = NoRequest
  BY <1>1, LinksStay, Quiescent
<1>12. Moves(n)
  BY <1>1, <1>10, AgentTyped DEF Moves
<1>13. TypeOK' /\ Elsewhere(n)
  BY <1>1, <1>2, <1>6, <1>9, <1>11, <1>12, MovesTyped DEF TypeOK
<1>14. job' = job /\ RowOK(j) /\ job[j].status \notin Terminal
  <2>1. job' = job /\ RowOK(j)
    BY <1>1, <1>2 DEF portalKept, IInv, PortalOK
  <2> QED  BY <1>2, <2>1 DEF RowOK, Terminal
<1>15. ASSUME NEW i \in Jobs \ {j}, NEW d \in Reports, DocOK(i, d)
       PROVE  DocOK(i, d)'
  <2>1. i \in Inspections /\ Fresh(i, d) => Fresh(i, d)'
    <3> SUFFICES ASSUME i \in Inspections, Fresh(i, d), NEW k \in StepJobs, Later(i, k)
                 PROVE  /\ d.seen.boot >= applied'[k].boot
                        /\ receipts[k] # NoDoc /\ receipts[k].seen # NoDoc =>
                             d.seen.boot >= receipts[k].seen.boot
      BY <1>1, <1>14 DEF Fresh, Later
    <3>1. job[k].status \in Terminal /\ k \in Jobs
      BY JobFacts DEF IInv, PortalOK, LaterOK
    <3>2. applied'[k] = applied[k]
      BY <1>9, <1>14, <3>1
    <3> QED  BY <3>2 DEF Fresh
  <2>2. NodeOf(i) \in Nodes /\ applied'[i] = applied[i] /\ host'[NodeOf(i)].boot = host[NodeOf(i)].boot
    BY <1>7, <1>9, JobFacts
  <2>3. Reached(NodeOf(i))' >= Reached(NodeOf(i)) /\ Reached(NodeOf(i)) \in Nat
        /\ Reached(NodeOf(i))' \in Nat
    <3>1. Reached(NodeOf(i)) \in Nat
      BY <1>1, <2>2, HostTyped DEF Levels
    <3> QED  BY <1>7, <1>8, <2>2, <3>1
  <2>4. d.seen # NoDoc => d.seen.level \in Nat
    BY DEF Reports, Views, Observations, Levels
  <2>5. Target(Operation(i)) \in Nat
    <3>1. Operation(i) \in Operations
      BY JobFacts
    <3> QED  BY <3>1 DEF Target, Operations
  <2> QED  BY <1>14, <1>15, <2>1, <2>2, <2>3, <2>4, <2>5 DEF DocOK
<1>16. ASSUME NEW i \in Jobs, NodeOf(i) = n PROVE RowOK(i)' /\ JobOK(i)'
  <2>1. CASE i = j
    <3>1. RowOK(i)'
      BY <1>1, <1>2, <1>9, <1>14, <2>1 DEF RowOK
    <3>2. ReceiptOK(i)'
      BY <1>1, <1>2, <2>1 DEF ReceiptOK
    <3>3. AppliedOK(i)'
      BY <1>1, <1>2, <1>3, <1>5, <1>6, <1>8, <1>9, <1>14, <2>1 DEF AppliedOK
    <3> QED  BY <3>1, <3>2, <3>3 DEF JobOK
  <2>2. CASE i # j
    <3>1. applied'[i] = applied[i]
      BY <1>9, <2>2
    <3>2. RowOK(i)'
      BY <1>1, <1>14, <3>1 DEF IInv, PortalOK, RowOK
    <3>3. ReceiptOK(i)'
      <4>1. receipts[i] # NoDoc => receipts[i] \in Reports
        BY <1>1, RowTyped DEF Docs
      <4> QED  BY <1>1, <1>15, <2>2, <4>1 DEF IInv, JobOK, ReceiptOK
    <3>4. AppliedOK(i)'
      BY <1>1, <1>7, <1>14, <1>16, <3>1 DEF IInv, JobOK, AppliedOK
    <3> QED  BY <3>2, <3>3, <3>4 DEF JobOK
  <2> QED  BY <2>1, <2>2
<1>17. \A m \in Requests : MessageOK(n, m) => MessageOK(n, m)'
  <2> SUFFICES ASSUME NEW m \in Requests, MessageOK(n, m) PROVE MessageOK(n, m)'
    OBVIOUS
  <2>1. m.mode \in {"claim", "result"} => m.job \in Jobs
    BY DEF MessageOK, Requests
  <2>2. m.mode = "result" => m.job # j
    <3> SUFFICES ASSUME m.mode = "result", m.job = j PROVE FALSE
      OBVIOUS
    <3>1. RebootNotice(j, m.doc)
      BY <1>2 DEF MessageOK
    <3> QED  BY <1>2, <3>1 DEF RebootNotice
  <2>3. m.mode = "result" => applied'[m.job] = applied[m.job]
    BY <1>9, <2>1, <2>2
  <2> QED  BY <1>1, <1>14, <2>1, <2>3 DEF MessageOK, RebootNotice
<1>18. NodeOK(n)'
  <2>1. HostOK(n)' /\ SoleFence(n)'
    BY <1>1, <1>5, <1>6 DEF IInv, NodeOK, HostOK, SoleFence, OpenFence
  <2>2. JournalOK(n)'
    <3>1. journal[n].before # NoDoc /\ journal[n].before.level \in Nat
          /\ journal[n].before.boot \in Nat
      BY <1>2, HgsAssumption DEF Observations, Levels, HgsAssumption
    <3>2. journal[n].before.level <= Reached(n)'
      BY <1>2, <1>7, <1>8, <3>1
    <3> QED  BY <1>1, <1>2, <1>3, <1>5, <1>6, <1>9, <1>14, <3>1, <3>2 DEF JournalOK
  <2>3. WorkerOK(n)'
    <3>1. pc'[n] = "finishing" => outcome'[n] # NoDoc /\ DocOK(journal[n].job, outcome[n])'
      <4> SUFFICES ASSUME pc'[n] = "finishing"
                   PROVE  outcome'[n] # NoDoc /\ DocOK(journal[n].job, outcome[n])'
        OBVIOUS
      <4>1. outcome'[n] = Uncertain(j, NoDoc)
        BY <1>10
      <4>2. /\ outcome'[n] \in Reports /\ outcome'[n].status = "reconciliation_required"
            /\ outcome'[n].seen = NoDoc
        BY <4>1 DEF Uncertain, Doc, Reports, Views
      <4>3. outcome'[n] # NoDoc
        BY <4>2, HgsAssumption DEF HgsAssumption
      <4> QED  BY <1>1, <1>2, <1>14, <4>2, <4>3 DEF DocOK
    <3> QED  BY <1>1, <1>2, <1>3, <1>7, <1>9, <1>10, <3>1 DEF WorkerOK
  <2>4. ExchangeOK(n)' /\ ReplyOK(n)' /\ MessageOK(n, request'[n])
    BY <1>1, <1>10, <1>11, Silences
  <2>5. MessageOK(n, request[n])'
    BY <1>11 DEF MessageOK, NoRequest, Message
  <2> QED  BY <2>1, <2>2, <2>3, <2>4, <2>5 DEF NodeOK
<1>19. ASSUME NEW k \in StepJobs, NodeOf(k) = n
       PROVE  FenceOK(k)' /\ (job[k].status = "succeeded" => OnMachine(k)')
  <2>1. k \in Jobs
    BY JobFacts
  <2>2. FenceOK(k)'
    BY <1>1, <1>19, FenceStays
  <2>3. job[k].status = "succeeded" => OnMachine(k)'
    <3> SUFFICES ASSUME job[k].status = "succeeded" PROVE OnMachine(k)'
      OBVIOUS
    <3>1. k # j
      BY <1>14 DEF Terminal
    <3>2. /\ applied'[k] = applied[k] /\ OnMachine(k)
      BY <1>9, <2>1, <3>1 DEF IInv, ProvenOnTheMachine, OnMachine, Reached
    <3>3. Target(Operation(k)) \in Nat
      <4>1. Operation(k) \in Operations
        BY <2>1, JobFacts
      <4> QED  BY <4>1 DEF Target, Operations
    <3> QED  BY <1>7, <1>8, <1>19, <3>2, <3>3 DEF OnMachine
  <2> QED  BY <2>2, <2>3
<1>20. pc'[n] \notin {"reporting", "delivering"}
  BY <1>10
<1> QED  BY <1>1, <1>13, <1>16, <1>17, <1>18, <1>19, <1>20, AgentKeeps

\* A restart completes what was staged.
LEMMA RestartKeeps ==
  ASSUME IInv, NEW n \in Nodes, Restart(n)
  PROVE  IInv'
<1> DEFINE g == host[n]
           l == Max({g.level, g.staged})
           h == [boot |-> g.boot + 1, pending |-> FALSE, shutdown |-> FALSE,
                 level |-> l, staged |-> 0]
           H == [boot : Nat, pending : BOOLEAN, shutdown : BOOLEAN,
                 level : Levels, staged : Levels]
<1>1. /\ TypeOK
      /\ host' = [host EXCEPT ![n] =
           [boot |-> @.boot + 1, pending |-> FALSE, shutdown |-> FALSE,
            level |-> Max({@.level, @.staged}), staged |-> 0]]
      /\ pc' = [pc EXCEPT ![n] = "idle"] /\ outcome' = [outcome EXCEPT ![n] = NoDoc]
      /\ torn' \in {torn, torn \cup {n}}
      /\ Close(n) /\ (UNCHANGED <<late, unrest>> \/ (UNCHANGED late /\ Disturbed) \/ Delay(n))
      /\ UNCHANGED <<portalKept, journal, receipts, fence, releases, applied>>
  BY DEF IInv, Restart, Stop, Abandon, Goto
<1>2. host' = [host EXCEPT ![n] = h]
  BY <1>1
<1>3. /\ l \in Levels /\ g.boot \in Nat /\ g.level \in Nat /\ g.staged \in Nat
      /\ Reached(n) = l
  BY <1>1, HostTyped DEF Reached, Levels
<1>4. h \in H /\ h.boot = g.boot + 1 /\ h.level = l /\ h.staged = 0
  <2> HIDE DEF l
  <2>1. 0 \in Levels
    BY DEF Levels
  <2> QED  BY <1>3, <2>1
<1>5. /\ host' \in [Nodes -> H] /\ host'[n] = h
      /\ \A x \in Nodes \ {n} : host'[x] = host[x]
  <2> HIDE DEF h
  <2> QED  BY <1>1, <1>2, <1>4 DEF TypeOK
<1>6. Reached(n)' = Reached(n)
  <2> HIDE DEF l
  <2>1. Reached(n)' = Max({l, 0})
    <3> HIDE DEF h
    <3> QED  BY <1>4, <1>5 DEF Reached
  <2>2. l \in Nat
    BY <1>3 DEF Levels
  <2>3. Max({l, 0}) = l
    BY <2>2, MaxOfPair
  <2> QED  BY <1>3, <2>1, <2>3
<1>7. host'[n].boot = host[n].boot + 1 /\ host'[n].staged = 0
  <2> HIDE DEF h
  <2> QED  BY <1>4, <1>5
<1> HIDE DEF h, l, g
<1>8. Linked(n) /\ reply'[n] = NoReply /\ request'[n] = NoRequest
  BY <1>1, Closes
<1>9. Moves(n) /\ pc'[n] = "idle"
  BY <1>1, AgentTyped DEF Moves, Places, Docs
<1>10. TypeOK' /\ Elsewhere(n)
  BY <1>1, <1>5, <1>8, <1>9, MovesTyped DEF TypeOK
<1>11. job' = job
  BY <1>1 DEF portalKept
<1>12. ASSUME NEW i \in Jobs, NEW d \in Reports, NodeOf(i) = n, DocOK(i, d)
       PROVE  DocOK(i, d)'
  <2>1. Fresh(i, d) => Fresh(i, d)'
    BY <1>1, <1>11 DEF Fresh, Later
  <2>2. d.seen # NoDoc => d.seen.boot \in Nat
    BY DEF Reports, Views, Observations
  <2>3. host[n].boot \in Nat
    BY <1>1, HostTyped
  <2> QED  BY <1>1, <1>6, <1>7, <1>11, <1>12, <2>1, <2>2, <2>3 DEF DocOK
<1>13. ASSUME NEW i \in Jobs, NodeOf(i) = n PROVE RowOK(i)' /\ JobOK(i)'
  <2>1. RowOK(i)'
    BY <1>1, <1>11 DEF IInv, PortalOK, RowOK
  <2>2. ReceiptOK(i)'
    <3>1. receipts[i] # NoDoc => receipts[i] \in Reports
      BY <1>1, RowTyped DEF Docs
    <3> QED  BY <1>1, <1>12, <1>13, <3>1 DEF IInv, JobOK, ReceiptOK
  <2>3. AppliedOK(i)'
    <3>1. applied[i].boot \in Nat /\ host[n].boot \in Nat
      BY <1>1, HostTyped DEF TypeOK
    <3> QED  BY <1>1, <1>7, <1>11, <1>13, <3>1 DEF IInv, JobOK, AppliedOK
  <2> QED  BY <2>1, <2>2, <2>3 DEF JobOK
<1>14. \A m \in Requests : MessageOK(n, m) => MessageOK(n, m)'
  BY <1>1, <1>11 DEF MessageOK, RebootNotice
<1>15. NodeOK(n)'
  <2>1. HostOK(n)' /\ SoleFence(n)'
    BY <1>1, <1>7 DEF IInv, NodeOK, HostOK, SoleFence, OpenFence
  <2>2. JournalOK(n)'
    <3>1. journal[n].before # NoDoc => journal[n].before.boot \in Nat
      BY <1>1 DEF TypeOK, Views, Observations
    <3>2. host[n].boot \in Nat
      BY <1>1, HostTyped
    <3> QED  BY <1>1, <1>6, <1>7, <1>11, <3>1, <3>2 DEF IInv, NodeOK, JournalOK
  <2>3. WorkerOK(n)'
    BY <1>9 DEF WorkerOK
  <2>4. ExchangeOK(n)' /\ ReplyOK(n)' /\ MessageOK(n, request'[n])
    BY <1>1, <1>8, <1>9, Silences
  <2>5. MessageOK(n, request[n])'
    BY <1>8 DEF MessageOK, NoRequest, Message
  <2> QED  BY <2>1, <2>2, <2>3, <2>4, <2>5 DEF NodeOK
<1>16. ASSUME NEW k \in StepJobs, NodeOf(k) = n
       PROVE  FenceOK(k)' /\ (job[k].status = "succeeded" => OnMachine(k)')
  <2>1. k \in Jobs
    BY JobFacts
  <2>2. FenceOK(k)'
    BY <1>1, <1>9, <1>16, FenceStays
  <2>3. job[k].status = "succeeded" => OnMachine(k)'
    <3>1. applied[k].boot \in Nat /\ host[n].boot \in Nat
      BY <1>1, <2>1, HostTyped DEF TypeOK
    <3>2. job[k].status = "succeeded" => OnMachine(k)
      BY <2>1 DEF IInv, ProvenOnTheMachine, OnMachine, Reached
    <3> QED  BY <1>1, <1>6, <1>7, <1>16, <3>1, <3>2 DEF OnMachine
  <2> QED  BY <2>2, <2>3
<1> QED  BY <1>1, <1>9, <1>10, <1>13, <1>14, <1>15, <1>16, AgentKeeps

LEMMA AgentStepKeeps ==
  ASSUME IInv, NEW n \in Nodes, Agent(n) \/ HangUp(n) \/ Crash(n) \/ Restart(n)
  PROVE  IInv'
<1>1. ASSUME NEW seen \in MaySee(n),
             Recover(n, seen) \/ Observe(n, seen) \/ InspectAfter(n, seen)
      PROVE  IInv'
  BY <1>1, RecoverKeeps, ObserveKeeps, InspectAfterKeeps
<1>2. CASE HangUp(n) \/ Crash(n) \/ Restart(n)
  BY <1>2, HangUpKeeps, CrashKeeps, RestartKeeps
<1>3. CASE BeginCycle(n) \/ PreflightFails(n) \/ SaveReceipt(n) \/ SaveJournal(n)
  BY <1>3, BeginCycleKeeps, PreflightFailsKeeps, SaveReceiptKeeps, SaveJournalKeeps
<1>4. CASE Reported(n) \/ ReceivePoll(n) \/ SaveClaiming(n) \/ ClaimFails(n)
  BY <1>4, ReportedKeeps, ReceivePollKeeps, SaveClaimingKeeps, ClaimFailsKeeps
<1>5. CASE ClaimGranted(n) \/ AuthorityLost(n) \/ NothingToDo(n) \/ Apply(n)
  BY <1>5, ClaimGrantedKeeps, AuthorityLostKeeps, NothingToDoKeeps, ApplyKeeps
<1>6. CASE ApplyFails(n) \/ SaveRebootWait(n) \/ Refusal(n)
  BY <1>6, ApplyFailsKeeps, SaveRebootWaitKeeps, RefusalKeeps
<1> QED  BY <1>1, <1>2, <1>3, <1>4, <1>5, <1>6 DEF Agent

-----------------------------------------------------------------------------
(* The invariant.                                                          *)

LEMMA InitOK ==
  ASSUME Init
  PROVE  IInv
<1>1. /\ NoRow \in Rows /\ NoRequest \in Requests /\ NoReply \in Replies
      /\ NoJournal \in Journals /\ NoDoc \in Docs
  <2>1. NoJournal \in Journals /\ NoDoc \in Docs
    BY DEF NoJournal, Journals, Views, Docs
  <2>2. NoRequest \in Requests /\ NoReply \in Replies
    BY <2>1 DEF NoRequest, Message, Requests, NoReply, Answer, Replies
  <2>3. 0 \in 0 .. Rounds
    BY HgsAssumption DEF HgsAssumption
  <2> QED  BY <2>1, <2>2, <2>3 DEF NoRow, Rows
<1>2. TypeOK
  <2>1. 0 \in 0 .. MaxUnrest
    BY HgsAssumption DEF HgsAssumption
  <2>2. plan \in Plans
    BY DEF Init, Plans
  <2>3. host \in [Nodes -> [boot : Nat, pending : BOOLEAN, shutdown : BOOLEAN,
                            level : Levels, staged : Levels]]
    BY DEF Init, Levels
  <2>4. applied \in [Jobs -> [times : Nat, boot : Nat]]
    BY DEF Init
  <2>5. job \in [Jobs -> Rows] /\ journal \in [Nodes -> Journals]
    BY <1>1 DEF Init
  <2>6. request \in [Nodes -> Requests] /\ reply \in [Nodes -> Replies]
    BY <1>1 DEF Init
  <2>7. /\ receipts \in [Jobs -> Docs] /\ outcome \in [Nodes -> Docs]
        /\ fence \in [Nodes -> Jobs \cup {NoJob}] /\ pc \in [Nodes -> Places]
    BY <1>1 DEF Init, Places
  <2>8. /\ clean \subseteq Nodes /\ recent \subseteq Inspections /\ tenantActive \in BOOLEAN
        /\ permitted \subseteq Managers /\ unrest \in 0 .. MaxUnrest
        /\ late \subseteq Nodes \X Requests /\ releases \subseteq Jobs /\ torn \subseteq Nodes
    BY <2>1 DEF Init
  <2> QED  BY <2>2, <2>3, <2>4, <2>5, <2>6, <2>7, <2>8 DEF TypeOK, Plans, Rows, Journals, Places
<1>3. \A j \in Jobs :
        /\ job[j] = NoRow /\ receipts[j] = NoDoc
        /\ applied[j].times = 0 /\ applied[j].boot = 0
  BY DEF Init
<1>4. \A n \in Nodes :
        /\ journal[n] = NoJournal /\ fence[n] = NoJob /\ pc[n] = "idle"
        /\ request[n] = NoRequest /\ reply[n] = NoReply
        /\ host[n].staged = 0 /\ host[n].boot = 1
  BY DEF Init
<1>5. PortalOK
  <2>1. \A j \in Jobs : RowOK(j)
    BY <1>3 DEF RowOK, NoRow, Terminal
  <2>2. 0 \in 0 .. Rounds /\ Rounding(0)
    <3>1. 0 \in 0 .. Rounds
      BY HgsAssumption DEF HgsAssumption
    <3>2. \A j \in Inspections : ~(j[3] <= 0)
      BY JobFacts
    <3> QED  BY <1>3, <3>1, <3>2, JobFacts DEF Rounding, NoRow
  <2>3. OrderOK /\ PlanOK /\ LaterOK
    BY <1>3, JobFacts DEF OrderOK, PlanOK, LaterOK, Later, NoRow
  <2> QED  BY <2>1, <2>2, <2>3 DEF PortalOK, RoundsOK
<1>6. ASSUME NEW n \in Nodes PROVE NodeOK(n)
  <2>1. HostOK(n) /\ JournalOK(n) /\ WorkerOK(n)
    BY <1>4 DEF HostOK, JournalOK, WorkerOK, NoJournal
  <2>2. ExchangeOK(n) /\ ReplyOK(n) /\ MessageOK(n, request[n])
    BY <1>4 DEF ExchangeOK, ReplyOK, MessageOK, NoRequest, Message, NoReply, Answer
  <2>3. SoleFence(n)
    BY <1>4 DEF SoleFence, OpenFence
  <2> QED  BY <2>1, <2>2, <2>3 DEF NodeOK
<1>7. \A j \in Jobs : JobOK(j)
  <2>1. ASSUME NEW j \in Jobs PROVE applied[j].boot <= host[NodeOf(j)].boot
    BY <1>3, <1>4, JobFacts
  <2> QED  BY <1>3, <2>1 DEF JobOK, ReceiptOK, AppliedOK
<1>8. \A k \in StepJobs : FenceOK(k)
  BY <1>3, JobFacts DEF FenceOK, Uncertainty
<1>9. late = {} /\ ProvenOnTheMachine
  BY <1>3, JobFacts DEF Init, ProvenOnTheMachine, NoRow
<1>10. NoReportRefused
  BY <1>4 DEF NoReportRefused
<1> QED  BY <1>2, <1>5, <1>6, <1>7, <1>8, <1>9, <1>10 DEF IInv

LEMMA StutterKeeps ==
  ASSUME IInv, UNCHANGED vars
  PROVE  IInv'
<1>1. /\ UNCHANGED linkVars /\ UNCHANGED <<portalKept, unrest>> /\ UNCHANGED agentVars
      /\ UNCHANGED <<receipts, applied, host>>
  BY DEF vars, portalVars, portalKept, authorityVars, agentVars, diskVars
<1>2. TypeOK'
  BY <1>1 DEF IInv, TypeOK, portalKept, linkVars, agentVars, diskVars
<1>3. \A j \in Jobs : RowMoves(j) /\ ~Created(j)
  BY <1>1, RowsStay DEF portalKept, Kept
<1>4. PlanOK'
  BY <1>1 DEF IInv, PortalOK, PlanOK, portalKept
<1>5. PortalMoves
  BY <1>1, <1>3, <1>4, OldRowsMove DEF portalKept
<1> QED  BY <1>1, <1>2, <1>5, RequestKeeps

LEMMA NextKeeps ==
  ASSUME IInv, [Next]_vars
  PROVE  IInv'
<1>1. CASE User /\ UNCHANGED agentVars
  BY <1>1, UserKeeps
<1>2. ASSUME NEW n \in Nodes, NEW m, NEW live \in BOOLEAN,
             Gateway(n, m, live) \/ Withhold(n, m, live), UNCHANGED agentVars
      PROVE  IInv'
  BY <1>2, GatewayKeeps
<1>3. ASSUME NEW n \in Nodes, Agent(n) \/ HangUp(n) \/ Crash(n) \/ Restart(n)
      PROVE  IInv'
  BY <1>3, AgentStepKeeps
<1>4. CASE Calm
  BY <1>1, <1>2, <1>3, <1>4 DEF Calm
<1>5. ASSUME NEW d \in late,
             (Gateway(d[1], d[2], FALSE) \/ Withhold(d[1], d[2], FALSE)) /\ UNCHANGED agentVars
      PROVE  IInv'
  <2>1. d[1] \in Nodes
    BY DEF IInv, TypeOK
  <2> QED  BY <1>2, <1>5, <2>1
<1>6. CASE UNCHANGED vars
  BY <1>6, StutterKeeps
<1> QED  BY <1>2, <1>3, <1>4, <1>5, <1>6 DEF Next, Interruption

\* The inductive invariant holds, whatever is lost, delayed, withdrawn or
\* stopped: HgsInvariant.
THEOREM HgsInvariantHolds == Spec => []IInv
<1>1. Init => IInv
  BY InitOK
<1>2. IInv /\ [Next]_vars => IInv'
  BY NextKeeps
<1> QED  BY <1>1, <1>2, PTL DEF Spec

-----------------------------------------------------------------------------
(* What follows from it.                                                   *)

\* The variables keep their types: every row, message and receipt is one the
\* services and the Agents write.
THEOREM Typed == Spec => []TypeOK
<1>1. IInv => TypeOK
  BY DEF IInv
<1> QED  BY <1>1, HgsInvariantHolds, PTL

\* What the portal counts as done is so on the machine (accept_result,
\* reconcile_uncertain).
THEOREM DoneOnTheMachine == Spec => []ProvenOnTheMachine
<1>1. IInv => ProvenOnTheMachine
  BY DEF IInv
<1> QED  BY <1>1, HgsInvariantHolds, PTL

\* No Agent is ever told that the report it repeats is refused (accept_result
\* against the receipt of the Agent).
THEOREM ReportsTaken == Spec => []NoReportRefused
<1>1. IInv => NoReportRefused
  BY DEF IInv
<1> QED  BY <1>1, HgsInvariantHolds, PTL

\* A step shown as failed or cancelled has left its machine alone
\* (UNCLAIMED_FAILURES, recover and finish of the Agent).
THEOREM FailuresTouchNothing == Spec => []FailedStepsTouchNothing
<1>1. ASSUME IInv, NEW j \in StepJobs, job[j].status \in {"failed", "cancelled"}
      PROVE  applied[j].times = 0
  <2>1. j \in Jobs
    BY JobFacts
  <2>2. RowOK(j) /\ JobOK(j) /\ applied[j].times \in Nat
    BY <1>1, <2>1 DEF IInv, PortalOK, TypeOK
  <2>3. CASE job[j].status = "failed"
    BY <2>2, <2>3 DEF RowOK, Terminal, JobOK, ReceiptOK, DocOK
  <2>4. CASE job[j].status = "cancelled"
    BY <2>2, <2>4 DEF RowOK, JobOK, AppliedOK
  <2> QED  BY <1>1, <2>3, <2>4
<1>2. IInv => FailedStepsTouchNothing
  BY <1>1 DEF FailedStepsTouchNothing
<1> QED  BY <1>2, HgsInvariantHolds, PTL


\* Only the provider changes a machine for a step.
LEMMA OnlyApply ==
  ASSUME [Next]_vars, applied' # applied
  PROVE  \E n \in Nodes : Apply(n)
<1>1. UNCHANGED agentVars => FALSE
  BY DEF agentVars
<1>2. ASSUME NEW n \in Nodes, NEW seen,
             Recover(n, seen) \/ Observe(n, seen) \/ InspectAfter(n, seen)
      PROVE  FALSE
  BY <1>2 DEF Recover, Observe, InspectAfter
<1>3. ASSUME NEW n \in Nodes,
             BeginCycle(n) \/ PreflightFails(n) \/ SaveReceipt(n) \/ SaveJournal(n)
             \/ Reported(n) \/ ReceivePoll(n) \/ SaveClaiming(n) \/ ClaimFails(n)
      PROVE  FALSE
  BY <1>3 DEF BeginCycle, PreflightFails, SaveReceipt, SaveJournal, Reported,
     ReceivePoll, SaveClaiming, ClaimFails
<1>4. ASSUME NEW n \in Nodes,
             ClaimGranted(n) \/ AuthorityLost(n) \/ NothingToDo(n) \/ ApplyFails(n)
             \/ SaveRebootWait(n) \/ Refusal(n)
      PROVE  FALSE
  BY <1>4 DEF ClaimGranted, AuthorityLost, NothingToDo, ApplyFails, SaveRebootWait, Refusal
<1>5. ASSUME NEW n \in Nodes, HangUp(n) \/ Crash(n) \/ Restart(n)
      PROVE  FALSE
  BY <1>5 DEF HangUp, Crash, Restart, Stop
<1>6. \A n \in Nodes : Agent(n) => Apply(n)
  BY <1>2, <1>3, <1>4 DEF Agent
<1>7. ~UNCHANGED vars
  BY DEF vars, agentVars
<1> QED  BY <1>1, <1>5, <1>6, <1>7 DEF Next, Calm, Interruption

\* What it finds: a step that the portal granted and still waits for.
LEMMA AppliedStep ==
  ASSUME IInv, NEW n \in Nodes, Apply(n)
  PROVE  LET j == journal[n].job IN
         /\ j \in StepJobs /\ NodeOf(j) = n /\ receipts[j] = NoDoc /\ pc[n] = "intent"
         /\ applied[j].times = 0
         /\ job[j].claimed /\ job[j].status \in {"running", "waiting_for_reboot"}
         /\ applied' = [applied EXCEPT ![j] =
                          [times |-> applied[j].times + 1, boot |-> host[n].boot]]
<1> DEFINE j == journal[n].job
<1>1. /\ TypeOK /\ pc[n] = "intent" /\ ~ReadOnly(j)
      /\ applied' = [applied EXCEPT ![j] = [times |-> @.times + 1, boot |-> host[n].boot]]
  BY DEF IInv, Apply
<1>2. /\ j \in Jobs /\ NodeOf(j) = n /\ receipts[j] = NoDoc
      /\ applied[j].times = 0 /\ job[j].claimed
  BY <1>1, WorkFacts
<1>3. j \in StepJobs
  BY <1>1, <1>2, JobFacts DEF ReadOnly
<1>4. RowOK(j)
  BY <1>2 DEF IInv, PortalOK
<1>5. job[j].status \in {"running", "waiting_for_reboot"}
  BY <1>2, <1>4 DEF RowOK, Terminal
<1> QED  BY <1>1, <1>2, <1>3, <1>5

\* No machine is changed under a plan that is shown as cancelled, failed or
\* succeeded (fence_plan, accept_result).
THEOREM SettledPlansLeaveMachines == Spec => SettledPlansAreQuiet
<1>1. ASSUME IInv, [Next]_vars, applied' # applied
      PROVE  plan.status \in {"running", "waiting_for_reboot", "reconciliation_required"}
  <2>1. PICK n \in Nodes : Apply(n)
    BY <1>1, OnlyApply
  <2>2. PICK j \in StepJobs : job[j].status \in {"running", "waiting_for_reboot"}
    BY <1>1, <2>1, AppliedStep
  <2> QED  BY <1>1, <2>2 DEF IInv, PortalOK, PlanOK
<1>2. IInv /\ [Next]_vars =>
        [applied' # applied =>
           plan.status \in {"running", "waiting_for_reboot", "reconciliation_required"}]_vars
  BY <1>1
<1> QED  BY <1>2, HgsInvariantHolds, PTL DEF Spec, SettledPlansAreQuiet

\* An uncertain step keeps its machine from changes until its release is on the
\* disk (load_hgs_journal, permitted_while_fenced).
THEOREM UncertainStepsHold == Spec => UncertainStepsFence
<1>1. ASSUME IInv, [Next]_vars,
             NEW j \in StepJobs, applied'[j] # applied[j],
             NEW k \in StepJobs \ releases, NodeOf(k) = NodeOf(j), receipts[k] # NoDoc
      PROVE  receipts[k].status # "reconciliation_required"
  <2> SUFFICES ASSUME Uncertainty(k) PROVE FALSE
    BY <1>1 DEF Uncertainty
  <2>1. PICK n \in Nodes : Apply(n)
    BY <1>1, OnlyApply
  <2>2. /\ journal[n].job \in StepJobs /\ receipts[journal[n].job] = NoDoc
        /\ NodeOf(journal[n].job) = n /\ pc[n] = "intent"
        /\ \A i \in Jobs : i # journal[n].job => applied'[i] = applied[i]
    <3>1. applied \in [Jobs -> [times : Nat, boot : Nat]]
      BY <1>1 DEF IInv, TypeOK
    <3>2. applied' =
            [applied EXCEPT ![journal[n].job] =
               [times |-> applied[journal[n].job].times + 1, boot |-> host[n].boot]]
      BY <1>1, <2>1, AppliedStep
    <3>3. /\ journal[n].job \in StepJobs /\ receipts[journal[n].job] = NoDoc
          /\ NodeOf(journal[n].job) = n /\ pc[n] = "intent"
      BY <1>1, <2>1, AppliedStep
    <3> QED  BY <3>1, <3>2, <3>3
  <2>3. j = journal[n].job
    BY <1>1, <2>2, JobFacts
  <2>4. NodeOf(k) = n /\ fence[n] = k
    BY <1>1, <2>2, <2>3 DEF IInv, FenceOK
  <2>5. k \in {NoJob, journal[n].job}
    BY <1>1, <2>2, <2>4 DEF IInv, NodeOK, SoleFence, OpenFence
  <2> QED  BY <1>1, <2>2, <2>5, JobFacts DEF Uncertainty
<1>2. IInv /\ [Next]_vars =>
        [\A j \in StepJobs : applied'[j] # applied[j] =>
           \A k \in StepJobs \ releases :
             NodeOf(k) = NodeOf(j) /\ receipts[k] # NoDoc =>
               receipts[k].status # "reconciliation_required"]_vars
  BY <1>1
<1> QED  BY <1>2, HgsInvariantHolds, PTL DEF Spec, UncertainStepsFence

-----------------------------------------------------------------------------
(* The plan of steps (SteppedPlan) that the system implements.              *)

Claimed == {j \in StepJobs : job[j].claimed}
Done == {j \in StepJobs : job[j].status = "succeeded"}

\* What the portal does is a step of the plan or none: any row but one is
\* either done or not yet there.
LEMMA OneRowMoves ==
  ASSUME IInv, IInv', PortalMoves, NEW k \in StepJobs,
         job[k].status \notin {"absent", "succeeded"}
  PROVE  \A i \in StepJobs \ {k} :
           /\ job'[i].claimed <=> job[i].claimed
           /\ job'[i].status = "succeeded" <=> job[i].status = "succeeded"
           /\ job[i].status = "succeeded" <=> i \in Earlier(k)
<1> SUFFICES ASSUME NEW i \in StepJobs \ {k}
             PROVE  /\ job'[i].claimed <=> job[i].claimed
                    /\ job'[i].status = "succeeded" <=> job[i].status = "succeeded"
                    /\ job[i].status = "succeeded" <=> i \in Earlier(k)
  OBVIOUS
<1>1. job[i].status = IF i \in Earlier(k) THEN "succeeded" ELSE "absent"
  BY OneOpen
<1>2. i \in Jobs /\ RowMoves(i) /\ RowOK(i)
  BY JobFacts DEF PortalMoves, IInv, PortalOK
<1>3. job[i].claimed \in BOOLEAN /\ job'[i].claimed \in BOOLEAN
  BY <1>2 DEF IInv, TypeOK
<1>4. Quiet(i) \/ Created(i)
  BY <1>1, <1>2 DEF RowMoves, Granted, Receipted, Awaited, Told, Resolved, Active
<1>5. CASE Quiet(i)
  BY <1>1, <1>5 DEF Quiet, Kept
<1>6. CASE Created(i)
  <2>1. ~job[i].claimed
    BY <1>2, <1>6 DEF Created, RowOK
  <2> QED  BY <1>1, <1>3, <1>6, <2>1 DEF Created
<1> QED  BY <1>4, <1>5, <1>6

LEMMA PortalImplements ==
  ASSUME IInv, IInv', PortalMoves, UNCHANGED applied
  PROVE  \/ Claimed' = Claimed /\ Done' = Done
         \/ \E k \in StepJobs :
              \/ /\ k \notin Claimed /\ Done = Earlier(k)
                 /\ Claimed' = Claimed \cup {k} /\ Done' = Done
              \/ /\ k \in Claimed \ Done /\ Done' = Done \cup {k} /\ Claimed' = Claimed
<1>1. CASE \A k \in StepJobs : job[k].status \in {"absent", "succeeded"}
  <2>1. ASSUME NEW i \in StepJobs
        PROVE  /\ job'[i].claimed <=> job[i].claimed
               /\ job'[i].status = "succeeded" <=> job[i].status = "succeeded"
    <3>1. i \in Jobs /\ RowMoves(i) /\ RowOK(i)
      BY JobFacts DEF PortalMoves, IInv, PortalOK
    <3>2. job[i].claimed \in BOOLEAN /\ job'[i].claimed \in BOOLEAN
      BY <3>1 DEF IInv, TypeOK
    <3>3. Quiet(i) \/ Created(i)
      BY <1>1, <3>1 DEF RowMoves, Granted, Receipted, Awaited, Told, Resolved, Active
    <3>4. Created(i) => ~job[i].claimed
      BY <3>1 DEF Created, RowOK
    <3> QED  BY <1>1, <3>2, <3>3, <3>4 DEF Quiet, Created, Kept
  <2> QED  BY <2>1 DEF Claimed, Done
<1>2. ASSUME NEW k \in StepJobs, job[k].status \notin {"absent", "succeeded"}
      PROVE  \/ Claimed' = Claimed /\ Done' = Done
             \/ /\ k \notin Claimed /\ Done = Earlier(k)
                /\ Claimed' = Claimed \cup {k} /\ Done' = Done
             \/ /\ k \in Claimed \ Done /\ Done' = Done \cup {k} /\ Claimed' = Claimed
  <2>1. \A i \in StepJobs \ {k} :
           /\ job'[i].claimed <=> job[i].claimed
           /\ job'[i].status = "succeeded" <=> job[i].status = "succeeded"
           /\ job[i].status = "succeeded" <=> i \in Earlier(k)
    BY <1>2, OneRowMoves
  <2>2. k \in Jobs /\ RowMoves(k) /\ RowOK(k) /\ RowOK(k)'
    BY JobFacts DEF PortalMoves, IInv, PortalOK
  <2>3. job[k].claimed \in BOOLEAN /\ job'[k].claimed \in BOOLEAN
    BY <2>2 DEF IInv, TypeOK
  <2>4. CASE Granted(k)
    <3>1. ~job[k].claimed /\ job'[k].claimed /\ job'[k].status # "succeeded"
      BY <2>2, <2>4 DEF Granted, RowOK
    <3>2. Earlier(k) \subseteq StepJobs /\ k \notin Earlier(k)
      BY NotEarlier DEF Earlier
    <3> QED  BY <1>2, <2>1, <3>1, <3>2 DEF Claimed, Done
  <2>5. CASE ~Granted(k) /\ job'[k].status = "succeeded"
    <3>1. Told(k) \/ Resolved(k)
      BY <1>2, <2>2, <2>5 DEF RowMoves, Quiet, Created, Receipted, Awaited
    <3>2. job'[k].claimed
      BY <2>2, <2>3, <2>5 DEF RowOK
    <3>3. job[k].claimed
      BY <2>3, <3>1, <3>2 DEF Told, Resolved, Kept
    <3> QED  BY <1>2, <2>1, <2>5, <3>2, <3>3 DEF Claimed, Done
  <2>6. CASE ~Granted(k) /\ job'[k].status # "succeeded"
    <3>1. job'[k].claimed = job[k].claimed
      BY <1>2, <2>2, <2>6
         DEF RowMoves, Quiet, Created, Receipted, Awaited, Told, Resolved, Kept
    <3> QED  BY <1>2, <2>1, <2>6, <3>1 DEF Claimed, Done
  <2> QED  BY <2>4, <2>5, <2>6
<1> QED  BY <1>1, <1>2

\* A step of the system is a step of an Agent, or of the portal.
LEMMA PortalOrAgent ==
  ASSUME IInv, [Next]_vars
  PROVE  UNCHANGED portalKept \/ (PortalMoves /\ UNCHANGED agentVars)
<1>1. ASSUME NEW n \in Nodes, NEW seen,
             Recover(n, seen) \/ Observe(n, seen) \/ InspectAfter(n, seen)
      PROVE  UNCHANGED portalKept
  BY <1>1 DEF Recover, Observe, InspectAfter, portalVars, portalRows, portalKept, authorityVars
<1>2. ASSUME NEW n \in Nodes,
             BeginCycle(n) \/ PreflightFails(n) \/ SaveReceipt(n) \/ SaveJournal(n)
             \/ Reported(n) \/ ReceivePoll(n) \/ SaveClaiming(n) \/ ClaimFails(n)
      PROVE  UNCHANGED portalKept
  BY <1>2 DEF BeginCycle, PreflightFails, SaveReceipt, SaveJournal, Reported,
     ReceivePoll, SaveClaiming, ClaimFails, portalVars, portalRows, portalKept, authorityVars
<1>3. ASSUME NEW n \in Nodes,
             ClaimGranted(n) \/ AuthorityLost(n) \/ NothingToDo(n) \/ ApplyFails(n)
             \/ SaveRebootWait(n) \/ Refusal(n) \/ Apply(n)
      PROVE  UNCHANGED portalKept
  BY <1>3 DEF ClaimGranted, AuthorityLost, NothingToDo, ApplyFails, SaveRebootWait,
     Refusal, Apply, portalVars, portalRows, portalKept, authorityVars
<1>4. ASSUME NEW n \in Nodes, HangUp(n) \/ Crash(n) \/ Restart(n)
      PROVE  UNCHANGED portalKept
  BY <1>4 DEF HangUp, Crash, Restart, Stop, portalKept
<1>5. \A n \in Nodes : Agent(n) => UNCHANGED portalKept
  BY <1>1, <1>2, <1>3 DEF Agent
<1>6. CASE User /\ UNCHANGED agentVars
  BY <1>6, UserKeeps
<1>7. ASSUME NEW n \in Nodes, NEW m, NEW live \in BOOLEAN,
             Gateway(n, m, live) \/ Withhold(n, m, live), UNCHANGED agentVars
      PROVE  PortalMoves
  BY <1>7, GatewayKeeps
<1>8. \A d \in late : d[1] \in Nodes
  BY DEF IInv, TypeOK
<1>9. UNCHANGED vars => UNCHANGED portalKept
  BY DEF vars, portalVars, portalKept, authorityVars
<1> QED  BY <1>4, <1>5, <1>6, <1>7, <1>8, <1>9 DEF Next, Calm, Interruption

\* Steps are granted in order, each once all before it are proven, and the
\* machine is changed at most once for each (ADR-0019).
THEOREM StepsFollowThePlan == Spec => ImplementsSteppedPlan
<1>1. Init => Plan!Init
  <2> SUFFICES ASSUME Init PROVE Plan!Init
    OBVIOUS
  <2>1. \A j \in StepJobs : j \in Jobs /\ job[j] = NoRow /\ applied[j].times = 0
    BY JobFacts DEF Init
  <2> QED  BY <2>1 DEF Plan!Init, NoRow
<1>2. ASSUME IInv, IInv', [Next]_vars
      PROVE  [Plan!Next]_(Plan!planVars)
  <2>1. CASE PortalMoves /\ UNCHANGED agentVars
    <3>1. UNCHANGED applied
      BY <2>1 DEF agentVars
    <3>2. [j \in StepJobs |-> applied'[j].times] = [j \in StepJobs |-> applied[j].times]
      BY <3>1
    <3> QED
      BY <1>2, <2>1, <3>1, <3>2, PortalImplements
         DEF Claimed, Done, Plan!Next, Plan!Grant, Plan!Prove, Plan!planVars
  <2>2. CASE UNCHANGED portalKept /\ applied' = applied
    BY <2>2 DEF portalKept, Plan!planVars
  <2>3. CASE UNCHANGED portalKept /\ applied' # applied
    <3>1. PICK n \in Nodes : Apply(n)
      BY <1>2, <2>3, OnlyApply
    <3>2. PICK k \in StepJobs :
            /\ applied[k].times = 0 /\ job[k].claimed
            /\ job[k].status \in {"running", "waiting_for_reboot"}
            /\ applied' = [applied EXCEPT ![k] =
                             [times |-> applied[k].times + 1, boot |-> host[n].boot]]
      BY <1>2, <3>1, AppliedStep
    <3>3. applied \in [Jobs -> [times : Nat, boot : Nat]] /\ StepJobs \subseteq Jobs
      BY <1>2, JobFacts DEF IInv, TypeOK
    <3>4. \A j \in StepJobs :
            applied'[j].times = IF j = k THEN 1 ELSE applied[j].times
      BY <3>2, <3>3
    <3>5. [j \in StepJobs |-> applied'[j].times]
            = [[j \in StepJobs |-> applied[j].times] EXCEPT ![k] = 1]
      BY <3>4
    <3>6. Plan!Attempt(k)
      BY <2>3, <3>2, <3>5 DEF portalKept, Plan!Attempt
    <3> QED  BY <3>6 DEF Plan!Next
  <2> QED  BY <1>2, <2>1, <2>2, <2>3, PortalOrAgent
<1>3. IInv /\ IInv' /\ [Next]_vars => [Plan!Next]_(Plan!planVars)
  BY <1>2
<1> QED  BY <1>1, <1>3, HgsInvariantHolds, PTL DEF Spec, ImplementsSteppedPlan, Plan!Spec

=============================================================================
