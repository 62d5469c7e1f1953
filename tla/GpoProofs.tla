----------------------------- MODULE GpoProofs ------------------------------
(***************************************************************************)
(* Theorems about GpoJobs for any Agents, jobs and users.                   *)
(***************************************************************************)
EXTENDS GpoInvariant, TLAPS

\* What the constants are.
LEMMA JobFacts ==
  /\ Inspections \subseteq Jobs
  /\ Changes \subseteq Jobs
  /\ Pilots \subseteq Jobs
  /\ Jobs = Inspections \cup Changes \cup Pilots
  /\ Inspections \cap Changes = {} /\ Inspections \cap Pilots = {}
  /\ Changes \cap Pilots = {}
  /\ NoJob \notin Jobs
  /\ \A j \in Jobs : Executor[j] \in Agents
  /\ Nobody \notin Users
  /\ NoDoc \notin Receipts
  /\ NoDoc \notin Observations
  /\ NoDoc \notin Snapshots
BY GpoAssumption DEF GpoAssumption, Jobs, Managed

-----------------------------------------------------------------------------
(* How rows move. *)

Policies == [revision : Nat, fenced : BOOLEAN, named : BOOLEAN]

\* A row that is not created, granted, completed or reconciled.
Follows(r, q) ==
  /\ q.claimed = r.claimed /\ q.rule = r.rule /\ q.four = r.four
  /\ q.status = "inspected" /\ q.digest = NoDoc =>
       r.status = "inspected" /\ r.digest = NoDoc
  /\ \/ q.status = r.status
     \/ r.status \in PreExecution /\ q.status \in PreExecution
     \/ r.status \in Active /\ r.claimed /\ q.status = "reconciliation_required"
     \/ /\ r.status \in Active /\ ~r.claimed
        /\ q.status \in {"failed", "expired", "inspected",
                         "reconciliation_required"}

\* What a grant and a release require.
Permits(j) ==
  /\ tenantActive /\ j \notin overdue
  /\ {row[j].requester, row[j].approver} \subseteq permitted
  /\ rule.four => row[j].approver # row[j].requester
Confirmed(c) ==
  LET e == recon[c] IN
  /\ e.seen.sound /\ e.seen.at.writes = directory.writes
  /\ <<c, e.round>> \in pending
  /\ e.accepter \in permitted
  /\ rule.four => e.accepter \notin {row[c].requester, e.by}

\* The rows after an action of the portal: at most one is created, granted,
\* completed or reconciled.
Still == \A j \in Jobs : Follows(row[j], row'[j])
Others(j) == \A i \in Jobs \ {j} : Follows(row[i], row'[i])
Created(j) ==
  /\ row[j].status = "absent" /\ row'[j].status \in PreExecution
  /\ ~row'[j].claimed
  /\ row'[j].rule = rule.revision /\ row'[j].four = rule.four
  /\ rule' = rule
  /\ Others(j)
  /\ \A i \in Jobs \ {j} : row'[i].status \notin Active
Granted(j) ==
  /\ j \notin Inspections
  /\ row[j].status \in PreExecution /\ row'[j].status = "running"
  /\ row'[j].claimed
  /\ row'[j].rule = row[j].rule /\ row'[j].four = row[j].four
  /\ Permits(j)
  /\ Others(j)
Completed(j) ==
  /\ j \notin Inspections
  /\ row[j].status \in Active /\ row[j].claimed
  /\ receipt[j] # NoDoc /\ receipt[j].status = "success"
  /\ row'[j].status = "done" /\ row'[j].claimed
  /\ row'[j].rule = row[j].rule /\ row'[j].four = row[j].four
  /\ Others(j)
Reconciled(j) ==
  /\ j \in Changes /\ receipt[j] # NoDoc
  /\ row[j].status \in Active /\ row'[j].status = "reconciled"
  /\ row'[j].claimed = row[j].claimed
  /\ row'[j].rule = row[j].rule /\ row'[j].four = row[j].four
  /\ Confirmed(j)
  /\ Others(j)
Moves ==
  \/ Still
  \/ \E j \in Jobs : Created(j) \/ Granted(j) \/ Completed(j) \/ Reconciled(j)

LEMMA FollowsTransitive ==
  ASSUME NEW r, NEW q, NEW t, Follows(r, q), Follows(q, t)
  PROVE  Follows(r, t)
BY DEF Follows, Active, PreExecution

\* Withdrawal (_invalidate, expire_jobs) leaves rows well formed, whose claims,
\* rules and persons are the same.
LEMMA WithdrawPolicy ==
  ASSUME NEW s, s.policy \in Policies, NEW jobs, NEW status
  PROVE  /\ Withdraw(s, jobs, status).policy \in Policies
         /\ Withdraw(s, jobs, status).policy.revision = s.policy.revision
BY Zenon DEF Withdraw, Policies

Hit(s, jobs, j) == j \in jobs /\
  s.row[j].status \in Active \ {"reconciliation_required"}
Ending(r, status) == IF r.claimed THEN "reconciliation_required" ELSE status

LEMMA WithdrawFollows ==
  ASSUME NEW s, s.row \in [Jobs -> Rows], NEW jobs,
         NEW status \in {"failed", "expired"}
  PROVE  LET w == Withdraw(s, jobs, status) IN
         /\ w.row \in [Jobs -> Rows]
         /\ \A j \in Jobs :
              /\ Follows(s.row[j], w.row[j])
              /\ w.row[j] = [s.row[j] EXCEPT !.status = w.row[j].status]
              /\ w.row[j].status \in PreExecution =>
                   s.row[j].status \in PreExecution
<1> DEFINE w == Withdraw(s, jobs, status)
<1>0. w.row = [j \in Jobs |-> IF Hit(s, jobs, j)
                               THEN [s.row[j] EXCEPT !.status =
                                     Ending(s.row[j], status)]
                               ELSE s.row[j]]
  <2> DEFINE hit == {i \in jobs :
                     s.row[i].status \in Active \ {"reconciliation_required"}}
             doubtful == {i \in hit : s.row[i].claimed}
  <2>1. w.row =
          [j \in Jobs |->
             IF j \in doubtful
               THEN [s.row[j] EXCEPT !.status = "reconciliation_required"]
             ELSE IF j \in hit THEN [s.row[j] EXCEPT !.status = status]
             ELSE s.row[j]]
    BY Zenon DEF Withdraw
  <2>2. ASSUME NEW j
        PROVE  /\ j \in doubtful <=> Hit(s, jobs, j) /\ s.row[j].claimed
               /\ j \in hit <=> Hit(s, jobs, j)
    BY Zenon DEF Hit
  <2> HIDE DEF hit, doubtful, w
  <2> QED  BY <2>1, <2>2 DEF Ending
<1> HIDE DEF w
<1>1. ASSUME NEW j \in Jobs
      PROVE  /\ w.row[j] \in Rows
             /\ Follows(s.row[j], w.row[j])
             /\ w.row[j] = [s.row[j] EXCEPT !.status = w.row[j].status]
             /\ w.row[j].status \in PreExecution =>
                  s.row[j].status \in PreExecution
  <2>1. w.row[j] = IF Hit(s, jobs, j)
                   THEN [s.row[j] EXCEPT !.status = Ending(s.row[j], status)]
                   ELSE s.row[j]
    BY <1>0
  <2>2. s.row[j] \in Rows
    OBVIOUS
  <2>3. CASE Hit(s, jobs, j)
    BY <2>1, <2>2, <2>3
       DEF Hit, Ending, Rows, Follows, Active, PreExecution, Terminal, Done
  <2>4. CASE ~Hit(s, jobs, j)
    BY <2>1, <2>2, <2>4 DEF Rows, Follows
  <2> QED  BY <2>3, <2>4
<1>2. w.row = [j \in Jobs |-> w.row[j]]
  BY <1>0
<1>3. w.row \in [Jobs -> Rows]
  BY <1>1, <1>2
<1> QED  BY <1>1, <1>3 DEF w

-----------------------------------------------------------------------------
(* What an action of the portal must show.                                 *)

\* The answer an Agent has now, if it is new.
Answered(a) ==
  \/ reply'[a] = reply[a]
  \/ /\ reply'[a].type = "job" /\ reply'[a].job # NoJob =>
          Executor[reply'[a].job] = a /\ row[reply'[a].job].status # "absent"
     /\ reply'[a].mode = "execute" => row'[request[a].job].claimed

\* Rows exist for good, and what is claimed stays so.
LEMMA MovesKeep ==
  ASSUME IInv, Moves, NEW j \in Jobs
  PROVE  /\ row[j].status # "absent" => row'[j].status # "absent"
         /\ row[j].claimed => row'[j].claimed
         /\ row'[j].status \in Active =>
              row[j].status \in Active \/
                (row[j].status = "absent" /\ Created(j))
         /\ row'[j].status \in {"done", "reconciled"} =>
              row[j].status \in {"done", "reconciled"} \/ receipt[j] # NoDoc
<1>1. RowOK(row[j], j) /\ ReceiptOK(j)
  BY DEF IInv, RowsOK
<1>2. row[j] \in Rows
  BY DEF IInv, TypeOK
<1>3. CASE Follows(row[j], row'[j])
  BY <1>1, <1>2, <1>3
     DEF Follows, RowOK, Rows, Active, PreExecution, Terminal, Done
<1>4. CASE Created(j)
  BY <1>1, <1>4 DEF Created, RowOK, PreExecution, Active
<1>5. CASE Granted(j)
  BY <1>1, <1>5 DEF Granted, PreExecution, Active
<1>6. CASE Completed(j)
  BY <1>1, <1>6 DEF Completed, Active
<1>7. CASE Reconciled(j)
  BY <1>1, <1>7 DEF Reconciled, Active, PreExecution
<1> QED
  BY <1>3, <1>4, <1>5, <1>6, <1>7
     DEF Moves, Still, Created, Granted, Completed, Reconciled, Others

LEMMA PortalStep ==
  ASSUME IInv, TypeOK', UNCHANGED <<agentVars, request>>, Moves,
         rule' = rule \/ rule'.revision = rule.revision + 1,
         \A c \in Changes : Fits(recon'[c], c),
         late' \subseteq late,
         \A a \in Agents : Answered(a)
  PROVE  IInv'
<1> USE JobFacts
<1>1. TypeOK
  BY DEF IInv
<1>2. rule'.revision > 0 /\ rule'.revision \in Nat /\ rule.revision \in Nat
  <2>1. rule \in [revision : Nat, four : BOOLEAN] /\
          rule' \in [revision : Nat, four : BOOLEAN]
    BY <1>1 DEF TypeOK
  <2>2. rule.revision > 0
    BY DEF IInv
  <2> QED  BY <2>1, <2>2
<1>3. RowsOK'
  <2> SUFFICES ASSUME NEW j \in Jobs
               PROVE  RowOK(row[j], j)'
    BY DEF RowsOK
  <2>1. RowOK(row[j], j) /\ row[j] \in Rows /\ row'[j] \in Rows
    BY <1>1 DEF IInv, RowsOK, TypeOK
  <2>2. CASE Follows(row[j], row'[j])
    BY <1>2, <2>1, <2>2 DEF Follows, RowOK, Rows, Active, PreExecution
  <2>3. CASE Created(j)
    BY <1>2, <2>1, <2>3 DEF Created, RowOK, Rows, PreExecution
  <2>4. CASE Granted(j) \/ Completed(j) \/ Reconciled(j)
    BY <1>2, <2>1, <2>4
       DEF Granted, Completed, Reconciled, RowOK, Rows, PreExecution, Active
  <2> QED
    BY <2>2, <2>3, <2>4
       DEF Moves, Still, Created, Granted, Completed, Reconciled, Others
<1>4. OneActive'
  <2> SUFFICES ASSUME NEW i \in Jobs, NEW j \in Jobs,
                      row'[i].status \in Active, row'[j].status \in Active
               PROVE  i = j
    BY DEF OneActive
  <2>1. row[i].status \in Active /\ row[j].status \in Active => i = j
    BY DEF IInv, OneActive
  <2>2. CASE Created(i) \/ Created(j)
    BY <2>2 DEF Created
  <2> QED  BY <2>1, <2>2, MovesKeep
<1>5. ASSUME NEW c \in Changes, NEW seen,
             receipt[c] # NoDoc /\ HoldsAllWrites(c, seen)
      PROVE  HoldsAllWrites(c, seen)'
  <2>1. row[c].status # "absent"
    BY <1>5 DEF IInv, ReceiptOK
  <2>2. c \in Jobs
    OBVIOUS
  <2> QED  BY <1>5, <2>1, <2>2, MovesKeep DEF HoldsAllWrites, agentVars
<1>6. ASSUME NEW c \in Changes
      PROVE  RecordOK(c)'
  <2>1. Fits(recon'[c], c) /\ recon'[c] \in Records
    BY DEF TypeOK
  <2>2. recon'[c].seen # NoDoc =>
          receipt'[c] # NoDoc /\ HoldsAllWrites(c, recon[c].seen)'
    BY <1>5, <2>1 DEF Fits, agentVars, diskVars
  <2>3. /\ recon'[c].rule <= rule'.revision
        /\ recon'[c].rule = rule'.revision /\ rule'.four => recon'[c].four
    BY <1>2, <2>1 DEF Fits, Records
  <2> QED  BY <2>1, <2>2, <2>3 DEF RecordOK, Fits
<1>7. ASSUME NEW a \in Agents
      PROVE  JournalOK(a)' /\ StageOK(a)' /\ ReplyOK(a)'
  <2>1. JournalOK(a) /\ StageOK(a) /\ ReplyOK(a) /\
          JobOf(a) \in Jobs \cup {NoJob}
    BY <1>1 DEF IInv, TypeOK, JobOf
  <2>2. JournalOK(a)'
    BY <2>1, MovesKeep DEF JournalOK, JobOf, agentVars, diskVars
  <2>3. ReplyOK(a)'
    <3>1. reply'[a].job \in Jobs \cup {NoJob} /\
            reply[a].job \in Jobs \cup {NoJob}
      BY <1>1 DEF TypeOK, Replies
    <3>2. Answered(a)
      OBVIOUS
    <3> QED  BY <2>1, <3>1, <3>2, MovesKeep DEF ReplyOK, Answered
  <2>4. ASSUME stage[a] = "claiming", reply'[a].mode = "execute"
        PROVE  row'[JobOf(a)].claimed
    <3>1. Answered(a) /\ request[a].job = JobOf(a) /\ JobOf(a) # NoJob
      BY <2>1, <2>4 DEF StageOK, JournalOK
    <3> QED  BY <2>1, <2>4, <3>1, MovesKeep DEF Answered, StageOK
  <2>5. StageOK(a)'
    <3>1. JobOf(a)' = JobOf(a) /\ stage' = stage /\ journal' = journal
          /\ effect' = effect /\ receipt' = receipt /\ request' = request
      BY DEF agentVars, diskVars, JobOf
    <3>2. stage[a] \in Working => row'[JobOf(a)].claimed
      BY <2>1, MovesKeep DEF StageOK, JournalOK, Working
    <3> QED  BY <2>1, <2>4, <3>1, <3>2 DEF StageOK, Ended, EffectAt
  <2> QED  BY <2>2, <2>3, <2>5
<1>8. ASSUME NEW j \in Jobs
      PROVE  ReceiptOK(j)'
  <2>1. ReceiptOK(j)
    BY DEF IInv
  <2> QED  BY <2>1, MovesKeep DEF ReceiptOK, JobOf, agentVars, diskVars
<1>9. ASSUME NEW a \in Agents, NEW m \in Requests, MessageOK(a, m)
      PROVE  MessageOK(a, m)'
  <2>1. m.job \in Jobs \cup {NoJob}
    BY DEF Requests
  <2>2. m.mode \in Observing => HoldsAllWrites(m.job, m.seen)'
    BY <1>5, <1>9 DEF MessageOK, Observing, Reconciling, Ended
  <2> QED
    BY <1>9, <2>1, <2>2, MovesKeep DEF MessageOK, Ended, agentVars, diskVars
<1>10. \A a \in Agents : MessageOK(a, request[a])'
  BY <1>1, <1>9 DEF IInv, TypeOK
<1>11. \A d \in late' : MessageOK(d[1], d[2])'
  <2> SUFFICES ASSUME NEW d \in late'
               PROVE  MessageOK(d[1], d[2])'
    OBVIOUS
  <2>1. d \in late /\ d[1] \in Agents /\ d[2] \in Requests
    BY <1>1 DEF TypeOK
  <2> QED  BY <1>9, <2>1 DEF IInv
<1> QED
  BY <1>2, <1>3, <1>4, <1>6, <1>7, <1>8, <1>10, <1>11 DEF IInv

-----------------------------------------------------------------------------
(* The requests of users. *)

\* All of it, as an action shows it.
Shown ==
  /\ TypeOK' /\ UNCHANGED request /\ Moves
  /\ rule' = rule \/ rule'.revision = rule.revision + 1
  /\ \A c \in Changes : Fits(recon'[c], c)
  /\ late' \subseteq late
  /\ \A a \in Agents : Answered(a)

Portals ==
  /\ policy \in Policies /\ recon \in [Changes -> Records]
  /\ rule \in [revision : Nat, four : BOOLEAN] /\ permitted \subseteq Users
  /\ tenantActive \in BOOLEAN
  /\ overdue \subseteq Jobs
  /\ unrest \in 0 .. MaxUnrest

\* The part of it that a request of a user leaves alone.
LEMMA UserShows ==
  ASSUME IInv, UNCHANGED <<agentVars, linkVars>>,
         row' \in [Jobs -> Rows], Portals', Moves,
         rule' = rule \/ rule'.revision = rule.revision + 1,
         \A c \in Changes : Fits(recon'[c], c)
  PROVE  Shown
BY DEF Shown, Portals, Policies, IInv, TypeOK, agentVars, diskVars,
       linkVars, Answered

\* Withdrawn rows, with the rest as it was.
LEMMA WithdrawShows ==
  ASSUME IInv, NEW jobs, NEW status \in {"failed", "expired"},
         Become(Withdraw(State, jobs, status))
  PROVE  row' \in [Jobs -> Rows] /\ policy' \in Policies /\ Still
<1>1. row \in [Jobs -> Rows] /\ policy \in Policies
  BY DEF IInv, TypeOK, Policies
<1>2. State.row = row /\ State.policy = policy
  BY DEF State
<1>3. /\ row' = Withdraw(State, jobs, status).row
      /\ policy' = Withdraw(State, jobs, status).policy
  BY DEF Become
<1> QED
  BY <1>1, <1>2, <1>3, WithdrawFollows, WithdrawPolicy DEF Still

LEMMA RecordsFit ==
  ASSUME IInv, NEW c \in Changes
  PROVE  Fits(recon[c], c) /\ recon[c] \in Records
BY DEF IInv, RecordOK, TypeOK

LEMMA ReviewedFits ==
  ASSUME IInv, NEW c \in Changes, NEW s, NEW ready
  PROVE  /\ Reviewed(s, c, ready) \in Records /\ Fits(Reviewed(s, c, ready), c)
         /\ Reviewed(s, c, ready) =
              [recon[c] EXCEPT !.status = Reviewed(s, c, ready).status]
         /\ Reviewed(s, c, ready).status # "stale" =>
              Reviewed(s, c, ready) = recon[c]
         /\ Reviewed(s, c, ready).status \in Pending => Authorized(s, c)
<1> DEFINE lapsed == recon[c].status \in Pending
                     /\ (recon[c].overdue \/ ~ready \/ ~Authorized(s, c))
<1>1. Reviewed(s, c, ready) = IF lapsed
        THEN [recon[c] EXCEPT !.status = "stale"] ELSE recon[c]
  BY Zenon DEF Reviewed
<1>2. recon[c].status \in Pending /\ ~lapsed => Authorized(s, c)
  OBVIOUS
<1> HIDE DEF lapsed
<1> QED  BY <1>1, <1>2, RecordsFit DEF Records, Fits, Pending

LEMMA DisturbedTyped ==
  ASSUME IInv, Disturbed
  PROVE  unrest' \in 0 .. MaxUnrest
<1>1. unrest \in 0 .. MaxUnrest
  BY DEF IInv, TypeOK
<1>2. unrest' = unrest + 1 /\ unrest < MaxUnrest
  BY DEF Disturbed
<1>3. MaxUnrest \in Nat
  BY GpoAssumption DEF GpoAssumption
<1> QED  BY <1>1, <1>2, <1>3

\* A row is created in what expiry leaves.
LEMMA CreationShows ==
  ASSUME IInv, NEW j \in Jobs, NEW r \in Rows, row[j].status = "absent",
         Idle(Expire(State)), Become([Expire(State) EXCEPT !.row[j] = r]),
         r.status \in PreExecution, ~r.claimed, r.rule = rule.revision,
         r.four = rule.four,
         rule' = rule
  PROVE  row' \in [Jobs -> Rows] /\ policy' \in Policies /\ Moves
<1> DEFINE s == Withdraw(State, overdue, "expired")
<1>1. State.row = row /\ State.policy = policy /\ row \in [Jobs -> Rows] /\
        policy \in Policies
  BY DEF IInv, TypeOK, Policies, State
<1>2. /\ s.row \in [Jobs -> Rows] /\ s.policy \in Policies
      /\ \A i \in Jobs : Follows(row[i], s.row[i])
  BY <1>1, WithdrawFollows, WithdrawPolicy
<1>3. Become([s EXCEPT !.row[j] = r]) /\
        \A i \in Jobs : s.row[i].status \notin Active
  BY DEF Expire, Idle
<1>4. s = [row |-> s.row, policy |-> s.policy]
  BY Zenon DEF Withdraw
<1> HIDE DEF s
<1>5. row' = [s.row EXCEPT ![j] = r] /\ policy' = s.policy
  BY <1>3, <1>4 DEF Become
<1>6. row' \in [Jobs -> Rows] /\ policy' \in Policies
  BY <1>2, <1>5
<1>7. row'[j] = r /\ \A i \in Jobs \ {j} : row'[i] = s.row[i]
  BY <1>2, <1>5
<1>8. Created(j)
  BY <1>2, <1>3, <1>7 DEF Created, Others
<1> QED  BY <1>6, <1>8 DEF Moves

LEMMA NewRowTyped ==
  ASSUME IInv, NEW m \in Users, NEW status \in {"queued", "awaiting_approval"}
  PROVE  /\ NewRow(m, status) \in Rows
         /\ NewRow(m, status).status = status /\ ~NewRow(m, status).claimed
         /\ NewRow(m, status).rule = rule.revision
         /\ NewRow(m, status).four = rule.four
<1>1. /\ rule.revision \in Nat /\ rule.four \in BOOLEAN
      /\ policy.revision \in Nat /\ policy.named \in BOOLEAN
  BY DEF IInv, TypeOK
<1> QED  BY <1>1 DEF NewRow, NoRow, Rows, Active, PreExecution, Docs

LEMMA CreatePreflightShows ==
  ASSUME IInv, UNCHANGED agentVars, NEW m \in Users, NEW i \in Inspections,
         CreatePreflight(m, i)
  PROVE  Shown
<1>1. i \in Jobs
  BY JobFacts
<1>2. row' \in [Jobs -> Rows] /\ policy' \in Policies /\ Moves
  BY <1>1, NewRowTyped, CreationShows
     DEF CreatePreflight, PreExecution, authorityVars
<1> QED
  BY <1>2, UserShows, RecordsFit
     DEF CreatePreflight, authorityVars, linkVars, Portals, IInv, TypeOK

LEMMA CreateChangeShows ==
  ASSUME IInv, UNCHANGED agentVars, NEW m \in Users, NEW i \in Inspections,
         NEW c \in Changes,
         CreateChange(m, i, c)
  PROVE  Shown
<1> DEFINE alone == ~row[i].four
           r == [row[i] EXCEPT !.requester = m, !.expected = row[i].digest.seen,
                 !.digest = NoDoc,
                               !.status = IF alone THEN "queued"
                               ELSE "awaiting_approval",
                               !.approver = IF alone THEN m ELSE Nobody]
<1>1. i \in Jobs /\ c \in Jobs
  BY JobFacts
<1>2. row[i] \in Rows /\ RowOK(row[i], i)
  BY <1>1 DEF IInv, TypeOK, RowsOK
<1>3. row[i].status = "inspected" /\ row[i].rule = rule.revision
  BY DEF CreateChange, InspectionCurrent, ScopeCurrent, PolicyCurrent, State
<1>4. row[i].digest \in Receipts /\ ~row[i].claimed /\ row[i].four = rule.four
  BY <1>2, <1>3 DEF RowOK, Rows, Docs
<1>5. r \in Rows
  <2> DEFINE s == [row[i] EXCEPT !.requester = m, !.expected = row[i].digest.seen,
                                 !.digest = NoDoc]
  <2>1. row[i].digest.seen \in Snapshots \cup {NoDoc}
    BY <1>4 DEF Receipts
  <2>2. s \in Rows
    BY <1>2, <2>1 DEF Rows, Docs
  <2>3. r = [s EXCEPT !.status = IF alone THEN "queued" ELSE "awaiting_approval",
                      !.approver = IF alone THEN m ELSE Nobody]
    OBVIOUS
  <2> HIDE DEF s, alone
  <2> QED  BY <2>2, <2>3 DEF Rows, Active, PreExecution
<1>6. /\ r.status \in PreExecution /\ ~r.claimed
      /\ r.rule = rule.revision /\ r.four = rule.four
  BY <1>2, <1>3, <1>4 DEF Rows, PreExecution
<1>7. Become([Expire(State) EXCEPT !.row[c] = r])
  BY DEF CreateChange
<1> HIDE DEF r
<1>8. row' \in [Jobs -> Rows] /\ policy' \in Policies /\ Moves
  BY <1>1, <1>5, <1>6, <1>7, CreationShows DEF CreateChange, authorityVars
<1> QED
  BY <1>8, UserShows, RecordsFit
     DEF CreateChange, authorityVars, linkVars, Portals, IInv, TypeOK

LEMMA QueuePilotShows ==
  ASSUME IInv, UNCHANGED agentVars, NEW m \in Users, NEW p \in Pilots,
         QueuePilot(m, p)
  PROVE  Shown
<1> DEFINE r == [NewRow(m, "awaiting_approval") EXCEPT !.revision = 0,
                 !.named = FALSE]
<1>1. p \in Jobs
  BY JobFacts
<1>2. /\ r \in Rows /\ r.status \in PreExecution /\ ~r.claimed
      /\ r.rule = rule.revision /\ r.four = rule.four
  BY NewRowTyped DEF Rows, PreExecution
<1>3. Become([Expire(State) EXCEPT !.row[p] = r])
  BY DEF QueuePilot
<1> HIDE DEF r
<1>4. row' \in [Jobs -> Rows] /\ policy' \in Policies /\ Moves
  BY <1>1, <1>2, <1>3, CreationShows DEF QueuePilot, authorityVars
<1> QED
  BY <1>4, UserShows, RecordsFit
     DEF QueuePilot, authorityVars, linkVars, Portals, IInv, TypeOK

LEMMA ApproveShows ==
  ASSUME IInv, UNCHANGED agentVars, NEW m \in Users, NEW j \in Jobs,
         Approve(m, j)
  PROVE  Shown
<1>1. row \in [Jobs -> Rows]
  BY DEF IInv, TypeOK
<1>2. row' = [row EXCEPT ![j] =
              [row[j] EXCEPT !.approver = m, !.status = "queued"]]
  BY <1>1 DEF Approve
<1>3. row[j].status \in PreExecution
  BY DEF Approve
<1>4. row' \in [Jobs -> Rows]
  <2> DEFINE r == [row[j] EXCEPT !.approver = m, !.status = "queued"]
  <2>1. [row[j] EXCEPT !.approver = m] \in Rows
    BY <1>1 DEF Rows
  <2>2. r \in Rows
    BY <2>1 DEF Rows, Active, PreExecution
  <2>3. row' = [row EXCEPT ![j] = r]
    BY <1>2
  <2> HIDE DEF r
  <2> QED  BY <1>1, <2>2, <2>3
<1>5. Still
  BY <1>1, <1>2, <1>3 DEF Still, Follows, PreExecution, Rows
<1> QED
  BY <1>4, <1>5, UserShows, RecordsFit
     DEF Approve, authorityVars, linkVars, Portals, IInv, TypeOK, Moves,
         Policies

\* Records fit as well under the next rule: see PortalStep.
LEMMA ChangeRuleShows ==
  ASSUME IInv, UNCHANGED agentVars, NEW four \in BOOLEAN,
         NEW holders \in SUBSET Users,
         ChangeRule(four, holders)
  PROVE  Shown
<1>1. row' \in [Jobs -> Rows] /\ policy' \in Policies /\ Still
  BY WithdrawShows DEF ChangeRule
<1>2. rule' = [revision |-> rule.revision + 1, four |-> four]
  BY DEF ChangeRule
<1>3. rule.revision \in Nat
  BY DEF IInv, TypeOK
<1>4. rule' \in [revision : Nat, four : BOOLEAN] /\
        rule'.revision = rule.revision + 1
  BY <1>2, <1>3
<1>5. unrest' \in 0 .. MaxUnrest
  BY DisturbedTyped DEF ChangeRule
<1>6. permitted' \subseteq Users
  BY DEF ChangeRule
<1>7. UNCHANGED <<recon, tenantActive, overdue, linkVars>>
  BY DEF ChangeRule
<1> QED
  BY <1>1, <1>4, <1>5, <1>6, <1>7, UserShows, RecordsFit
     DEF Portals, IInv, TypeOK, Moves

LEMMA WithdrawIdentityShows ==
  ASSUME IInv, UNCHANGED agentVars, NEW m \in Users, WithdrawIdentity(m)
  PROVE  Shown
<1>1. row' \in [Jobs -> Rows] /\ policy' \in Policies /\ Still
  BY WithdrawShows DEF WithdrawIdentity
<1>2. unrest' \in 0 .. MaxUnrest
  BY DisturbedTyped DEF WithdrawIdentity
<1> QED
  BY <1>1, <1>2, UserShows, RecordsFit
     DEF WithdrawIdentity, Portals, IInv, TypeOK, Moves

\* Rows and policy stay.
LEMMA Stays ==
  ASSUME IInv, row' = row, policy' = policy
  PROVE  row' \in [Jobs -> Rows] /\ policy' \in Policies /\ Still
BY DEF IInv, TypeOK, Policies, Still, Follows

LEMMA AuthorityShows ==
  ASSUME IInv, UNCHANGED agentVars,
         (\E m \in Users : MembershipExpires(m)) \/ SuspendTenant \/
           ReactivateTenant
  PROVE  Shown
<1>1. row' \in [Jobs -> Rows] /\ policy' \in Policies /\ Still
  BY Stays, WithdrawShows DEF MembershipExpires, SuspendTenant, ReactivateTenant
<1>2. unrest' \in 0 .. MaxUnrest
  BY DisturbedTyped
     DEF MembershipExpires, SuspendTenant, ReactivateTenant, IInv, TypeOK
<1> QED
  BY <1>1, <1>2, UserShows, RecordsFit
     DEF MembershipExpires, SuspendTenant, ReactivateTenant, Portals, IInv,
         TypeOK, Moves

LEMMA TimePassesShows ==
  ASSUME IInv, UNCHANGED agentVars, NEW hour \in BOOLEAN, TimePasses(hour)
  PROVE  Shown
<1>1. row' \in [Jobs -> Rows] /\ policy' \in Policies /\ Still
  BY Stays DEF TimePasses
<1>2. unrest' \in 0 .. MaxUnrest /\ overdue' \subseteq Jobs
  BY DisturbedTyped DEF TimePasses, IInv, TypeOK
<1> DEFINE passed(c) == recon[c].overdue \/ recon[c].status \in Pending
<1>3. recon' = [c \in Changes |-> [recon[c] EXCEPT !.overdue = passed(c)]]
  BY Zenon DEF TimePasses
<1>4. \A c \in Changes : passed(c) \in BOOLEAN
  BY RecordsFit DEF Records
<1> HIDE DEF passed
<1>5. recon' \in [Changes -> Records] /\ \A c \in Changes : Fits(recon'[c], c)
  BY <1>3, <1>4, RecordsFit DEF Records, Fits
<1>6. UNCHANGED <<authorityVars, linkVars>>
  BY DEF TimePasses
<1> QED
  BY <1>1, <1>2, <1>5, <1>6, UserShows
     DEF Portals, IInv, TypeOK, Moves, authorityVars

LEMMA ExpireJobsShows ==
  ASSUME IInv, UNCHANGED agentVars, ExpireJobs
  PROVE  Shown
<1>1. row' \in [Jobs -> Rows] /\ policy' \in Policies /\ Still
  BY WithdrawShows DEF ExpireJobs, Expire
<1> QED
  BY <1>1, UserShows, RecordsFit
     DEF ExpireJobs, Portals, IInv, TypeOK, Moves, authorityVars

\* One record is replaced by a fitting one.
LEMMA RecordShows ==
  ASSUME IInv, UNCHANGED agentVars, NEW c \in Changes, NEW e \in Records,
         Fits(e, c),
         recon' = [recon EXCEPT ![c] = e],
         UNCHANGED <<row, policy, authorityVars, overdue, unrest, linkVars>>
  PROVE  Shown
<1>1. recon' \in [Changes -> Records] /\ \A d \in Changes : Fits(recon'[d], d)
  BY RecordsFit DEF IInv, TypeOK
<1> QED
  BY <1>1, Stays, UserShows DEF Portals, IInv, TypeOK, Moves, authorityVars

LEMMA ReconciliationShows ==
  ASSUME IInv, UNCHANGED agentVars, NEW c \in Changes,
         (\E m \in Users : RequestReconciliation(m, c) \/ Accept(m, c)) \/
           Review(c)
  PROVE  Shown
<1>1. recon[c] \in Records /\ row[c] \in Rows /\ Fits(recon[c], c)
  BY RecordsFit, JobFacts DEF IInv, TypeOK
<1>2. /\ rule.revision \in Nat /\ rule.four \in BOOLEAN
      /\ policy.revision \in Nat
  BY DEF IInv, TypeOK
<1>3. ASSUME NEW m \in Users, RequestReconciliation(m, c)
      PROVE  Shown
  <2> DEFINE four == row[c].four \/ rule.four
             e == [NoRecord EXCEPT !.round = recon[c].round + 1,
                                   !.status = "requested",
                                   !.by = m, !.rule = rule.revision,
                                   !.four = four,
                                   !.revision = policy.revision,
                                   !.origin = row[c].digest]
  <2>1. recon[c].round + 1 \in 0 .. Rounds
    <3>1. recon[c].round \in 0 .. Rounds /\ recon[c].round < Rounds
      BY <1>1, <1>3 DEF RequestReconciliation, Records
    <3>2. Rounds \in Nat
      BY GpoAssumption DEF GpoAssumption
    <3> QED  BY <3>1, <3>2
  <2>2. four \in BOOLEAN /\ (rule.four => four)
    BY <1>1, <1>2 DEF Rows
  <2>3. recon' = [recon EXCEPT ![c] = e]
    BY <1>3, Zenon DEF RequestReconciliation
  <2> HIDE DEF four
  <2>4. e \in Records
    <3> DEFINE s == [NoRecord EXCEPT !.round = recon[c].round + 1,
                                     !.status = "requested", !.by = m]
    <3>1. row[c].digest \in Docs
      BY <1>1 DEF Rows
    <3>2. s \in Records
      BY <2>1 DEF NoRecord, Records, Pending, Views, Docs
    <3>3. e = [s EXCEPT !.rule = rule.revision, !.four = four,
                        !.revision = policy.revision, !.origin = row[c].digest]
      OBVIOUS
    <3> HIDE DEF s, e
    <3> QED  BY <1>2, <2>2, <3>1, <3>2, <3>3 DEF Records
  <2>5. Fits(e, c)
    BY <1>2, <2>2 DEF NoRecord, Fits
  <2> QED  BY <1>3, <2>3, <2>4, <2>5, RecordShows DEF RequestReconciliation
<1>4. ASSUME NEW m \in Users, Accept(m, c)
      PROVE  Shown
  <2> DEFINE e == Reviewed(State, c, TRUE)
             f == [e EXCEPT !.accepter = m, !.status = "accept_requested"]
  <2>1. e \in Records /\ Fits(e, c) /\ e.status = "observed" /\ e.seen.sound
    BY <1>4, ReviewedFits DEF Accept
  <2>2. recon' = [recon EXCEPT ![c] = f]
    BY <1>4 DEF Accept
  <2> HIDE DEF e
  <2>3. f \in Records /\ Fits(f, c)
    BY <2>1 DEF Records, Fits, Pending
  <2> QED  BY <1>4, <2>2, <2>3, RecordShows DEF Accept
<1>5. CASE Review(c)
  BY <1>5, ReviewedFits, RecordShows DEF Review
<1> QED  BY <1>3, <1>4, <1>5

LEMMA RequestsShow ==
  ASSUME IInv, UNCHANGED agentVars, User
  PROVE  Shown
BY CreatePreflightShows, CreateChangeShows, QueuePilotShows, ApproveShows,
   ChangeRuleShows, WithdrawIdentityShows, AuthorityShows, TimePassesShows,
   ExpireJobsShows, ReconciliationShows
   DEF User

-----------------------------------------------------------------------------
(* Messages of the Agents. *)

LEMMA MessageShows ==
  ASSUME IInv, UNCHANGED <<agentVars, authorityVars, overdue>>,
         NEW a \in Agents, NEW m \in Requests, NEW live \in BOOLEAN,
         NEW answer \in Replies,
         Arrives(a, m, live), Respond(a, m, live, answer),
         NEW ready, Readiness(ready),
         row' \in [Jobs -> Rows], policy' \in Policies, Moves,
         recon' \in [Changes -> Records], \A c \in Changes : Fits(recon'[c], c),
         answer.type = "job" /\ answer.job # NoJob =>
           Executor[answer.job] = a /\ row[answer.job].status # "absent",
         answer.mode = "execute" => row'[m.job].claimed
  PROVE  Shown
<1>1. reply \in [Agents -> Replies] /\ late \subseteq Agents \X Requests
  BY DEF IInv, TypeOK
<1>2. request' = request /\ late' \subseteq late /\
        reply' \in [Agents -> Replies]
  BY <1>1 DEF Respond
<1>3. ASSUME NEW b \in Agents
      PROVE  Answered(b)
  <2>1. CASE live /\ b = a
    <3>1. reply'[b] = answer /\ m = request[b]
      BY <1>1, <2>1 DEF Respond, Arrives
    <3> QED  BY <2>1, <3>1 DEF Answered
  <2>2. CASE ~(live /\ b = a)
    BY <1>1, <2>2 DEF Respond, Answered
  <2> QED  BY <2>1, <2>2
<1>4. unrest' \in 0 .. MaxUnrest
  BY DisturbedTyped DEF Readiness, IInv, TypeOK
<1>5. late' \subseteq Agents \X Requests
  BY <1>1, <1>2
<1>6. TypeOK'
  <2>1. request' \in [Agents -> Requests]
    BY <1>2 DEF IInv, TypeOK
  <2> QED
    BY <1>2, <1>4, <1>5, <2>1
       DEF IInv, TypeOK, Policies, agentVars, diskVars, authorityVars
<1> QED
  BY <1>2, <1>3, <1>6 DEF Shown, authorityVars

LEMMA RepliesTyped ==
  ASSUME IInv
  PROVE  /\ Nothing \in Replies /\ Accepted \in Replies /\ Rejected \in Replies
         /\ NoControl \in Replies /\ NoReply \in Replies
         /\ \A j \in Jobs,
              mode \in Modes : Answer("claim", j, mode, 0, NoDoc) \in Replies
         /\ \A j \in Jobs,
              mode \in Modes : Answer("job", j, mode, 0, NoDoc) \in Replies
         /\ \A c \in Changes, mode \in Modes : Control(c, mode) \in Replies
<1>1. Rounds \in Nat /\ Changes \subseteq Jobs
  BY GpoAssumption, JobFacts DEF GpoAssumption
<1>2. 0 \in 0 .. Rounds
  BY <1>1
<1>3. \A c \in Changes : recon[c].round \in 0 .. Rounds /\
        recon[c].seen \in Views
  BY RecordsFit DEF Records
<1> QED
  BY <1>1, <1>2, <1>3
     DEF Nothing, Accepted, Rejected, NoControl, NoReply, Answer, Control,
         Replies, Modes, Views

LEMMA RefuseShows ==
  ASSUME IInv, UNCHANGED agentVars, NEW a \in Agents, NEW m \in Requests,
         NEW live \in BOOLEAN,
         Refuse(a, m, live)
  PROVE  Shown
<1>1. recon \in [Changes -> Records]
  BY DEF IInv, TypeOK
<1>2. Readiness(TRUE) /\ Rejected.type = "rejected" /\ Rejected.mode = "none"
  BY DEF Refuse, Readiness, Rejected, Answer
<1> QED
  BY <1>1, <1>2, Stays, RepliesTyped, RecordsFit, MessageShows
     DEF Refuse, Moves, authorityVars

\* What expiry leaves, and what the withdrawal of one more job does.
LEMMA ExpireFacts ==
  ASSUME IInv
  PROVE  LET s == Expire(State) IN
         /\ s.row \in [Jobs -> Rows] /\ s.policy \in Policies
         /\ s = [row |-> s.row, policy |-> s.policy]
         /\ s.policy.revision = policy.revision
         /\ \A j \in Jobs :
              /\ Follows(row[j], s.row[j])
              /\ s.row[j] = [row[j] EXCEPT !.status = s.row[j].status]
              /\ s.row[j].status \in PreExecution =>
                   row[j].status \in PreExecution
<1>1. row \in [Jobs -> Rows] /\ policy \in Policies /\ State.row = row /\
        State.policy = policy
  BY DEF IInv, TypeOK, Policies, State
<1>2. Expire(State) =
        [row |-> Expire(State).row, policy |-> Expire(State).policy]
  BY Zenon DEF Expire, Withdraw
<1> QED
  BY <1>1, <1>2, WithdrawFollows, WithdrawPolicy DEF Expire

LEMMA InvalidateFacts ==
  ASSUME IInv, NEW j \in Jobs
  PROVE  LET r == Invalidate(Expire(State), j) IN
         /\ r.row \in [Jobs -> Rows] /\ r.policy \in Policies
         /\ \A k \in Jobs : Follows(row[k], r.row[k])
<1> DEFINE s == Expire(State)
           r == Invalidate(s, j)
<1>1. /\ s.row \in [Jobs -> Rows] /\ s.policy \in Policies
      /\ \A k \in Jobs : Follows(row[k], s.row[k])
  BY ExpireFacts
<1> HIDE DEF s
<1>2. /\ r.row \in [Jobs -> Rows] /\ r.policy \in Policies
      /\ \A k \in Jobs : Follows(s.row[k], r.row[k])
  BY <1>1, WithdrawFollows, WithdrawPolicy DEF Invalidate
<1> HIDE DEF r
<1>3. ASSUME NEW k \in Jobs PROVE Follows(row[k], r.row[k])
  BY <1>1, <1>2, FollowsTransitive
<1> QED  BY <1>2, <1>3 DEF r, s

LEMMA PollShows ==
  ASSUME IInv, UNCHANGED agentVars, NEW a \in Agents, NEW m \in Requests,
         NEW live \in BOOLEAN,
         NEW ready \in BOOLEAN, Poll(a, m, live, ready)
  PROVE  Shown
<1> DEFINE s == Expire(State)
<1>1. recon \in [Changes -> Records] /\
        UNCHANGED <<authorityVars, overdue, recon>>
  BY DEF IInv, TypeOK, Poll
<1>2. Nothing.type = "job" /\ Nothing.job = NoJob /\ Nothing.mode = "none"
  BY DEF Nothing, Answer
<1>3. CASE Become(s) /\ Respond(a, m, live, Nothing)
  <2>1. row' \in [Jobs -> Rows] /\ policy' \in Policies /\ Moves
    BY <1>3, WithdrawShows DEF Expire, Moves
  <2> QED
    BY <1>1, <1>2, <1>3, <2>1, RepliesTyped, RecordsFit, MessageShows DEF Poll
<1>4. ASSUME NEW j \in Jobs, Executor[j] = a, s.row[j].status \in PreExecution,
             Become(s), Respond(a, m, live, Offer(s, j))
      PROVE  Shown
  <2>1. row' \in [Jobs -> Rows] /\ policy' \in Policies /\ Still
    BY <1>4, WithdrawShows DEF Expire
  <2>2. row'[j] = s.row[j]
    BY <1>4 DEF Become
  <2>3. row[j].status # "absent"
    BY <1>4, <2>1, <2>2 DEF Still, Follows, Active, PreExecution
  <2>4. /\ Offer(s, j) \in Replies
        /\ Offer(s, j).job = j
        /\ Offer(s, j).type = "job"
        /\ Offer(s, j).mode # "execute"
    BY RepliesTyped DEF Offer, Answer, Modes
  <2> QED
    BY <1>1, <1>4, <2>1, <2>3, <2>4, RecordsFit, MessageShows DEF Poll, Moves
<1>5. ASSUME NEW j \in Jobs, Become(Invalidate(s, j)),
             Respond(a, m, live, Nothing)
      PROVE  Shown
  <2>1. row' \in [Jobs -> Rows] /\ policy' \in Policies /\ Moves
    BY <1>5, InvalidateFacts DEF Become, Moves, Still
  <2> QED
    BY <1>1, <1>2, <1>5, <2>1, RepliesTyped, RecordsFit, MessageShows DEF Poll
<1> HIDE DEF s
<1> QED  BY <1>3, <1>4, <1>5 DEF Poll, s

LEMMA LookupShows ==
  ASSUME IInv, UNCHANGED agentVars, NEW a \in Agents, NEW m \in Requests,
         NEW live \in BOOLEAN,
         MessageOK(a, m), NEW ready \in BOOLEAN, Lookup(a, m, live, ready)
  PROVE  Shown
<1> DEFINE j == m.job
           s == Expire(State)
           r == IF s.row[j].status \in PreExecution /\
                  ~ScopeCurrent(s, j, ready)
                THEN Invalidate(s, j) ELSE s
           answer == IF r.row[j].status \in Active THEN Offer(r, j) ELSE Nothing
<1>1. j \in Jobs /\ Executor[j] = a /\ row[j].status # "absent"
  BY DEF MessageOK, Lookup, Requests
<1>2. r = s \/ r = Invalidate(s, j)
  OBVIOUS
<1>3. row' = r.row /\ policy' = r.policy /\ Respond(a, m, live, answer) /\
        Arrives(a, m, live)
      /\ Readiness(ready) /\ UNCHANGED <<recon, authorityVars, overdue>>
  BY DEF Lookup, Become
<1> HIDE DEF r
<1>4. row' \in [Jobs -> Rows] /\ policy' \in Policies /\ Still
  BY <1>1, <1>2, <1>3, ExpireFacts, InvalidateFacts DEF Still
<1>5. /\ answer \in Replies /\ answer.mode # "execute"
      /\ answer.type = "job" /\ answer.job \in {j, NoJob}
  BY <1>1, RepliesTyped DEF Offer, Nothing, Answer, Modes
<1>6. recon \in [Changes -> Records]
  BY DEF IInv, TypeOK
<1> HIDE DEF answer, j
<1> QED
  BY <1>1, <1>3, <1>4, <1>5, <1>6, RecordsFit, MessageShows DEF Moves

LEMMA ClaimShows ==
  ASSUME IInv, UNCHANGED agentVars, NEW a \in Agents, NEW m \in Requests,
         NEW live \in BOOLEAN,
         MessageOK(a, m), NEW ready \in BOOLEAN, Claim(a, m, live, ready)
  PROVE  Shown
<1> DEFINE j == m.job
           s == Expire(State)
           current == ScopeCurrent(s, j, ready) /\ j \notin overdue
           waiting == s.row[j].status \in PreExecution
           granted == current /\ waiting /\ ApprovalCurrent(s, j)
           given == [s EXCEPT !.row[j].status = "running",
                     !.row[j].claimed = TRUE]
           r == IF granted THEN given
                ELSE IF ~current \/ waiting THEN Invalidate(s, j) ELSE s
           mode == IF granted THEN "execute"
                   ELSE IF r.row[j].status = "running" THEN "observe"
                   ELSE IF r.row[j].status = "reconciliation_required"
                     THEN "reconcile"
                   ELSE "cancelled"
           answer == Answer("claim", j, mode, 0, NoDoc)
<1>1. j \in Jobs /\ Executor[j] = a /\ row[j].status # "absent" /\
        j \notin Inspections
  BY DEF MessageOK, Claim, Requests
<1>2. /\ granted => r = given
      /\ ~granted => r = s \/ r = Invalidate(s, j)
  OBVIOUS
<1>3. mode \in Modes /\ (mode = "execute" => granted)
  BY DEF Modes
<1>4. row' = r.row /\ policy' = r.policy /\ Respond(a, m, live, answer) /\
        Arrives(a, m, live)
      /\ Readiness(ready)
      /\ UNCHANGED <<recon, authorityVars, overdue>>
      /\ tenantActive
  BY DEF Claim, Become
<1>5. answer \in Replies /\ answer.type = "claim" /\ answer.mode = mode
  BY <1>1, <1>3, RepliesTyped DEF Answer
<1>6. recon \in [Changes -> Records]
  BY DEF IInv, TypeOK
<1> HIDE DEF r, mode, answer
<1>7. CASE granted
  <2>1. /\ s.row \in [Jobs -> Rows] /\ s.policy \in Policies
        /\ s = [row |-> s.row, policy |-> s.policy]
        /\ \A k \in Jobs : Follows(row[k], s.row[k])
        /\ s.row[j] = [row[j] EXCEPT !.status = s.row[j].status]
        /\ row[j].status \in PreExecution
    BY <1>1, <1>7, ExpireFacts
  <2>2. /\ rule.revision = s.row[j].rule /\ s.row[j].requester \in permitted
        /\ s.row[j].approver \in permitted
        /\ s.row[j].four => s.row[j].approver # s.row[j].requester
        /\ j \notin overdue
    BY <1>7 DEF ApprovalCurrent, PolicyCurrent
  <2>3. row[j] \in Rows /\ RowOK(row[j], j)
    BY <1>1 DEF IInv, TypeOK, RowsOK
  <2> HIDE DEF s
  <2>4. /\ row' = [s.row EXCEPT ![j] =
                   [s.row[j] EXCEPT !.status = "running", !.claimed = TRUE]]
        /\ policy' = s.policy
    <3> DEFINE q == [s.row[j] EXCEPT !.status = "running", !.claimed = TRUE]
    <3>1. s.row[j] \in Rows
      BY <1>1, <2>1
    <3>2. given.row =
            [s.row EXCEPT ![j].status = "running", ![j].claimed = TRUE]
          /\ given.policy = s.policy
      BY <2>1
    <3>3. [s.row EXCEPT ![j].status = "running", ![j].claimed = TRUE] =
            [s.row EXCEPT ![j] = q]
      BY <1>1, <2>1, <3>1
    <3> QED  BY <1>2, <1>4, <1>7, <3>2, <3>3
  <2>5. row' \in [Jobs -> Rows]
    <3>1. [s.row[j] EXCEPT !.status = "running", !.claimed = TRUE] \in Rows
      <4> DEFINE q == s.row[j]
      <4>1. q \in Rows
        BY <1>1, <2>1
      <4> HIDE DEF q
      <4>2. [q EXCEPT !.status = "running", !.claimed = TRUE] \in Rows
        BY <4>1 DEF Rows, Active
      <4> QED  BY <4>2 DEF q
    <3> QED  BY <1>1, <2>1, <2>4, <3>1
  <2>6. Permits(j)
    BY <1>1, <1>4, <2>1, <2>2, <2>3 DEF Permits, RowOK, Rows
  <2>7. Granted(j)
    BY <1>1, <2>1, <2>3, <2>4, <2>6 DEF Granted, Others, Rows
  <2> QED
    BY <1>1, <1>4, <1>5, <1>6, <2>1, <2>4, <2>5, <2>7, RecordsFit, MessageShows
       DEF Moves, Granted
<1>8. CASE ~granted
  <2>1. row' \in [Jobs -> Rows] /\ policy' \in Policies /\ Still
    BY <1>1, <1>2, <1>4, <1>8, ExpireFacts, InvalidateFacts DEF Still
  <2>2. answer.mode # "execute"
    BY <1>3, <1>5, <1>8
  <2> HIDE DEF granted, j
  <2> QED
    BY <1>4, <1>5, <1>6, <2>1, <2>2, RecordsFit, MessageShows DEF Moves
<1> QED  BY <1>7, <1>8

\* A result is a receipt of the job, or says that approval is awaited.
LEMMA ResultRow ==
  ASSUME IInv, UNCHANGED agentVars, NEW a \in Agents, NEW m \in Requests,
         MessageOK(a, m), m.mode = "result", NEW ready \in BOOLEAN,
         \/ UNCHANGED <<row, policy>>
         \/ /\ Closes(m.job, m.doc)
            /\ row' = [row EXCEPT ![m.job].digest = m.doc]
            /\ UNCHANGED policy
         \/ /\ Waits(m.job, m.doc)
            /\ row' = IF row[m.job].approver # Nobody THEN row
                      ELSE [row EXCEPT ![m.job].status = "awaiting_approval"]
            /\ UNCHANGED policy
         \/ Succeeds(m.job, m.doc, ready) /\ Succeed(m.job, m.doc)
         \/ Ends(m.job, m.doc) /\ End(m.job, m.doc)
  PROVE  row' \in [Jobs -> Rows] /\ policy' \in Policies /\ Moves
<1> DEFINE j == m.job doc == m.doc
<1>1. /\ j \in Jobs /\ row[j].status # "absent" /\ doc \in Docs
      /\ doc = Awaiting \/ (doc # NoDoc /\ doc = receipt[j])
  BY DEF MessageOK, Requests
<1>2. /\ row \in [Jobs -> Rows] /\ policy \in Policies /\ row[j] \in Rows
      /\ RowOK(row[j], j) /\ policy.revision \in Nat
  BY <1>1 DEF IInv, TypeOK, RowsOK, Policies
<1>3. Awaiting.status = "awaiting" /\ doc # NoDoc
  <2>1. Awaiting.status = "awaiting" /\ Awaiting \in Receipts
    BY DEF Awaiting, Doc, Receipts
  <2> QED  BY <1>1, <2>1, JobFacts
<1> HIDE DEF j, doc
<1>4. CASE UNCHANGED <<row, policy>>
  BY <1>4, Stays DEF Moves
<1>5. CASE Closes(j, doc) /\ row' = [row EXCEPT ![j].digest = doc] /\
             UNCHANGED policy
  <2>1. row' = [row EXCEPT ![j] = [row[j] EXCEPT !.digest = doc]]
    BY <1>1, <1>2, <1>5
  <2>2. row' \in [Jobs -> Rows]
    BY <1>1, <1>2, <2>1 DEF Rows
  <2>3. Still
    BY <1>1, <1>2, <1>5, <2>1 DEF Still, Follows, Rows, Closes
  <2> QED  BY <1>2, <1>5, <2>2, <2>3 DEF Moves
<1>6. CASE /\ Waits(j, doc)
           /\ row' = IF row[j].approver # Nobody THEN row
                     ELSE [row EXCEPT ![j].status = "awaiting_approval"]
           /\ UNCHANGED policy
  <2>1. CASE row' = row
    BY <1>6, <2>1, Stays DEF Moves
  <2>2. CASE row' = [row EXCEPT ![j].status = "awaiting_approval"]
    <3>1. row' = [row EXCEPT ![j] =
                  [row[j] EXCEPT !.status = "awaiting_approval"]]
      BY <1>1, <1>2, <2>2
    <3>2. row' \in [Jobs -> Rows]
      BY <1>1, <1>2, <3>1 DEF Rows, Active, PreExecution
    <3>3. Still
      BY <1>1, <1>2, <1>6, <3>1 DEF Still, Follows, Rows, Waits, PreExecution
    <3> QED  BY <1>2, <1>6, <3>2, <3>3 DEF Moves
  <2> QED  BY <1>6, <2>1, <2>2
<1>7. CASE Succeeds(j, doc, ready) /\ Succeed(j, doc)
  <2> DEFINE status == IF j \in Inspections THEN "inspected" ELSE "done"
  <2>1. row' = [row EXCEPT ![j] =
                [row[j] EXCEPT !.status = status, !.digest = doc]]
    BY <1>1, <1>2, <1>7 DEF Succeed
  <2>2. policy' \in Policies
    BY <1>2, <1>7 DEF Succeed, Policies
  <2>3. row' \in [Jobs -> Rows]
    BY <1>1, <1>2, <2>1 DEF Rows, Terminal, Done
  <2>4. doc = receipt[j]
    BY <1>1, <1>3, <1>7, JobFacts DEF Succeeds
  <2>5. CASE j \in Inspections
    <3>1. row[j].status = "queued" /\ ~row[j].claimed
      BY <1>2, <1>7, <2>5, JobFacts DEF Succeeds, RowOK
    <3>2. Still
      BY <1>1, <1>2, <1>3, <2>1, <2>5, <3>1
         DEF Still, Follows, Rows, Active, PreExecution
    <3> QED  BY <2>2, <2>3, <3>2 DEF Moves
  <2>6. CASE j \notin Inspections
    <3>1. row[j].status \in {"running", "reconciliation_required"} /\
            row[j].claimed
          /\ doc.status = "success"
      BY <1>2, <1>7, <2>6 DEF Succeeds, RowOK, Rows, Terminal, Done, Active
    <3>2. /\ row'[j].status = "done" /\ row'[j].claimed = row[j].claimed
          /\ row'[j].rule = row[j].rule /\ row'[j].four = row[j].four
      BY <1>1, <1>2, <2>1, <2>6 DEF Rows
    <3>3. Others(j)
      BY <1>1, <1>2, <2>1 DEF Others, Follows
    <3>4. Completed(j)
      BY <1>3, <2>4, <2>6, <3>1, <3>2, <3>3 DEF Completed, Active
    <3> QED  BY <1>1, <2>2, <2>3, <3>4 DEF Moves
  <2> QED  BY <2>5, <2>6
<1>8. CASE Ends(j, doc) /\ End(j, doc)
  <2> DEFINE doubtful == doc.status = "uncertain" \/ row[j].claimed
             status == IF doubtful THEN "reconciliation_required" ELSE "failed"
             kept == doubtful /\ j \in Changes
  <2>1. row' = [row EXCEPT ![j].digest = doc, ![j].status = status]
    BY <1>8, Zenon DEF End, Become
  <2>2. policy' = [policy EXCEPT !.fenced = @ \/ kept]
    BY <1>8, Zenon DEF End, Become
  <2>3. policy' \in Policies
    BY <1>2, <2>2, Zenon DEF Policies
  <2>4. doubtful \in BOOLEAN /\
          (doubtful <=> doc.status = "uncertain" \/ row[j].claimed)
    BY Zenon, <1>2 DEF Rows
  <2> HIDE DEF doubtful
  <2>5. row' = [row EXCEPT ![j] =
                [row[j] EXCEPT !.digest = doc, !.status = status]]
    BY <1>1, <1>2, <2>1
  <2>6. row' \in [Jobs -> Rows]
    BY <1>1, <1>2, <2>5 DEF Rows, Terminal, Active
  <2>7. row[j].status \in Active
    BY <1>1, <1>2, <1>8 DEF Ends, Rows
  <2>8. row[j].claimed => doubtful
    BY <2>4
  <2>9. Still
    BY <1>1, <1>2, <2>5, <2>7, <2>8 DEF Still, Follows, Rows
  <2> QED  BY <2>3, <2>6, <2>9 DEF Moves
<1> QED  BY <1>4, <1>5, <1>6, <1>7, <1>8 DEF j, doc

LEMMA ResultShows ==
  ASSUME IInv, UNCHANGED agentVars, NEW a \in Agents, NEW m \in Requests,
         NEW live \in BOOLEAN,
         MessageOK(a, m), NEW ready \in BOOLEAN, Result(a, m, live, ready)
  PROVE  Shown
<1>1. PICK answer \in {Accepted, Rejected} : Respond(a, m, live, answer)
  BY DEF Result
<1>2. row' \in [Jobs -> Rows] /\ policy' \in Policies /\ Moves
  BY ResultRow DEF Result
<1>3. answer \in Replies /\ answer.type # "job" /\ answer.mode # "execute"
  BY RepliesTyped DEF Accepted, Rejected, Answer
<1>4. /\ Arrives(a, m, live) /\ Readiness(ready)
      /\ UNCHANGED <<recon, authorityVars, overdue>>
  BY DEF Result
<1>5. recon \in [Changes -> Records]
  BY DEF IInv, TypeOK
<1> QED
  BY <1>1, <1>2, <1>3, <1>4, <1>5, RecordsFit, MessageShows

\* A record may be replaced by a fitting one, the answer is about it.
LEMMA ExchangeShows ==
  ASSUME IInv, UNCHANGED <<agentVars, authorityVars, overdue>>,
         NEW a \in Agents, NEW m \in Requests, NEW live \in BOOLEAN,
         NEW answer \in Replies,
         Arrives(a, m, live), Respond(a, m, live, answer), NEW ready,
         Readiness(ready),
         answer.type # "job", answer.mode # "execute",
         row' \in [Jobs -> Rows], policy' \in Policies, Moves,
         NEW c \in Changes, NEW e \in Records, Fits(e, c),
         recon' = recon \/ recon' = [recon EXCEPT ![c] = e]
  PROVE  Shown
<1>1. recon \in [Changes -> Records] /\ \A d \in Changes : Fits(recon[d], d)
  BY RecordsFit DEF IInv, TypeOK
<1>2. recon' \in [Changes -> Records]
  BY <1>1
<1>3. \A d \in Changes : recon'[d] = recon[d] \/ (d = c /\ recon'[d] = e)
  BY <1>1
<1>4. \A d \in Changes : Fits(recon'[d], d)
  BY <1>1, <1>3
<1> QED  BY <1>2, <1>4, MessageShows

LEMMA ControlsTyped ==
  ASSUME IInv, NEW c \in Changes, NEW answer,
         \/ answer \in {NoControl, Rejected}
         \/ answer \in {Control(c, "released"), Control(c, "observe"),
                        Control(c, "accept")}
  PROVE  answer \in Replies /\ answer.type # "job" /\ answer.mode # "execute"
<1>1. {"released", "observe", "accept"} \subseteq Modes
  BY DEF Modes
<1>2. \A mode \in {"released", "observe", "accept"} :
        Control(c, mode) \in Replies /\ Control(c, mode).type # "job"
        /\ Control(c, mode).mode # "execute"
  BY <1>1, RepliesTyped DEF Control, Answer
<1>3. CASE answer \in {NoControl, Rejected}
  BY <1>3, RepliesTyped DEF NoControl, Rejected, Answer
<1> QED  BY <1>2, <1>3

LEMMA ReconciliationPollShows ==
  ASSUME IInv, UNCHANGED agentVars, NEW a \in Agents, NEW m \in Requests,
         NEW live \in BOOLEAN,
         MessageOK(a, m), NEW ready \in BOOLEAN,
           ReconciliationPoll(a, m, live, ready)
  PROVE  Shown
<1> DEFINE c == m.job
           e == Reviewed(Expire(State), c, ready)
<1>1. c \in Changes
  BY DEF ReconciliationPoll, MessageOK, Reconciling
<1>2. e \in Records /\ Fits(e, c)
  BY <1>1, ReviewedFits
<1>3. PICK answer : /\ Respond(a, m, live, answer)
                    /\ answer \in {NoControl, Control(c, "released"),
                                   Control(c, "observe"),
                                   Control(c, "accept")}
  BY DEF ReconciliationPoll
<1>4. answer \in Replies /\ answer.type # "job" /\ answer.mode # "execute"
  BY <1>1, <1>3, ControlsTyped
<1>5. row' \in [Jobs -> Rows] /\ policy' \in Policies /\ Moves
  BY WithdrawShows DEF ReconciliationPoll, Expire, Moves
<1>6. /\ Arrives(a, m, live)
      /\ Readiness(ready)
      /\ recon' = [recon EXCEPT ![c] = e]
      /\ UNCHANGED <<authorityVars, overdue>>
  BY DEF ReconciliationPoll
<1> HIDE DEF e, c
<1> QED  BY <1>1, <1>2, <1>3, <1>4, <1>5, <1>6, ExchangeShows

LEMMA ObservedFits ==
  ASSUME IInv, NEW c \in Changes, NEW e \in Records, Fits(e, c),
         NEW seen \in Views,
         seen # NoDoc, receipt[c] # NoDoc, HoldsAllWrites(c, seen)
  PROVE  Observed(e, seen) \in Records /\ Fits(Observed(e, seen), c)
BY DEF Observed, Records, Fits, Pending, Views

LEMMA ReconciliationResultShows ==
  ASSUME IInv, UNCHANGED agentVars, NEW a \in Agents, NEW m \in Requests,
         NEW live \in BOOLEAN,
         MessageOK(a, m), NEW ready \in BOOLEAN,
           ReconciliationResult(a, m, live, ready)
  PROVE  Shown
<1> DEFINE c == m.job
           s == Expire(State)
           e == Reviewed(s, c, ready)
           f == IF e.status \in Pending THEN Observed(e, m.seen) ELSE e
           known == m.round = e.round
<1>1. /\ c \in Changes /\ receipt[c] # NoDoc /\ m.seen \in Views
      /\ m.seen # NoDoc /\ HoldsAllWrites(c, m.seen)
  BY DEF ReconciliationResult, MessageOK, Reconciling, Observing, Ended,
         Requests
<1>2. e \in Records /\ Fits(e, c)
  BY <1>1, ReviewedFits
<1>3. f \in Records /\ Fits(f, c)
  BY <1>1, <1>2, ObservedFits
<1>4. /\ Arrives(a, m, live)
      /\ Readiness(ready)
      /\ UNCHANGED <<authorityVars, overdue>>
      /\ \/ Respond(a, m, live, Rejected) /\ UNCHANGED <<row, policy, recon>>
         \/ /\ Become(s) /\ (recon' = recon \/ recon' = [recon EXCEPT ![c] = f])
            /\ Respond(a, m, live, Aftermath(s, c, known))
  BY DEF ReconciliationResult
<1>5. Aftermath(s, c, known) \in {NoControl, Control(c, "released")}
  BY DEF Aftermath
<1>6. row' \in [Jobs -> Rows] /\ policy' \in Policies /\ Moves
  BY <1>4, WithdrawShows, Stays DEF Expire, Moves
<1>7. PICK answer \in {NoControl, Rejected, Control(c, "released")} :
             Respond(a, m, live, answer)
  BY <1>4, <1>5
<1>8. answer \in Replies /\ answer.type # "job" /\ answer.mode # "execute"
  BY <1>1, <1>7, ControlsTyped
<1> HIDE DEF f, e, c, known, s
<1> QED  BY <1>1, <1>3, <1>4, <1>6, <1>7, <1>8, ExchangeShows

LEMMA ReconciliationAckShows ==
  ASSUME IInv, UNCHANGED agentVars, NEW a \in Agents, NEW m \in Requests,
         NEW live \in BOOLEAN,
         MessageOK(a, m), NEW ready \in BOOLEAN,
           ReconciliationAck(a, m, live, ready)
  PROVE  Shown
<1> DEFINE c == m.job
           s == Expire(State)
           e == Reviewed(s, c, ready)
           f == [e EXCEPT !.status = "accepted"]
           known == m.round = e.round
           released1 == /\ known
                        /\ e.status = "accept_requested"
                        /\ m.seen = e.seen
                        /\ row' = [s.row EXCEPT ![c].status = "reconciled"]
                        /\ policy' =
                             [revision |-> policy.revision + 1,
                              fenced |-> FALSE,
                                      named |-> TRUE]
                        /\ recon' = [recon EXCEPT ![c] = f]
                        /\ Respond(a, m, live, Control(c, "released"))
           ignored == /\ Become(s)
                      /\ (recon' = recon \/ recon' = [recon EXCEPT ![c] = e])
                      /\ Respond(a, m, live, Aftermath(s, c, known))
           refused == Respond(a, m, live, Rejected) /\
                        UNCHANGED <<row, policy, recon>>
<1>1. /\ c \in Changes /\ c \in Jobs /\ receipt[c] # NoDoc
      /\ HoldsAllWrites(c, m.seen) /\ <<c, m.round>> \in pending
  BY JobFacts DEF ReconciliationAck, MessageOK, Reconciling, Observing, Ended
<1>2. /\ e \in Records /\ Fits(e, c)
      /\ e.status # "stale" => e = recon[c]
      /\ e.status \in Pending => Authorized(s, c)
  BY <1>1, ReviewedFits
<1>3. /\ Arrives(a, m, live)
      /\ Readiness(ready)
      /\ UNCHANGED <<authorityVars, overdue>>
  BY DEF ReconciliationAck
<1>4. released1 \/ ignored \/ refused
  BY DEF ReconciliationAck, Pending
<1>5. Aftermath(s, c, known) \in {NoControl, Control(c, "released")}
  BY DEF Aftermath
<1> HIDE DEF c, s, e
<1>6. CASE released1
  <2>1. /\ s.row \in [Jobs -> Rows]
        /\ \A k \in Jobs : Follows(row[k], s.row[k])
        /\ s.row[c] = [row[c] EXCEPT !.status = s.row[c].status]
    BY <1>1, ExpireFacts DEF s
  <2>2. /\ s.row[c].status = "reconciliation_required"
        /\ rule.revision = e.rule
        /\ e.accepter \in permitted
        /\ e.four => e.accepter \notin {s.row[c].requester, e.by}
        /\ e = recon[c]
    BY <1>2, <1>6 DEF Authorized, Pending
  <2>3. row[c] \in Rows /\ policy.revision \in Nat
    BY <1>1 DEF IInv, TypeOK
  <2>4. row[c].status \in Active /\ s.row[c].requester = row[c].requester
    BY <1>1, <2>1, <2>2, <2>3 DEF Follows, Active, PreExecution, Rows
  <2>5. Confirmed(c)
    <3>1. e.seen.sound /\ (e.rule = rule.revision /\ rule.four => e.four)
      BY <1>2, <1>6 DEF Fits
    <3> QED  BY <1>1, <1>6, <2>2, <2>4, <3>1 DEF Confirmed, HoldsAllWrites
  <2>6. row' = [s.row EXCEPT ![c] = [s.row[c] EXCEPT !.status = "reconciled"]]
    BY <1>1, <1>6, <2>1
  <2>7. row' \in [Jobs -> Rows]
    BY <1>1, <2>1, <2>6 DEF Rows, Terminal
  <2>8. Reconciled(c)
    BY <1>1, <2>1, <2>3, <2>4, <2>5, <2>6 DEF Reconciled, Others, Rows
  <2>9. policy' \in Policies /\ Moves
    BY <1>1, <1>6, <2>3, <2>8 DEF Policies, Moves
  <2>10. f \in Records /\ Fits(f, c)
    BY <1>2, <1>6 DEF Records, Fits
  <2>11. LET answer == Control(c, "released") IN
           answer \in Replies /\ answer.type # "job" /\ answer.mode # "execute"
    BY <1>1, ControlsTyped
  <2> HIDE DEF f
  <2> QED  BY <1>1, <1>3, <1>6, <2>7, <2>9, <2>10, <2>11, ExchangeShows
<1>7. CASE ignored
  <2>1. row' \in [Jobs -> Rows] /\ policy' \in Policies /\ Moves
    BY <1>7, WithdrawShows DEF Expire, Moves, s
  <2>2. LET answer == Aftermath(s, c, known) IN
           answer \in Replies /\ answer.type # "job" /\ answer.mode # "execute"
    BY <1>1, <1>5, ControlsTyped
  <2> HIDE DEF known
  <2> QED  BY <1>1, <1>2, <1>3, <1>7, <2>1, <2>2, ExchangeShows
<1>8. CASE refused
  <2>1. Rejected \in Replies /\ Rejected.type # "job" /\
          Rejected.mode # "execute"
    BY <1>1, ControlsTyped
  <2> QED  BY <1>1, <1>2, <1>3, <1>8, <2>1, Stays, ExchangeShows DEF Moves
<1> HIDE DEF released1, ignored, refused
<1> QED  BY <1>4, <1>6, <1>7, <1>8

LEMMA GatewayShows ==
  ASSUME IInv, UNCHANGED agentVars, NEW a \in Agents, NEW m \in Requests,
         NEW live \in BOOLEAN,
         MessageOK(a, m), Gateway(a, m, live)
  PROVE  Shown
BY RefuseShows, PollShows, LookupShows, ClaimShows, ResultShows,
   ReconciliationPollShows, ReconciliationResultShows, ReconciliationAckShows
   DEF Gateway

\* Whatever a user or a message does.
PortalNext ==
  /\ \/ User
     \/ \E a \in Agents : Gateway(a, request[a], TRUE)
     \/ \E d \in late : Gateway(d[1], d[2], FALSE)
  /\ UNCHANGED agentVars

LEMMA PortalShows ==
  ASSUME IInv, PortalNext
  PROVE  Shown
<1>1. ASSUME NEW a \in Agents, Gateway(a, request[a], TRUE)
      PROVE  Shown
  <2>1. request[a] \in Requests /\ MessageOK(a, request[a])
    BY DEF IInv, TypeOK
  <2> QED  BY <1>1, <2>1, GatewayShows DEF PortalNext
<1>2. ASSUME NEW d \in late, Gateway(d[1], d[2], FALSE)
      PROVE  Shown
  <2>1. d[1] \in Agents /\ d[2] \in Requests /\ MessageOK(d[1], d[2])
    BY DEF IInv, TypeOK
  <2> QED  BY <1>2, <2>1, GatewayShows DEF PortalNext
<1> QED  BY <1>1, <1>2, RequestsShow DEF PortalNext

LEMMA PortalKeeps ==
  ASSUME IInv, PortalNext
  PROVE  IInv'
BY PortalShows, PortalStep DEF Shown, PortalNext

-----------------------------------------------------------------------------
(* What an action of an Agent must show. *)

\* Only a granted job that has the domain and no receipt is written for.
Writes(j) ==
  /\ j \in Jobs /\ receipt[j] = NoDoc
  /\ row[j].status \in Active /\ row[j].claimed
  /\ \E extent \in {"partial", "full", "none needed"} :
       /\ effect' = [effect EXCEPT ![j] = extent]
       /\ effect[j] = "none" \/
            (effect[j] = "partial" /\ extent # "none needed")

Places ==
  {"idle", "reporting", "delivering", "polling", "offered", "claiming",
   "reconciling",
   "observing", "acknowledging"} \cup Working

AgentTypes ==
  /\ request \in [Agents -> Requests] /\ reply \in [Agents -> Replies]
  /\ journal \in [Agents -> [job : Jobs \cup {NoJob}, phase : Phases]]
  /\ receipt \in [Jobs -> Docs]
  /\ pending \subseteq Changes \X (0 .. Rounds) /\ released \subseteq Changes
  /\ stage \in [Agents -> Places]
  /\ directory \in Snapshots
  /\ effect \in [Jobs -> {"none", "none needed", "partial", "full"}]

\* What belongs to other Agents, and what does not go back.
Alone(a) ==
  /\ \A b \in Agents \ {a} :
       /\ journal'[b] = journal[b] /\ stage'[b] = stage[b]
       /\ request'[b] = request[b] /\ reply'[b] = reply[b]
  /\ \A i \in Jobs : Executor[i] # a =>
       /\ receipt'[i] = receipt[i] /\ effect'[i] = effect[i]
       /\ i \in released' => i \in released
  /\ \A i \in Jobs : receipt[i] # NoDoc => receipt'[i] = receipt[i]
  /\ pending \subseteq pending'
  /\ late' \subseteq late \cup {<<a, request[a]>>}

Acted(a) ==
  /\ AgentTypes'
  /\ Alone(a)
  /\ effect' = effect \/ Writes(JobOf(a))
  /\ directory'.writes = directory.writes \/ Writes(JobOf(a))
  /\ JournalOK(a)' /\ StageOK(a)' /\ ReplyOK(a)'
  /\ \A i \in Jobs : Executor[i] = a => ReceiptOK(i)'
  /\ request'[a] = request[a] \/ MessageOK(a, request[a])'

\* The portal's part of the state, but for what bounds the faults.
portalData == <<row, policy, recon, authorityVars, overdue>>

LEMMA RowsStay ==
  ASSUME UNCHANGED portalRows
  PROVE  UNCHANGED portalData
BY DEF portalRows, portalData

LEMMA AgentStep ==
  ASSUME IInv, UNCHANGED portalData, unrest' \in 0 .. MaxUnrest,
         NEW a \in Agents, Acted(a)
  PROVE  IInv'
<1> USE JobFacts
<1>1. TypeOK /\ late' \subseteq Agents \X Requests
  <2>1. late \subseteq Agents \X Requests /\ request[a] \in Requests
    BY DEF IInv, TypeOK
  <2> QED  BY <2>1 DEF IInv, Acted, Alone
<1>2. TypeOK'
  BY <1>1 DEF IInv, TypeOK, Acted, AgentTypes, Places, portalData, authorityVars
<1>3. rule'.revision > 0 /\ RowsOK' /\ OneActive'
  BY DEF IInv, RowsOK, RowOK, OneActive, portalData, authorityVars
<1>4. ASSUME NEW c \in Changes, NEW seen,
             receipt[c] # NoDoc, HoldsAllWrites(c, seen)
      PROVE  HoldsAllWrites(c, seen)'
  <2>1. CASE directory'.writes = directory.writes
    BY <1>4, <2>1 DEF HoldsAllWrites, portalData
  <2>2. CASE Writes(JobOf(a))
    <3>1. c # JobOf(a)
      BY <1>4, <2>2 DEF Writes
    <3>2. row[c].status \notin Active
      BY <2>2, <3>1 DEF IInv, OneActive, Writes
    <3> QED  BY <3>2 DEF HoldsAllWrites, portalData
  <2> QED  BY <2>1, <2>2 DEF Acted
<1>5. ASSUME NEW c \in Changes
      PROVE  RecordOK(c)'
  <2>1. Fits(recon[c], c)
    BY DEF IInv, RecordOK
  <2>2. recon' = recon /\ rule' = rule
    BY DEF portalData, authorityVars
  <2>3. receipt[c] # NoDoc => receipt'[c] = receipt[c]
    BY DEF Acted, Alone
  <2>4. recon[c].seen # NoDoc =>
          receipt'[c] # NoDoc /\ HoldsAllWrites(c, recon[c].seen)'
    BY <1>4, <2>1, <2>2, <2>3 DEF Fits
  <2> QED  BY <2>1, <2>2, <2>4 DEF RecordOK, Fits
<1>6. ASSUME NEW b \in Agents, b # a
      PROVE  JournalOK(b)' /\ StageOK(b)' /\ ReplyOK(b)'
  <2>1. JournalOK(b) /\ StageOK(b) /\ ReplyOK(b) /\
          JobOf(b) \in Jobs \cup {NoJob}
    BY <1>1 DEF IInv, TypeOK, JobOf
  <2>2. /\ journal'[b] = journal[b] /\ stage'[b] = stage[b]
        /\ request'[b] = request[b]
        /\ reply'[b] = reply[b]
        /\ JobOf(b)' = JobOf(b)
        /\ row' = row
    BY <1>6 DEF Acted, Alone, JobOf, portalData
  <2>3. JobOf(b) # NoJob => receipt'[JobOf(b)] = receipt[JobOf(b)]
                            /\ effect'[JobOf(b)] = effect[JobOf(b)]
    BY <1>6, <2>1 DEF JournalOK, Acted, Alone
  <2>4. JournalOK(b)' /\ ReplyOK(b)'
    BY <2>1, <2>2 DEF JournalOK, ReplyOK
  <2>5. StageOK(b)'
    <3>1. CASE JobOf(b) # NoJob
      BY <2>1, <2>2, <2>3, <3>1 DEF StageOK, Ended, EffectAt
    <3>2. CASE JobOf(b) = NoJob
      <4>1. journal[b].phase = "none"
        BY <2>1, <3>2 DEF JournalOK
      <4>2. /\ stage[b] \notin {"reporting", "reconciling", "observing",
                                "acknowledging",
                                "offered", "claiming"} \cup Working
        BY <2>1, <3>2, <4>1 DEF StageOK
      <4> QED  BY <2>2, <3>2, <4>2 DEF StageOK
    <3> QED  BY <3>1, <3>2
  <2> QED  BY <2>4, <2>5
<1>7. ASSUME NEW i \in Jobs
      PROVE  ReceiptOK(i)'
  <2>1. CASE Executor[i] = a
    BY <2>1 DEF Acted
  <2>2. CASE Executor[i] # a
    <3>1. /\ receipt'[i] = receipt[i] /\ effect'[i] = effect[i] /\ row' = row
          /\ i \in released' => i \in released
          /\ journal'[Executor[i]] = journal[Executor[i]]
      BY <2>2 DEF Acted, Alone, portalData
    <3>2. ReceiptOK(i)
      BY DEF IInv
    <3> QED  BY <3>1, <3>2 DEF ReceiptOK, JobOf
  <2> QED  BY <2>1, <2>2
<1>8. ASSUME NEW b \in Agents, NEW m \in Requests, MessageOK(b, m)
      PROVE  MessageOK(b, m)'
  <2>1. m.job \in Jobs \cup {NoJob} /\ row' = row /\ pending \subseteq pending'
    BY DEF Requests, portalData, Acted, Alone
  <2>2. m.job \in Jobs /\ receipt[m.job] # NoDoc =>
          receipt'[m.job] = receipt[m.job]
    BY DEF Acted, Alone
  <2>3. m.mode \in Observing => HoldsAllWrites(m.job, m.seen)'
    BY <1>4, <1>8 DEF MessageOK, Observing, Reconciling, Ended
  <2>4. m.mode = "result" =>
          m.doc = Awaiting \/ (m.doc # NoDoc /\ m.doc = receipt'[m.job])
    BY <1>8, <2>1, <2>2 DEF MessageOK
  <2>5. m.mode \in Reconciling => receipt'[m.job] # NoDoc
    BY <1>8, <2>1, <2>2 DEF MessageOK, Ended
  <2> QED  BY <1>8, <2>1, <2>3, <2>4, <2>5 DEF MessageOK, Ended
<1>9. ASSUME NEW b \in Agents
      PROVE  MessageOK(b, request[b])'
  <2>1. MessageOK(b, request[b]) /\ request[b] \in Requests
    BY <1>1 DEF IInv, TypeOK
  <2>2. MessageOK(b, request[b])' \/ request'[b] = request[b]
    BY DEF Acted, Alone
  <2> QED  BY <1>8, <2>1, <2>2
<1>10. ASSUME NEW d \in late'
       PROVE  MessageOK(d[1], d[2])'
  <2>1. d \in late \/ d = <<a, request[a]>>
    BY DEF Acted, Alone
  <2>2. d[1] \in Agents /\ d[2] \in Requests
    BY <1>1
  <2>3. MessageOK(d[1], d[2])
    BY <1>1, <2>1 DEF IInv
  <2> QED  BY <1>8, <2>2, <2>3
<1>11. JournalOK(a)' /\ StageOK(a)' /\ ReplyOK(a)'
  BY DEF Acted
<1> QED
  BY <1>2, <1>3, <1>5, <1>6, <1>7, <1>9, <1>10, <1>11 DEF IInv

-----------------------------------------------------------------------------
(* The actions of the Agents, by what they change. *)

LEMMA AgentFacts ==
  ASSUME IInv, NEW a \in Agents
  PROVE  /\ AgentTypes /\ JournalOK(a) /\ StageOK(a) /\ ReplyOK(a)
         /\ MessageOK(a, request[a]) /\ journal[a].phase \in Phases
         /\ JobOf(a) \in Jobs \cup {NoJob}
         /\ JobOf(a) # NoJob =>
              /\ JobOf(a) \in Jobs /\ Executor[JobOf(a)] = a
              /\ row[JobOf(a)] \in Rows /\ row[JobOf(a)].status # "absent"
              /\ RowOK(row[JobOf(a)], JobOf(a)) /\ ReceiptOK(JobOf(a))
         /\ NoReply.type = "none"
         /\ NoReply.mode = "none"
         /\ NoReply \in Replies
<1>1. AgentTypes /\ JournalOK(a) /\ StageOK(a) /\ ReplyOK(a)
  BY DEF IInv, TypeOK, AgentTypes, Places
<1>2. MessageOK(a, request[a])
  BY DEF IInv
<1>3. JobOf(a) \in Jobs \cup {NoJob} /\ journal[a].phase \in Phases
  BY <1>1 DEF AgentTypes, JobOf
<1>4. ASSUME JobOf(a) # NoJob
      PROVE  /\ JobOf(a) \in Jobs /\ Executor[JobOf(a)] = a
             /\ row[JobOf(a)] \in Rows /\ row[JobOf(a)].status # "absent"
             /\ RowOK(row[JobOf(a)], JobOf(a)) /\ ReceiptOK(JobOf(a))
  BY <1>1, <1>3, <1>4 DEF IInv, TypeOK, JournalOK, RowsOK
<1>5. NoReply \in Replies /\ NoReply.type = "none" /\ NoReply.mode = "none"
  BY RepliesTyped DEF NoReply, Answer
<1> QED
  BY <1>1, <1>2, <1>3, <1>4, <1>5

LEMMA RequestsTyped ==
  ASSUME NEW mode \in {"poll", "lookup", "claim", "result",
                       "reconciliation_poll"},
         NEW j \in Jobs \cup {NoJob}, NEW doc \in Docs
  PROVE  /\ Message(mode, j, doc, 0, NoDoc) \in Requests
         /\ Message(mode, j, doc, 0, NoDoc).mode = mode
         /\ Message(mode, j, doc, 0, NoDoc).job = j
         /\ Message(mode, j, doc, 0, NoDoc).doc = doc
         /\ NoRequest \in Requests
<1>1. Rounds \in Nat
  BY GpoAssumption DEF GpoAssumption
<1>2. 0 \in 0 .. Rounds
  BY <1>1
<1> QED  BY <1>2 DEF Message, NoRequest, Requests, Views, Docs

\* A worker's job has the domain.
LEMMA HasDomain ==
  ASSUME IInv, NEW a \in Agents, stage[a] \in Working
  PROVE  LET j == JobOf(a) IN
         /\ j \in Jobs \ Inspections /\ Executor[j] = a /\ receipt[j] = NoDoc
         /\ row[j].claimed /\ row[j].status \in Active
         /\ journal[a].phase \notin {"none", "prepared"}
         /\ effect[j] \in EffectAt(stage[a])
<1>1. /\ receipt[JobOf(a)] = NoDoc /\ row[JobOf(a)].claimed
      /\ journal[a].phase \notin {"none", "prepared"}
      /\ effect[JobOf(a)] \in EffectAt(stage[a])
      /\ JobOf(a) # NoJob
  BY AgentFacts DEF StageOK, Ended, JournalOK
<1>2. JobOf(a) \in Jobs /\ Executor[JobOf(a)] = a /\ JobOf(a) \notin Inspections
      /\ row[JobOf(a)].status \notin {"done", "reconciled"}
      /\ RowOK(row[JobOf(a)], JobOf(a))
  BY <1>1, AgentFacts DEF ReceiptOK, RowOK
<1> QED  BY <1>1, <1>2 DEF RowOK, Active

\* The place of a changes, and perhaps its links and what it acknowledged.
LEMMA TalkShows ==
  ASSUME IInv, NEW a \in Agents,
         UNCHANGED <<portalData, journal, receipt, directory, effect>>,
         NEW label \in Places, NEW m \in Requests, NEW answer \in Replies,
         stage' = [stage EXCEPT ![a] = label],
         request' = [request EXCEPT ![a] = m],
         reply' = [reply EXCEPT ![a] = answer],
         late' \subseteq late \cup {<<a, request[a]>>},
         pending \subseteq pending',
         pending' \subseteq Changes \X (0 .. Rounds),
         released' \subseteq Changes,
         \A i \in released' \ released : Executor[i] = a /\ Ended(i),
         answer \in {NoReply, reply[a]}, StageOK(a)', MessageOK(a, m)'
  PROVE  Acted(a)
<1>1. request'[a] = m /\ reply'[a] = answer
  BY AgentFacts DEF AgentTypes
<1>2. \A b \in Agents \ {a} : stage'[b] = stage[b] /\
        request'[b] = request[b] /\ reply'[b] = reply[b]
  BY AgentFacts DEF AgentTypes
<1>3. Changes \subseteq Jobs
  BY JobFacts
<1>4. Alone(a)
  BY <1>2, <1>3, AgentFacts DEF Alone, Ended
<1>5. JournalOK(a)' /\ ReplyOK(a)'
  <2>1. JournalOK(a) /\ ReplyOK(a) /\ NoReply.type = "none"
    BY AgentFacts
  <2> QED  BY <1>1, <2>1 DEF JournalOK, ReplyOK, JobOf, portalData
<1>6. ASSUME NEW i \in Jobs, Executor[i] = a PROVE ReceiptOK(i)'
  <2>1. ReceiptOK(i)
    BY DEF IInv
  <2> QED  BY <1>6, <2>1 DEF ReceiptOK, JobOf, portalData, Ended
<1>7. MessageOK(a, request[a])'
  BY <1>1
<1>8. AgentTypes'
  BY AgentFacts DEF AgentTypes
<1> QED  BY <1>4, <1>5, <1>6, <1>7, <1>8 DEF Acted

\* The job of a gets its receipt.
LEMMA ConcludeShows ==
  ASSUME IInv, NEW a \in Agents, JobOf(a) # NoJob, ~Ended(JobOf(a)),
         UNCHANGED <<portalRows, journal, pending, released, directory>>,
         effect' = effect \/ Writes(JobOf(a)),
         NEW doc \in Receipts, Conclude(a, doc),
         doc.status = "uncertain" => JobOf(a) \notin Inspections,
         doc.status = "success" => effect'[JobOf(a)] \in {"full", "none needed"}
  PROVE  Acted(a)
<1> DEFINE j == JobOf(a) m == Message("result", j, doc, 0, NoDoc)
<1>1. /\ j \in Jobs
      /\ Executor[j] = a
      /\ row[j].status # "absent"
      /\ receipt[j] = NoDoc
      /\ AgentTypes
      /\ NoReply.type = "none"
      /\ NoReply.mode = "none"
      /\ NoReply \in Replies
      /\ doc # NoDoc /\ doc \in Docs
  BY AgentFacts, JobFacts DEF Ended, Docs
<1>2. m \in Requests /\ m.mode = "result" /\ m.job = j /\ m.doc = doc
  <2>1. j \in Jobs \cup {NoJob} /\ doc \in Docs
    BY <1>1
  <2>2. Message("result", j, doc, 0, NoDoc) \in Requests
    BY <2>1, RequestsTyped
  <2> QED  BY <2>2 DEF Message
<1>3. /\ receipt' = [receipt EXCEPT ![j] = doc]
      /\ request' = [request EXCEPT ![a] = m]
      /\ reply' = [reply EXCEPT ![a] = NoReply]
      /\ stage' = [stage EXCEPT ![a] = "delivering"] /\ late' = late
  BY DEF Conclude, Report, Send, Goto
<1>4. effect' \in [Jobs -> {"none", "none needed", "partial", "full"}]
  BY <1>1 DEF AgentTypes, Writes
<1>5. /\ request'[a] = m
      /\ reply'[a] = NoReply
      /\ stage'[a] = "delivering"
      /\ receipt'[j] = doc
      /\ \A i \in Jobs \ {j} : receipt'[i] = receipt[i] /\
           effect'[i] = effect[i]
      /\ JobOf(a)' = j /\ row' = row
  BY <1>1, <1>3 DEF AgentTypes, JobOf, portalRows, Writes
<1>6. AgentTypes'
  BY <1>1, <1>2, <1>3, <1>4 DEF AgentTypes, Places
<1> HIDE DEF m, j
<1>7. Alone(a)
  BY <1>1, <1>3, <1>5 DEF Alone, AgentTypes
<1>8. JournalOK(a)' /\ ReplyOK(a)' /\ StageOK(a)'
  BY <1>1, <1>5, AgentFacts DEF JournalOK, ReplyOK, StageOK, JobOf, Working
<1>9. ASSUME NEW i \in Jobs, Executor[i] = a PROVE ReceiptOK(i)'
  <2>1. ReceiptOK(i)
    BY DEF IInv
  <2>2. CASE i = j
    <3>1. effect'[j] # "none" => row[j].claimed
      BY <2>1, <2>2 DEF ReceiptOK, Writes, j
    <3> QED  BY <1>1, <1>5, <2>2, <3>1 DEF ReceiptOK, j
  <2>3. CASE i # j
    BY <1>5, <1>9, <2>1, <2>3 DEF ReceiptOK, JobOf
  <2> QED  BY <2>2, <2>3
<1>10. MessageOK(a, request[a])'
  <2>1. /\ request'[a].mode = "result"
        /\ request'[a].job = j
        /\ request'[a].doc = receipt'[j]
        /\ receipt'[j] # NoDoc
        /\ row'[j].status # "absent"
        /\ j # NoJob
        /\ Executor[j] = a
    BY <1>1, <1>2, <1>5, JobFacts
  <2> QED  BY <2>1 DEF MessageOK, Reconciling, Observing
<1> QED  BY <1>6, <1>7, <1>8, <1>9, <1>10 DEF Acted, j

LEMMA RestShows ==
  ASSUME IInv, NEW a \in Agents,
         UNCHANGED <<portalData, journal, receipt, pending, directory, effect>>,
         released' \subseteq Changes,
         \A i \in released' \ released : Executor[i] = a /\ Ended(i),
         Goto(a, "idle"), HangUp(a),
           late' \subseteq late \cup {<<a, request[a]>>}
  PROVE  Acted(a)
<1>1. stage'[a] = "idle"
  BY AgentFacts DEF Goto, AgentTypes
<1>2. StageOK(a)'
  BY <1>1 DEF StageOK, Working
<1>3. MessageOK(a, NoRequest)'
  BY DEF MessageOK, NoRequest, Message, Reconciling, Observing
<1>4. NoDoc \in Docs /\ NoJob \in Jobs \cup {NoJob} /\ "idle" \in Places
  BY DEF Docs, Places
<1>5. NoRequest \in Requests
  BY <1>4, RequestsTyped
<1>6. pending' \subseteq Changes \X (0 .. Rounds)
  BY AgentFacts DEF AgentTypes
<1> QED
  BY <1>2, <1>3, <1>4, <1>5, <1>6, AgentFacts, TalkShows DEF Goto, HangUp

LEMMA RecoverActs ==
  ASSUME IInv, NEW a \in Agents, Recover(a)
  PROVE  Acted(a)
<1> DEFINE j == JobOf(a)
           doc == Uncertain(journal[a].phase = "created")
<1>1. j \in Jobs /\ Executor[j] = a /\ row[j].status # "absent" /\ AgentTypes /\
        ReceiptOK(j)
      /\ receipt[j] = NoDoc /\ stage[a] = "idle" /\ JournalOK(a) /\ ReplyOK(a)
  BY AgentFacts DEF Recover, Ended
<1>2. j \notin Inspections
  BY <1>1 DEF Recover, JournalOK
<1>3. doc \in Receipts /\ doc.status = "uncertain"
  BY DEF Uncertain, Doc, Receipts
<1>4. receipt' = [receipt EXCEPT ![j] = doc]
  BY DEF Recover
<1>5. UNCHANGED <<portalVars, journal, pending, released, stage, directory,
                  effect>>
  BY DEF Recover
<1> HIDE DEF doc
<1>6. AgentTypes'
  BY <1>1, <1>3, <1>4, <1>5 DEF AgentTypes, Docs, portalVars, linkVars
<1>7. Alone(a)
  BY <1>1, <1>4, <1>5 DEF Alone, AgentTypes, portalVars, linkVars
<1>8. JournalOK(a)' /\ ReplyOK(a)' /\ StageOK(a)'
  BY <1>1, <1>5
     DEF JournalOK, ReplyOK, StageOK, JobOf, Working, portalVars, linkVars
<1>9. ASSUME NEW i \in Jobs, Executor[i] = a PROVE ReceiptOK(i)'
  <2>1. ReceiptOK(i) /\ doc # NoDoc
    BY <1>3, JobFacts DEF IInv
  <2>2. /\ receipt'[i] = IF i = j THEN doc ELSE receipt[i]
        /\ effect' = effect
        /\ row' = row
        /\ journal' = journal
        /\ released' = released
    BY <1>1, <1>4, <1>5 DEF AgentTypes, portalVars
  <2> QED  BY <1>1, <1>2, <1>3, <2>1, <2>2 DEF ReceiptOK, JobOf
<1> QED
  BY <1>5, <1>6, <1>7, <1>8, <1>9 DEF Acted, portalVars, linkVars

\* What a completed, or prepared, record lets an Agent ask and say.
LEMMA SendShows ==
  ASSUME IInv, NEW a \in Agents,
         UNCHANGED <<portalRows, diskVars, directory, effect>>,
         NEW mode, NEW j, NEW doc, NEW label, Send(a, mode, j, doc, 0, NoDoc),
         Goto(a, label),
         \/ /\ mode = "poll" /\ label = "polling" /\ j = NoJob /\ doc = NoDoc
            /\ JobOf(a) = NoJob \/ Ended(JobOf(a))
         \/ /\ mode = "lookup" /\ label = "polling" /\ j = JobOf(a) /\
                 j # NoJob /\ doc = NoDoc
            /\ journal[a].phase = "prepared"
         \/ /\ mode = "result" /\ label \in {"reporting", "delivering"}
            /\ j = JobOf(a) /\ j # NoJob /\ doc = receipt[j] /\ Ended(j)
         \/ /\ mode = "result" /\ label = "delivering" /\ j = JobOf(a) /\
                 j # NoJob
            /\ doc = Awaiting
         \/ /\ mode = "reconciliation_poll" /\ label = "reconciling" /\
                 doc = NoDoc
            /\ j = JobOf(a) /\ j \in Changes /\ Ended(j)
  PROVE  Acted(a)
<1> DEFINE m == Message(mode, j, doc, 0, NoDoc)
<1>1. /\ JobOf(a) # NoJob => JobOf(a) \in Jobs /\ Executor[JobOf(a)] = a
                             /\ row[JobOf(a)].status # "absent"
      /\ AgentTypes /\ NoReply \in Replies /\ NoReply.mode = "none"
  BY AgentFacts
<1>2. Awaiting \in Docs /\ NoDoc \in Docs
  BY DEF Awaiting, Doc, Docs, Receipts
<1>3. j \in Jobs \cup {NoJob} /\ doc \in Docs /\ (j = NoJob => mode = "poll")
      /\ mode \in {"poll", "lookup", "claim", "result", "reconciliation_poll"}
      /\ label \in Places
  <2>1. label \in Places
    BY DEF Places
  <2>2. mode \in {"poll", "lookup", "claim", "result", "reconciliation_poll"}
    OBVIOUS
  <2>3. j \in Jobs \cup {NoJob} /\ (j = NoJob => mode = "poll")
    BY <1>1, JobFacts
  <2>4. doc \in Docs
    BY <1>1, <1>2, <2>3 DEF AgentTypes
  <2> QED  BY <2>1, <2>2, <2>3, <2>4
<1>4. m \in Requests /\ m.mode = mode /\ m.job = j /\ m.doc = doc
  BY <1>3, RequestsTyped
<1>5. /\ request' = [request EXCEPT ![a] = m]
      /\ reply' = [reply EXCEPT ![a] = NoReply]
      /\ late' = late /\ stage' = [stage EXCEPT ![a] = label]
  BY DEF Send, Goto
<1> HIDE DEF m
<1>6. stage'[a] = label /\ reply'[a] = NoReply /\ JobOf(a)' = JobOf(a) /\
        row' = row
      /\ receipt' = receipt
      /\ journal' = journal
      /\ pending' = pending
      /\ released' = released
  BY <1>1, <1>5 DEF AgentTypes, JobOf, diskVars, portalRows
<1>7. StageOK(a)'
  BY <1>1, <1>6, JobFacts DEF StageOK, Ended, Working
<1>8. MessageOK(a, m)'
  <2>1. MessageOK(a, m)
    BY <1>1, <1>3, <1>4 DEF MessageOK, Reconciling, Observing, Ended
  <2> QED
    BY <1>6, <2>1
       DEF MessageOK, Observing, Reconciling, Ended, HoldsAllWrites,
           portalRows
<1>9. pending' \subseteq Changes \X (0 .. Rounds) /\ released' \subseteq Changes
  BY <1>1, <1>6 DEF AgentTypes
<1> QED
  BY <1>1, <1>3, <1>4, <1>5, <1>6, <1>7, <1>8, <1>9, TalkShows, RowsStay
     DEF diskVars

LEMMA BeginCycleActs ==
  ASSUME IInv, NEW a \in Agents, BeginCycle(a)
  PROVE  Acted(a)
<1> DEFINE j == JobOf(a)
<1>1. j # NoJob => j \in Jobs /\ ReceiptOK(j)
  BY AgentFacts
<1>2. UNCHANGED <<portalRows, diskVars, directory, effect>>
  BY DEF BeginCycle
<1>3. CASE (j = NoJob \/ j \in released) /\ StartPoll(a)
  <2>1. j = NoJob \/ Ended(j)
    BY <1>1, <1>3 DEF ReceiptOK, Ended
  <2> QED  BY <1>2, <1>3, <2>1, SendShows DEF StartPoll
<1>4. CASE /\ j # NoJob /\ journal[a].phase = "prepared"
           /\ Send(a, "lookup", j, NoDoc, 0, NoDoc) /\ Goto(a, "polling")
  BY <1>2, <1>4, SendShows
<1>5. CASE /\ j # NoJob /\ Ended(j)
           /\ \/ /\ Send(a, "result", j, receipt[j], 0, NoDoc)
                 /\ Goto(a, "reporting") \/ Goto(a, "delivering")
              \/ /\ receipt[j].status = "uncertain" /\ j \in Managed
                 /\ Send(a, "reconciliation_poll", j, NoDoc, 0, NoDoc)
                 /\ Goto(a, "reconciling")
  <2>1. j \in Managed /\ receipt[j].status = "uncertain" => j \in Changes
    BY <1>1, <1>5 DEF ReceiptOK, Ended, Managed
  <2> QED  BY <1>2, <1>5, <2>1, SendShows
<1> QED  BY <1>3, <1>4, <1>5 DEF BeginCycle, Report

LEMMA ReportedActs ==
  ASSUME IInv, NEW a \in Agents, Reported(a)
  PROVE  Acted(a)
<1>1. UNCHANGED <<portalRows, diskVars, directory, effect>>
  BY DEF Reported
<1>2. CASE stage[a] = "reporting" /\ StartPoll(a)
  <2>1. Ended(JobOf(a))
    BY <1>2, AgentFacts DEF StageOK
  <2> QED  BY <1>1, <1>2, <2>1, SendShows DEF StartPoll
<1>3. CASE Rest(a)
  BY <1>1, <1>3, RestShows, RowsStay, AgentFacts DEF Rest, diskVars, AgentTypes
<1> QED  BY <1>2, <1>3 DEF Reported

\* Between offer and claim nothing was written.
LEMMA Unwritten ==
  ASSUME IInv, NEW a \in Agents, NEW i \in Jobs, Executor[i] = a,
         receipt[i] = NoDoc,
         stage[a] \in {"polling", "offered"}
  PROVE  effect[i] = "none"
<1>1. ReceiptOK(i) /\ StageOK(a)
  BY AgentFacts DEF IInv
<1> QED  BY <1>1, JobFacts DEF ReceiptOK, StageOK, Ended

LEMMA FailedTyped ==
  ASSUME NEW closing \in BOOLEAN
  PROVE  /\ Failed(closing) \in Receipts /\ Failed(closing).status = "failed"
         /\ Uncertain(closing) \in Receipts
         /\ Uncertain(closing).status = "uncertain"
BY DEF Failed, Uncertain, Doc, Receipts

LEMMA ReceiveOfferActs ==
  ASSUME IInv, NEW a \in Agents, ReceiveOffer(a)
  PROVE  Acted(a)
<1> DEFINE j == reply[a].job
           prepared == JobOf(a) # NoJob /\ ~Ended(JobOf(a))
<1>1. UNCHANGED <<portalRows, pending, released, directory, effect>>
  BY DEF ReceiveOffer
<1>2. CASE prepared /\ Conclude(a, Failed(TRUE)) /\ UNCHANGED journal
  BY <1>1, <1>2, ConcludeShows, FailedTyped
<1>3. CASE Rest(a) /\ UNCHANGED <<journal, receipt>>
  BY <1>1, <1>3, RestShows, RowsStay, AgentFacts DEF Rest, AgentTypes
<1>4. CASE /\ j # NoJob /\ ~Ended(j) /\ (prepared => j = JobOf(a))
           /\ journal' = [journal EXCEPT ![a] = Record(j, "prepared")]
           /\ Goto(a, "offered") /\ UNCHANGED <<linkVars, receipt>>
  <2>1. /\ j \in Jobs
        /\ Executor[j] = a
        /\ row[j].status # "absent"
        /\ receipt[j] = NoDoc
        /\ AgentTypes /\ ReplyOK(a) /\ stage[a] = "polling"
    BY <1>4, AgentFacts DEF ReceiveOffer, ReplyOK, AgentTypes, Replies, Ended
  <2>2. /\ journal' = [journal EXCEPT ![a] = [job |-> j, phase |-> "prepared"]]
        /\ stage' = [stage EXCEPT ![a] = "offered"]
    BY <1>4 DEF Record, Goto
  <2>3. /\ journal'[a] = [job |-> j, phase |-> "prepared"]
        /\ stage'[a] = "offered"
        /\ \A b \in Agents \ {a} : journal'[b] = journal[b] /\
             stage'[b] = stage[b]
    BY <2>1, <2>2 DEF AgentTypes
  <2>4. AgentTypes'
    <3>1. journal' \in [Agents -> [job : Jobs \cup {NoJob}, phase : Phases]]
      BY <2>1, <2>2 DEF AgentTypes, Phases
    <3>2. stage' \in [Agents -> Places]
      BY <2>1, <2>2 DEF AgentTypes, Places
    <3> QED  BY <1>1, <1>4, <2>1, <3>1, <3>2 DEF AgentTypes, linkVars
  <2>5. Alone(a)
    BY <1>1, <1>4, <2>3 DEF Alone, linkVars
  <2>6. JournalOK(a)' /\ ReplyOK(a)' /\ StageOK(a)'
    BY <1>1, <1>4, <2>1, <2>3, JobFacts
       DEF JournalOK, ReplyOK, StageOK, JobOf, Ended, Working, portalRows,
           linkVars
  <2>7. ASSUME NEW i \in Jobs, Executor[i] = a PROVE ReceiptOK(i)'
    <3>1. ReceiptOK(i) /\ (receipt[i] = NoDoc => effect[i] = "none")
      BY <2>1, <2>7, Unwritten DEF IInv
    <3> QED  BY <1>1, <1>4, <3>1 DEF ReceiptOK, portalRows
  <2> QED  BY <1>1, <1>4, <2>4, <2>5, <2>6, <2>7 DEF Acted, linkVars
<1> QED
  BY <1>2, <1>3, <1>4 DEF ReceiveOffer

LEMMA OfferedFacts ==
  ASSUME IInv, NEW a \in Agents, stage[a] = "offered"
  PROVE  /\ JobOf(a) \in Jobs /\ JobOf(a) # NoJob /\ ~Ended(JobOf(a))
         /\ journal[a].phase = "prepared" /\ effect[JobOf(a)] = "none"
<1>1. ~Ended(JobOf(a)) /\ journal[a].phase = "prepared"
  BY AgentFacts DEF StageOK
<1>2. JobOf(a) \in Jobs /\ Executor[JobOf(a)] = a /\ JobOf(a) # NoJob
  BY <1>1, AgentFacts DEF JournalOK
<1> QED  BY <1>1, <1>2, Unwritten DEF Ended

LEMMA OfferedActs ==
  ASSUME IInv, NEW a \in Agents,
         (\E closing \in BOOLEAN : FailPreflight(a, closing)) \/ Inspect(a) \/
           ReportAwaiting(a)
  PROVE  Acted(a)
<1>1. /\ JobOf(a) \in Jobs /\ JobOf(a) # NoJob /\ ~Ended(JobOf(a))
  BY OfferedFacts DEF FailPreflight, Inspect, ReportAwaiting
<1>2. ASSUME NEW closing \in BOOLEAN, FailPreflight(a, closing)
      PROVE  Acted(a)
  BY <1>1, <1>2, ConcludeShows, FailedTyped DEF FailPreflight
<1>3. CASE Inspect(a)
  <2>1. Inspected(Snapshot) \in Receipts /\
          Inspected(Snapshot).status = "inspected"
    <3>1. Snapshot \in Snapshots
      BY AgentFacts DEF AgentTypes, Snapshot, Snapshots
    <3> QED  BY <3>1 DEF Inspected, Doc, Receipts
  <2> QED  BY <1>1, <1>3, <2>1, ConcludeShows DEF Inspect
<1>4. CASE ReportAwaiting(a)
  BY <1>1, <1>4, SendShows DEF ReportAwaiting, Report
<1> QED  BY <1>2, <1>3, <1>4

\* The journal of a goes on to another phase.
LEMMA SaveShows ==
  ASSUME IInv, NEW a \in Agents, JobOf(a) # NoJob, JobOf(a) \notin Inspections,
         NEW phase \in {"granted", "creating", "created"}, Save(a, phase),
         NEW label \in Places, Goto(a, label),
         UNCHANGED <<portalRows, receipt, pending, released, directory, effect,
                     late>>,
         request' \in [Agents -> Requests], reply' \in [Agents -> Replies],
         \A b \in Agents \ {a} : request'[b] = request[b] /\
         reply'[b] = reply[b],
         request'[a] = request[a] \/ MessageOK(a, request[a])',
         reply'[a] \in {reply[a], NoReply},
         label # "idle" => StageOK(a)'
  PROVE  Acted(a)
<1>1. /\ AgentTypes /\ JournalOK(a) /\ ReplyOK(a) /\ NoReply.type = "none"
  BY AgentFacts
<1>2. /\ journal'[a] = [journal[a] EXCEPT !.phase = phase] /\ stage'[a] = label
      /\ \A b \in Agents \ {a} : journal'[b] = journal[b] /\
           stage'[b] = stage[b]
      /\ journal' \in [Agents -> [job : Jobs \cup {NoJob}, phase : Phases]]
      /\ stage' \in [Agents -> Places]
  BY <1>1 DEF AgentTypes, Save, Goto, Phases
<1>3. journal[a] \in [job : Jobs \cup {NoJob}, phase : Phases]
  BY <1>1 DEF AgentTypes
<1>4. journal'[a].phase = phase /\ journal'[a].job = journal[a].job
  BY <1>2, <1>3
<1>5. AgentTypes'
  BY <1>1, <1>2 DEF AgentTypes
<1>6. Alone(a)
  BY <1>2 DEF Alone
<1>7. JournalOK(a)' /\ ReplyOK(a)'
  BY <1>1, <1>4 DEF JournalOK, ReplyOK, JobOf, portalRows
<1>8. ASSUME NEW i \in Jobs, Executor[i] = a PROVE ReceiptOK(i)'
  <2>1. ReceiptOK(i)
    BY DEF IInv
  <2> QED  BY <1>4, <1>8, <2>1 DEF ReceiptOK, JobOf, portalRows
<1>9. StageOK(a)'
  BY <1>2 DEF StageOK, Working
<1> QED
  BY <1>5, <1>6, <1>7, <1>8, <1>9 DEF Acted

LEMMA SaveGrantedActs ==
  ASSUME IInv, NEW a \in Agents, SaveGranted(a)
  PROVE  Acted(a)
<1> DEFINE j == JobOf(a) m == Message("claim", j, NoDoc, 0, NoDoc)
<1>1. /\ j \in Jobs
      /\ j # NoJob
      /\ ~Ended(j)
      /\ effect[j] = "none"
      /\ j \notin Inspections
      /\ Executor[j] = a /\ row[j].status # "absent" /\ AgentTypes
      /\ NoReply \in Replies /\ NoReply.mode = "none"
  BY OfferedFacts, AgentFacts DEF SaveGranted
<1>2. m \in Requests /\ m.mode = "claim" /\ m.job = j
  <2>1. NoDoc \in Docs /\ j \in Jobs \cup {NoJob}
    BY <1>1 DEF Docs
  <2>2. Message("claim", j, NoDoc, 0, NoDoc) \in Requests
    BY <2>1, RequestsTyped
  <2> QED  BY <2>2 DEF Message
<1>3. /\ Save(a, "granted") /\ Goto(a, "claiming") /\ late' = late
      /\ request' = [request EXCEPT ![a] = m]
      /\ reply' = [reply EXCEPT ![a] = NoReply]
      /\ UNCHANGED <<portalRows, receipt, pending, released, directory, effect>>
  BY DEF SaveGranted, Send
<1> HIDE DEF m
<1>4. /\ request' \in [Agents -> Requests] /\ reply' \in [Agents -> Replies]
      /\ request'[a] = m /\ reply'[a] = NoReply
      /\ \A b \in Agents \ {a} : request'[b] = request[b] /\
           reply'[b] = reply[b]
  BY <1>1, <1>2, <1>3 DEF AgentTypes
<1>5. journal'[a].phase = "granted" /\ JobOf(a)' = j /\ stage'[a] = "claiming"
  BY <1>1, <1>3 DEF AgentTypes, Save, Goto, JobOf
<1>6. StageOK(a)'
  BY <1>1, <1>2, <1>3, <1>4, <1>5 DEF StageOK, Ended, EffectAt, Working
<1>7. MessageOK(a, request[a])'
  BY <1>1, <1>2, <1>3, <1>4 DEF MessageOK, Reconciling, Observing, portalRows
<1>8. "claiming" \in Places
  BY DEF Places
<1> QED
  BY <1>1, <1>3, <1>4, <1>6, <1>7, <1>8, SaveShows

LEMMA ReceiveClaimActs ==
  ASSUME IInv, NEW a \in Agents, ReceiveClaim(a)
  PROVE  Acted(a)
<1> DEFINE j == JobOf(a)
<1>1. /\ j \in Jobs /\ j # NoJob /\ ~Ended(j) /\ j \notin Inspections
      /\ effect[j] = "none" /\ journal[a].phase \notin {"none", "prepared"}
      /\ reply[a].mode = "execute" => row[j].claimed
      /\ AgentTypes
  <2>1. /\ ~Ended(j)
        /\ journal[a].phase \notin {"none", "prepared"}
        /\ effect[j] = "none"
        /\ reply[a].mode = "execute" => row[j].claimed
    BY AgentFacts DEF ReceiveClaim, StageOK, EffectAt
  <2>2. j # NoJob /\ j \notin Inspections
    BY <2>1, AgentFacts DEF JournalOK
  <2> QED  BY <2>1, <2>2, AgentFacts
<1>2. UNCHANGED <<portalRows, journal, pending, released, directory, effect>>
  BY DEF ReceiveClaim
<1>3. CASE Rest(a) /\ UNCHANGED receipt
  BY <1>1, <1>2, <1>3, RestShows, RowsStay DEF Rest, AgentTypes
<1>4. CASE /\ reply[a].mode = "execute"
           /\ Goto(a, "granted") /\ HangUp(a) /\ UNCHANGED <<late, receipt>>
  <2>1. stage'[a] = "granted" /\ JobOf(a)' = j /\ row' = row
    BY <1>1, <1>2, <1>4 DEF Goto, AgentTypes, JobOf, portalRows
  <2>2. StageOK(a)'
    BY <1>1, <1>2, <1>4, <2>1 DEF StageOK, Ended, EffectAt, Working
  <2>3. MessageOK(a, NoRequest)'
    BY DEF MessageOK, NoRequest, Message, Reconciling, Observing
  <2>4. NoDoc \in Docs /\ NoJob \in Jobs \cup {NoJob} /\ "granted" \in Places
    BY DEF Docs, Places, Working
  <2>5. NoRequest \in Requests
    BY <2>4, RequestsTyped
  <2>6. pending' \subseteq Changes \X (0 .. Rounds) /\
          released' \subseteq Changes
    BY <1>1, <1>2 DEF AgentTypes
  <2> QED
    BY <1>2, <1>4, <2>2, <2>3, <2>4, <2>5, <2>6, AgentFacts, TalkShows, RowsStay
       DEF Goto, HangUp
<1>5. CASE Conclude(a, IF reply[a].mode = "cancelled" THEN Failed(TRUE)
                    ELSE Uncertain(FALSE))
  <2>1. CASE reply[a].mode = "cancelled"
    BY <1>1, <1>2, <1>5, <2>1, ConcludeShows, FailedTyped
  <2>2. CASE reply[a].mode # "cancelled"
    BY <1>1, <1>2, <1>5, <2>2, ConcludeShows, FailedTyped
  <2> QED  BY <2>1, <2>2
<1> QED  BY <1>3, <1>4, <1>5 DEF ReceiveClaim

\* The end of a worker.
LEMMA WorkerEnds ==
  ASSUME IInv, NEW a \in Agents,
         PreflightFails(a) \/ IntentFails(a) \/ Verify(a) \/ WorkerLost(a)
  PROVE  Acted(a)
<1>1. stage[a] \in Working /\
        UNCHANGED <<portalRows, journal, pending, released, directory, effect>>
  BY DEF PreflightFails, IntentFails, Verify, WorkerLost, Working
<1>2. JobOf(a) # NoJob /\ ~Ended(JobOf(a)) /\ JobOf(a) \notin Inspections
      /\ effect[JobOf(a)] \in EffectAt(stage[a])
  BY <1>1, HasDomain, JobFacts DEF Ended
<1>3. ASSUME NEW doc \in Receipts, Conclude(a, doc), doc.status # "success"
      PROVE  Acted(a)
  BY <1>1, <1>2, <1>3, ConcludeShows
<1>4. ASSUME stage[a] = "changed", Conclude(a, Succeeded)
      PROVE  Acted(a)
  <2>1. Succeeded \in Receipts /\ Succeeded.status = "success"
    BY DEF Succeeded, Doc, Receipts
  <2>2. effect'[JobOf(a)] = "full"
    BY <1>1, <1>2, <1>4 DEF EffectAt
  <2> QED  BY <1>1, <1>2, <1>4, <2>1, <2>2, ConcludeShows
<1>5. (journal[a].phase = "created") \in BOOLEAN
  OBVIOUS
<1>6. CASE PreflightFails(a)
  BY <1>3, <1>6, FailedTyped DEF PreflightFails
<1>7. CASE IntentFails(a)
  BY <1>3, <1>7, FailedTyped DEF IntentFails
<1>8. CASE Verify(a)
  BY <1>3, <1>4, <1>8, FailedTyped DEF Verify
<1>9. CASE WorkerLost(a)
  BY <1>3, <1>5, <1>9, FailedTyped DEF WorkerLost
<1> QED  BY <1>6, <1>7, <1>8, <1>9

LEMMA WorkerSaves ==
  ASSUME IInv, NEW a \in Agents, SaveIntent(a) \/ Name(a) \/ SaveName(a)
  PROVE  Acted(a)
<1>1. PICK phase \in {"creating", "created"}, label \in {"creating", "named"} :
        /\ Save(a, phase) /\ Goto(a, label)
        /\ EffectAt(stage[a]) \subseteq EffectAt(label)
  BY DEF SaveIntent, Name, SaveName, EffectAt
<1>2. stage[a] \in Working
      /\ UNCHANGED <<portalVars, receipt, pending, released, directory, effect>>
  BY DEF SaveIntent, Name, SaveName, Working
<1>3. /\ JobOf(a) \in Jobs \ Inspections /\ receipt[JobOf(a)] = NoDoc
      /\ row[JobOf(a)].claimed /\ effect[JobOf(a)] \in EffectAt(stage[a])
      /\ JobOf(a) # NoJob /\ AgentTypes
  BY <1>2, HasDomain, JobFacts, AgentFacts
<1>4. journal'[a].phase = phase /\ JobOf(a)' = JobOf(a) /\ stage'[a] = label
  BY <1>1, <1>3 DEF AgentTypes, Save, Goto, JobOf
<1>5. StageOK(a)'
  <2>1. effect'[JobOf(a)] \in EffectAt(label)
    BY <1>1, <1>2, <1>3
  <2> QED  BY <1>2, <1>3, <1>4, <2>1 DEF StageOK, Ended, Working, portalVars
<1>6. label \in Places
  BY DEF Places, Working
<1> QED
  BY <1>1, <1>2, <1>3, <1>5, <1>6, SaveShows
     DEF portalVars, portalRows, linkVars, AgentTypes

\* A write, by a worker whose job has the domain.
LEMMA WriteShows ==
  ASSUME IInv, NEW a \in Agents, stage[a] \in Working,
         NEW extent \in {"partial", "full"}, Write(JobOf(a), extent),
         effect[JobOf(a)] \in {"none", "partial"},
         NEW label \in {"made", "broken", "changed"}, Goto(a, label),
         extent \in EffectAt(label),
         UNCHANGED <<portalVars, diskVars>>
  PROVE  Acted(a)
<1> DEFINE j == JobOf(a)
<1>1. /\ j \in Jobs \ Inspections /\ Executor[j] = a /\ receipt[j] = NoDoc
      /\ row[j].claimed /\ row[j].status \in Active
      /\ journal[a].phase \notin {"none", "prepared"} /\ AgentTypes
      /\ JournalOK(a) /\ ReplyOK(a) /\ ReceiptOK(j)
  BY HasDomain, AgentFacts, JobFacts
<1>2. effect' = [effect EXCEPT ![j] = extent]
  BY DEF Write
<1>3. Writes(j)
  BY <1>1, <1>2 DEF Writes
<1>4. directory' \in Snapshots
  <2>1. directory' = directory \/
          directory' = [directory EXCEPT !.writes = directory.writes + 1]
    BY DEF Write
  <2>2. directory \in Snapshots
    BY <1>1 DEF AgentTypes
  <2>3. CASE directory' = directory
    BY <2>2, <2>3
  <2>4. CASE directory' = [directory EXCEPT !.writes = directory.writes + 1]
    <3>1. directory.writes + 1 \in Nat
      BY <2>2 DEF Snapshots
    <3> QED  BY <2>2, <2>4, <3>1 DEF Snapshots
  <2> QED  BY <2>1, <2>3, <2>4
<1>5. /\ stage' = [stage EXCEPT ![a] = label]
      /\ stage'[a] = label
      /\ effect'[j] = extent
      /\ \A b \in Agents \ {a} : stage'[b] = stage[b]
      /\ \A i \in Jobs \ {j} : effect'[i] = effect[i]
      /\ UNCHANGED <<row, request, reply, late, journal, receipt, pending,
                     released>>
      /\ JobOf(a)' = j
  BY <1>1, <1>2 DEF AgentTypes, Goto, portalVars, linkVars, diskVars, JobOf
<1>6. AgentTypes'
  <2>1. stage' \in [Agents -> Places]
    BY <1>1, <1>5 DEF AgentTypes, Places, Working
  <2>2. effect' \in [Jobs -> {"none", "none needed", "partial", "full"}]
    BY <1>1, <1>2 DEF AgentTypes
  <2> QED  BY <1>1, <1>4, <1>5, <2>1, <2>2 DEF AgentTypes
<1> HIDE DEF j
<1>7. Alone(a)
  BY <1>1, <1>5 DEF Alone
<1>8. JournalOK(a)' /\ ReplyOK(a)'
  BY <1>1, <1>5 DEF JournalOK, ReplyOK, JobOf
<1>9. StageOK(a)'
  BY <1>1, <1>5 DEF StageOK, Ended, Working
<1>10. ASSUME NEW i \in Jobs, Executor[i] = a PROVE ReceiptOK(i)'
  <2>1. ReceiptOK(i) /\ JobOf(a) = j /\ journal[a].job = j
    BY DEF IInv, j, JobOf
  <2> QED  BY <1>1, <1>5, <1>10, <2>1 DEF ReceiptOK, JobOf
<1> QED
  BY <1>3, <1>5, <1>6, <1>7, <1>8, <1>9, <1>10 DEF Acted, j

LEMMA WorkerWrites ==
  ASSUME IInv, NEW a \in Agents,
         PrepareOnly(a) \/ Create(a) \/
           \E extent \in {"partial", "full"} : Mutate(a, extent)
  PROVE  Acted(a)
<1>1. stage[a] \in Working
  BY DEF PrepareOnly, Create, Mutate, Working
<1>2. /\ JobOf(a) \in Jobs \ Inspections
      /\ receipt[JobOf(a)] = NoDoc
      /\ JobOf(a) # NoJob
      /\ row[JobOf(a)].claimed /\ row[JobOf(a)].status \in Active
      /\ effect[JobOf(a)] \in EffectAt(stage[a]) /\ AgentTypes
  BY <1>1, HasDomain, JobFacts, AgentFacts
<1>3. CASE PrepareOnly(a)
  <2>1. effect' = [effect EXCEPT ![JobOf(a)] = "none needed"] /\
          effect[JobOf(a)] = "none"
    BY <1>2, <1>3 DEF PrepareOnly, EffectAt
  <2>2. Writes(JobOf(a)) /\ effect'[JobOf(a)] = "none needed"
    BY <1>2, <2>1 DEF Writes, AgentTypes
  <2>3. Succeeded \in Receipts /\ Succeeded.status = "success"
    BY DEF Succeeded, Doc, Receipts
  <2> QED
    BY <1>2, <1>3, <2>2, <2>3, ConcludeShows DEF PrepareOnly, Ended
<1>4. CASE Create(a)
  <2>1. effect[JobOf(a)] = "none" /\ "partial" \in EffectAt("made")
    BY <1>2, <1>4 DEF Create, EffectAt
  <2> QED  BY <1>1, <1>4, <2>1, WriteShows DEF Create
<1>5. ASSUME NEW extent \in {"partial", "full"}, Mutate(a, extent)
      PROVE  Acted(a)
  <2>1. effect[JobOf(a)] \in {"none", "partial"} /\ Write(JobOf(a), extent)
    BY <1>2, <1>5 DEF Mutate, EffectAt
  <2> QED
    BY <1>1, <1>5, <2>1, WriteShows DEF Mutate, EffectAt
<1> QED  BY <1>3, <1>4, <1>5

LEMMA ObserveActs ==
  ASSUME IInv, NEW a \in Agents, NEW sound \in BOOLEAN, Observe(a, sound)
  PROVE  Acted(a)
<1> DEFINE c == JobOf(a)
           seen == Observation(sound)
           round == reply[a].round
<1>1. /\ c \in Changes
      /\ c # NoJob
      /\ Ended(c)
      /\ Executor[c] = a
      /\ row[c].status # "absent"
      /\ AgentTypes /\ NoReply \in Replies
  BY AgentFacts DEF Observe, StageOK
<1>2. round \in 0 .. Rounds
  BY <1>1 DEF AgentTypes, Replies
<1>3. seen \in Observations /\ seen.at.writes = directory.writes
  <2>1. Snapshot \in Snapshots /\ Snapshot.writes = directory.writes
    BY <1>1 DEF AgentTypes, Snapshot, Snapshots
  <2> QED  BY <2>1 DEF Observation, Observations
<1>4. seen \in Views /\ seen # NoDoc
  BY <1>3, JobFacts DEF Views
<1>5. PICK mode \in Observing, label \in {"observing", "acknowledging"} :
        /\ Send(a, mode, c, NoDoc, round, seen) /\ Goto(a, label)
        /\ IF mode = "reconciliation_ack"
             THEN pending' = pending \cup {<<c, round>>}
           ELSE UNCHANGED pending
  BY DEF Observe, Observing
<1>6. UNCHANGED <<portalRows, journal, receipt, released, directory, effect>>
  BY DEF Observe
<1> DEFINE m == Message(mode, c, NoDoc, round, seen)
<1>7. /\ m.mode = mode /\ m.job = c /\ m.seen = seen /\ m.round = round
      /\ request' = [request EXCEPT ![a] = m]
      /\ reply' = [reply EXCEPT ![a] = NoReply]
      /\ late' = late /\ stage' = [stage EXCEPT ![a] = label]
  BY <1>5 DEF Message, Send, Goto
<1>8. m \in Requests
  <2>1. mode \in {"reconciliation_result", "reconciliation_ack"} /\
          NoDoc \in Docs /\ c \in Jobs
    BY <1>1, JobFacts DEF Observing, Docs
  <2> HIDE DEF c, seen, round
  <2> QED  BY <1>2, <1>4, <2>1 DEF Message, Requests
<1> HIDE DEF c, seen, round, m
<1>9. pending \subseteq pending' /\ pending' \subseteq Changes \X (0 .. Rounds)
      /\ (mode = "reconciliation_ack" => <<c, round>> \in pending')
  <2>1. pending \subseteq Changes \X (0 .. Rounds)
    BY <1>1 DEF AgentTypes
  <2>2. <<c, round>> \in Changes \X (0 .. Rounds)
    BY <1>1, <1>2 DEF c
  <2>3. CASE mode = "reconciliation_ack"
    BY <1>5, <2>1, <2>2, <2>3
  <2>4. CASE mode # "reconciliation_ack"
    BY <1>5, <2>1, <2>4
  <2> QED  BY <2>3, <2>4
<1>10. /\ request'[a] = m
       /\ stage'[a] = label
       /\ reply'[a] = NoReply
       /\ JobOf(a)' = c
       /\ row' = row
       /\ \A b \in Agents \ {a} :
            request'[b] = request[b] /\ stage'[b] = stage[b] /\
              reply'[b] = reply[b]
  BY <1>1, <1>6, <1>7 DEF AgentTypes, JobOf, portalRows, c
<1>11. StageOK(a)'
  BY <1>1, <1>6, <1>10 DEF StageOK, Ended, Working
<1>12. MessageOK(a, request[a])'
  BY <1>1, <1>3, <1>4, <1>6, <1>7, <1>9, <1>10
     DEF MessageOK, Reconciling, Observing, Ended, HoldsAllWrites
<1>13. AgentTypes'
  <2>1. stage' \in [Agents -> Places] /\ request' \in [Agents -> Requests]
        /\ reply' \in [Agents -> Replies]
    BY <1>1, <1>7, <1>8 DEF AgentTypes, Places
  <2> QED  BY <1>1, <1>6, <1>9, <2>1 DEF AgentTypes
<1>14. Alone(a)
  BY <1>6, <1>7, <1>9, <1>10 DEF Alone
<1>15. JournalOK(a)' /\ ReplyOK(a)'
  BY <1>6, <1>10, AgentFacts DEF JournalOK, ReplyOK, JobOf
<1>16. ASSUME NEW i \in Jobs PROVE ReceiptOK(i)'
  BY <1>6 DEF IInv, ReceiptOK, JobOf, portalRows
<1> QED  BY <1>6, <1>11, <1>12, <1>13, <1>14, <1>15, <1>16 DEF Acted

LEMMA ReconcilingActs ==
  ASSUME IInv, NEW a \in Agents,
         NothingAsked(a) \/ ReceiveRelease(a) \/ GiveUp(a) \/ Stop(a)
  PROVE  Acted(a)
<1>1. AgentTypes
  BY AgentFacts
<1>2. CASE NothingAsked(a)
  <2>1. Ended(JobOf(a)) /\ JobOf(a) # NoJob
    BY <1>2, AgentFacts DEF NothingAsked, StageOK
  <2> QED  BY <1>2, <2>1, SendShows DEF NothingAsked, Report
<1>3. CASE ReceiveRelease(a)
  <2>1. Ended(JobOf(a)) /\ JobOf(a) \in Changes /\ Executor[JobOf(a)] = a
    BY <1>3, AgentFacts DEF ReceiveRelease, StageOK
  <2>2. released' = released \cup {JobOf(a)} /\ released \subseteq Changes
    BY <1>1, <1>3 DEF ReceiveRelease, AgentTypes
  <2>3. UNCHANGED <<portalRows, journal, receipt, pending, directory,
                    effect>> /\ Rest(a)
    BY <1>3 DEF ReceiveRelease
  <2> QED  BY <2>1, <2>2, <2>3, RestShows, RowsStay DEF Rest
<1>4. CASE GiveUp(a)
  BY <1>1, <1>4, RestShows, RowsStay DEF GiveUp, Rest, diskVars, AgentTypes
<1>5. CASE Stop(a)
  <2>1. UNCHANGED portalData
    BY <1>5 DEF Stop, portalData
  <2> QED  BY <1>1, <1>5, <2>1, RestShows DEF Stop, diskVars, AgentTypes
<1> QED  BY <1>2, <1>3, <1>4, <1>5

LEMMA ActionsAct ==
  ASSUME IInv, NEW a \in Agents, Agent(a)
  PROVE  Acted(a)
BY RecoverActs, BeginCycleActs, ReportedActs, ReceiveOfferActs, OfferedActs,
   SaveGrantedActs, ReceiveClaimActs, WorkerEnds, WorkerSaves, WorkerWrites,
   ObserveActs, ReconcilingActs
   DEF Agent

\* No step of an Agent but a stop changes the portal's part of the state.
LEMMA AgentLeavesRows ==
  ASSUME NEW a \in Agents, Agent(a)
  PROVE  UNCHANGED portalRows \/ Stop(a)
<1>1. CASE Recover(a) \/ BeginCycle(a) \/ Reported(a)
  BY <1>1 DEF Recover, BeginCycle, Reported, portalVars, portalRows
<1>2. CASE ReceiveOffer(a) \/
             (\E closing \in BOOLEAN : FailPreflight(a, closing))
  BY <1>2 DEF ReceiveOffer, FailPreflight, portalVars, portalRows
<1>3. CASE Inspect(a) \/ ReportAwaiting(a) \/ SaveGranted(a) \/ ReceiveClaim(a)
  BY <1>3
     DEF Inspect, ReportAwaiting, SaveGranted, ReceiveClaim, portalVars,
         portalRows
<1>4. CASE PreflightFails(a) \/ IntentFails(a) \/ Verify(a) \/ WorkerLost(a)
  BY <1>4
     DEF PreflightFails, IntentFails, Verify, WorkerLost, portalVars,
         portalRows
<1>5. CASE SaveIntent(a) \/ PrepareOnly(a) \/ Name(a) \/ SaveName(a)
  BY <1>5 DEF SaveIntent, PrepareOnly, Name, SaveName, portalVars, portalRows
<1>6. CASE Create(a) \/ \E extent \in {"partial", "full"} : Mutate(a, extent)
  BY <1>6 DEF Create, Mutate, portalVars, portalRows
<1>7. CASE (\E sound \in BOOLEAN : Observe(a, sound)) \/ NothingAsked(a)
  BY <1>7 DEF Observe, NothingAsked, portalVars, portalRows
<1>8. CASE ReceiveRelease(a) \/ GiveUp(a)
  BY <1>8 DEF ReceiveRelease, GiveUp, portalVars, portalRows
<1> QED  BY <1>1, <1>2, <1>3, <1>4, <1>5, <1>6, <1>7, <1>8 DEF Agent

LEMMA AgentKeeps ==
  ASSUME IInv, NEW a \in Agents, Agent(a)
  PROVE  IInv'
<1>1. UNCHANGED portalRows \/ Stop(a)
  BY AgentLeavesRows
<1>2. CASE UNCHANGED portalRows
  BY <1>2, ActionsAct, AgentStep, RowsStay DEF portalRows, IInv, TypeOK
<1>3. CASE Stop(a)
  BY <1>3, ActionsAct, AgentStep, DisturbedTyped
     DEF Stop, portalData, IInv, TypeOK
<1> QED  BY <1>1, <1>2, <1>3

-----------------------------------------------------------------------------
(* The invariant. *)

\* Nothing moves but what others write to the directory.
LEMMA RestKeeps ==
  ASSUME IInv, directory' \in Snapshots, directory'.writes = directory.writes,
         unrest' \in 0 .. MaxUnrest,
         UNCHANGED <<row, policy, recon, authorityVars, overdue, linkVars,
                     diskVars, stage, effect>>
  PROVE  IInv'
<1>1. UNCHANGED <<row, policy, recon, rule, permitted, tenantActive, overdue,
                  request, reply,
                  late, journal, receipt, pending, released, stage, effect>>
  BY DEF authorityVars, linkVars, diskVars
<1>2. TypeOK'
  BY <1>1 DEF IInv, TypeOK
<1>3. (rule.revision > 0)' /\ RowsOK' /\ OneActive'
  BY <1>1 DEF IInv, RowsOK, RowOK, OneActive
<1>4. \A c \in Changes : RecordOK(c)'
  BY <1>1 DEF IInv, RecordOK, Fits, HoldsAllWrites
<1>5. \A a \in Agents : JournalOK(a)' /\ StageOK(a)' /\ ReplyOK(a)'
  BY <1>1 DEF IInv, JournalOK, StageOK, ReplyOK, JobOf, Ended
<1>6. \A j \in Jobs : ReceiptOK(j)'
  BY <1>1 DEF IInv, ReceiptOK, JobOf
<1>7. ASSUME NEW a, NEW m, MessageOK(a, m)
       PROVE  MessageOK(a, m)'
  BY <1>1, <1>7 DEF MessageOK, HoldsAllWrites, Ended
<1>8. request' = request /\ late' = late
  BY <1>1
<1>9. \A a \in Agents : MessageOK(a, request[a])'
  BY <1>7, <1>8 DEF IInv
<1>10. \A d \in late' : MessageOK(d[1], d[2])'
  BY <1>7, <1>8 DEF IInv
<1> QED
  BY <1>2, <1>3, <1>4, <1>5, <1>6, <1>9, <1>10 DEF IInv

LEMMA DriftKeeps ==
  ASSUME IInv, Drift
  PROVE  IInv'
<1>1. directory \in Snapshots /\
        directory' = [directory EXCEPT !.drift = directory.drift + 1]
  BY DEF IInv, TypeOK, Drift
<1>2. directory.drift + 1 \in Nat
  BY <1>1 DEF Snapshots
<1>3. directory' \in Snapshots /\ directory'.writes = directory.writes
  BY <1>1, <1>2 DEF Snapshots
<1>4. unrest' \in 0 .. MaxUnrest
  BY DisturbedTyped DEF Drift
<1> QED  BY <1>3, <1>4, RestKeeps DEF Drift

LEMMA IdleKeeps ==
  ASSUME IInv, UNCHANGED vars
  PROVE  IInv'
BY RestKeeps DEF vars, portalVars, agentVars, IInv, TypeOK

\* How the system moves.
LEMMA Steps ==
  ASSUME [Next]_vars
  PROVE  PortalNext \/ Drift \/ (\E a \in Agents : Agent(a)) \/ UNCHANGED vars
BY DEF Next, PortalNext

LEMMA Inductive ==
  ASSUME IInv, [Next]_vars
  PROVE  IInv'
BY Steps, PortalKeeps, DriftKeeps, AgentKeeps, IdleKeeps

LEMMA InitHolds ==
  ASSUME Init
  PROVE  IInv
<1>1. Rounds \in Nat /\ MaxUnrest \in Nat /\ Exists \in BOOLEAN
  BY GpoAssumption DEF GpoAssumption
<1>2. 0 \in 0 .. Rounds /\ 0 \in 0 .. MaxUnrest
  BY <1>1
<1>3. NoDoc \in Docs /\ NoDoc \in Views
  BY DEF Docs, Views
<1>4. NoRow \in Rows /\ NoRow.status = "absent" /\ ~NoRow.claimed /\
        NoRow.rule = 0
  BY <1>3 DEF NoRow, Rows
<1>5. NoRecord \in Records /\ NoRecord.status = "none" /\ NoRecord.rule = 0 /\
        NoRecord.seen = NoDoc
  BY <1>2, <1>3 DEF NoRecord, Records
<1>6. NoRequest \in Requests /\ NoReply \in Replies /\ NoRequest.mode = "none"
      /\ NoReply.type = "none"
  BY <1>2, <1>3
     DEF NoRequest, Message, Requests, NoReply, Answer, Replies, Modes
<1>7. rule.revision = 1 /\ rule \in [revision : Nat, four : BOOLEAN]
  BY DEF Init
<1>8. TypeOK
  <2>1. policy \in Policies
    BY <1>1 DEF Init, Policies
  <2>2. directory \in Snapshots
    BY DEF Init, Snapshots
  <2>3. NoJournal \in [job : Jobs \cup {NoJob}, phase : Phases]
    BY DEF NoJournal, Phases
  <2>4. tenantActive \in BOOLEAN
    BY DEF Init
  <2> QED
    BY <1>2, <1>3, <1>4, <1>5, <1>6, <1>7, <2>1, <2>2, <2>3, <2>4
       DEF Init, TypeOK, Policies
<1>9. RowsOK /\ OneActive
  BY <1>4, <1>7 DEF Init, RowsOK, RowOK, OneActive, Active, PreExecution
<1>10. \A c \in Changes : RecordOK(c)
  BY <1>5, <1>7 DEF Init, RecordOK, Fits
<1>11. ASSUME NEW a \in Agents
       PROVE  JournalOK(a) /\ StageOK(a) /\ ReplyOK(a) /\
                MessageOK(a, request[a])
  BY <1>6
     DEF Init, JournalOK, StageOK, ReplyOK, JobOf, NoJournal, Working,
         MessageOK, Reconciling, Observing
<1>12. \A j \in Jobs : ReceiptOK(j)
  BY <1>4 DEF Init, ReceiptOK
<1>13. \A d \in late : MessageOK(d[1], d[2])
  BY DEF Init
<1> QED
  BY <1>7, <1>8, <1>9, <1>10, <1>11, <1>12, <1>13 DEF IInv

\* Whatever users, messages, Agents, faults and other administrators do, the
\* portal, the links, the journals and the directory agree.
THEOREM GpoJobsInvariant == Spec => []IInv
<1>1. IInv /\ [Next]_vars => IInv'
  BY Inductive
<1> QED  BY <1>1, InitHolds, PTL DEF Spec

\* Rows, records, messages, journals and receipts stay well formed in every
\* reachable state.
THEOREM GpoTyped == Spec => []TypeOK
<1>1. IInv => TypeOK
  BY DEF IInv
<1> QED  BY <1>1, GpoJobsInvariant, PTL

\* A job that the portal shows as failed or expired wrote nothing: what writes
\* was granted, and a grant is never withdrawn into a failure.
THEOREM FailedJobsWroteNothing == Spec => []FailuresTouchNothing
<1>1. ASSUME IInv
      PROVE  FailuresTouchNothing
  <2> SUFFICES ASSUME NEW j \in Jobs, row[j].status \in {"failed", "expired"}
               PROVE  effect[j] = "none"
    BY DEF FailuresTouchNothing
  <2>1. RowOK(row[j], j) /\ ReceiptOK(j)
    BY <1>1 DEF IInv, RowsOK
  <2> QED  BY <2>1 DEF RowOK, ReceiptOK
<1> QED  BY <1>1, GpoJobsInvariant, PTL

\* Rows move as Moves says, or not at all.
LEMMA RowsMove ==
  ASSUME IInv, [Next]_vars
  PROVE  Moves \/ row' = row
<1>1. CASE PortalNext
  BY <1>1, PortalShows DEF Shown
<1>2. CASE \E a \in Agents : Agent(a)
  BY <1>2, AgentLeavesRows DEF Stop, portalRows
<1>3. CASE Drift \/ UNCHANGED vars
  BY <1>3 DEF Drift, vars, portalVars
<1> QED  BY <1>1, <1>2, <1>3, Steps

\* Execution is granted only to what its users may still do, by another person
\* where the present rule asks for one.
THEOREM GrantsAreAuthorized == Spec => ClaimedUnderPresentRule
<1>1. ASSUME IInv, [Next]_vars, NEW j \in Jobs, row'[j].claimed, ~row[j].claimed
      PROVE  Permits(j)
  <2>1. Moves
    BY <1>1, RowsMove
  <2>2. CASE Granted(j)
    BY <2>2 DEF Granted
  <2>3. CASE ~Granted(j)
    BY <1>1, <2>1, <2>3
       DEF Moves, Still, Created, Granted, Completed, Reconciled, Others,
           Follows
  <2> QED  BY <2>2, <2>3
<1>2. IInv /\ [Next]_vars =>
        [\A j \in Jobs : row'[j].claimed /\ ~row[j].claimed =>
           /\ tenantActive /\ j \notin overdue
           /\ {row[j].requester, row[j].approver} \subseteq permitted
           /\ rule.four => row[j].approver # row[j].requester]_vars
  BY <1>1 DEF Permits
<1> QED
  BY <1>2, GpoJobsInvariant, PTL DEF Spec, ClaimedUnderPresentRule

\* The domain is released over an observation that still holds, was made again
\* after it was accepted, and was accepted by the person the rule asks for.
THEOREM ReleasesAreConfirmed == Spec => ReleasedAsObserved
<1>1. ASSUME IInv, [Next]_vars, NEW c \in Changes,
             row'[c].status = "reconciled", row[c].status # "reconciled"
      PROVE  Confirmed(c)
  <2>1. Moves /\ c \in Jobs
    BY <1>1, RowsMove, JobFacts
  <2>2. CASE Reconciled(c)
    BY <2>2 DEF Reconciled
  <2>3. CASE ~Reconciled(c)
    BY <1>1, <2>1, <2>3
       DEF Moves, Still, Created, Granted, Completed, Reconciled, Others,
           Follows, PreExecution
  <2> QED  BY <2>2, <2>3
<1>2. IInv /\ [Next]_vars =>
        [\A c \in Changes : row'[c].status = "reconciled" /\
         row[c].status # "reconciled" =>
           LET e == recon[c] IN
           /\ e.seen.sound /\ e.seen.at.writes = directory.writes
           /\ <<c, e.round>> \in pending
           /\ e.accepter \in permitted
           /\ rule.four => e.accepter \notin {row[c].requester, e.by}]_vars
  BY <1>1 DEF Confirmed
<1> QED
  BY <1>2, GpoJobsInvariant, PTL DEF Spec, ReleasedAsObserved

-----------------------------------------------------------------------------
(* The domain and its fence. *)

LEMMA HolderIs ==
  ASSUME OneActive, NEW j \in Jobs, row[j].status \in Active
  PROVE  Holder = j
BY DEF OneActive, Holder

LEMMA HolderIsThen ==
  ASSUME OneActive', NEW j \in Jobs, row'[j].status \in Active
  PROVE  Holder' = j
BY DEF OneActive, Holder

LEMMA NoHolder ==
  ASSUME \A j \in Jobs : row[j].status \notin Active
  PROVE  Holder = NoJob
BY DEF Holder

LEMMA NoHolderThen ==
  ASSUME \A j \in Jobs : row'[j].status \notin Active
  PROVE  Holder' = NoJob
BY DEF Holder

LEMMA FenceInit ==
  ASSUME Init
  PROVE  Fence!Init
<1>1. \A j \in Jobs : row[j] = NoRow
  BY DEF Init
<1>2. NoRow.status = "absent" /\ ~NoRow.claimed
  BY DEF NoRow
<1>3. Holder = NoJob
  BY <1>1, <1>2, NoHolder DEF Active, PreExecution
<1>4. GrantedJobs = {} /\ DoneJobs = {} /\ ReconciledJobs = {}
  BY <1>1, <1>2 DEF GrantedJobs, DoneJobs, ReconciledJobs
<1> QED  BY <1>3, <1>4 DEF Fence!Init, Init

\* Before one job's row moves alone, the domain is free or a job has it that
\* was not granted.
LEMMA FenceMoves ==
  ASSUME IInv, IInv', Moves, effect' = effect
  PROVE  [Fence!Next]_(Fence!vars)
<1> USE JobFacts
<1>1. OneActive /\ OneActive' /\ NoJob \notin GrantedJobs
  BY DEF IInv, GrantedJobs
<1>2. ASSUME NEW j \in Jobs, Follows(row[j], row'[j])
      PROVE  /\ row'[j].claimed = row[j].claimed
             /\ row'[j].status = "done" <=> row[j].status = "done"
             /\ row'[j].status = "reconciled" <=> row[j].status = "reconciled"
             /\ row'[j].status \in Active => row[j].status \in Active
             /\ row[j].status \in Active /\ row'[j].status \notin Active =>
                  ~row[j].claimed
  BY <1>2 DEF Follows, Active, PreExecution
<1>3. CASE Still
  <2>1. GrantedJobs' = GrantedJobs /\ DoneJobs' = DoneJobs /\
          ReconciledJobs' = ReconciledJobs
    BY <1>2, <1>3 DEF Still, GrantedJobs, DoneJobs, ReconciledJobs
  <2>2. CASE \E j \in Jobs : row'[j].status \in Active
    <3>1. Holder' = Holder
      BY <1>1, <1>2, <1>3, <2>2, HolderIs, HolderIsThen DEF Still
    <3> QED  BY <2>1, <3>1 DEF Fence!vars
  <2>3. CASE \A j \in Jobs : row'[j].status \notin Active
    <3>1. Holder' = NoJob
      BY <2>3, NoHolderThen
    <3>2. Holder \notin GrantedJobs
      <4>1. CASE \E j \in Jobs : row[j].status \in Active
        <5>1. PICK j \in Jobs : row[j].status \in Active
          BY <4>1
        <5>2. Holder = j /\ ~row[j].claimed
          BY <1>1, <1>2, <1>3, <2>3, <5>1, HolderIs DEF Still
        <5> QED  BY <5>2 DEF GrantedJobs
      <4>2. CASE \A j \in Jobs : row[j].status \notin Active
        BY <1>1, <4>2, NoHolder
      <4> QED  BY <4>1, <4>2
    <3> QED  BY <2>1, <3>1, <3>2 DEF Fence!Next, Fence!Drop
  <2> QED  BY <2>2, <2>3
<1>4. ASSUME NEW j \in Jobs, Created(j)
      PROVE  Fence!Next
  <2>1. /\ row[j].status = "absent"
        /\ row'[j].status \in PreExecution
        /\ ~row'[j].claimed
        /\ RowOK(row[j], j)
        /\ \A i \in Jobs \ {j} : Follows(row[i], row'[i])
        /\ \A i \in Jobs \ {j} : row'[i].status \notin Active
    BY <1>4 DEF Created, Others, IInv, RowsOK
  <2>2. ~row[j].claimed
    BY <2>1 DEF RowOK
  <2>3. GrantedJobs' = GrantedJobs /\ DoneJobs' = DoneJobs /\
          ReconciledJobs' = ReconciledJobs
    BY <1>2, <2>1, <2>2 DEF GrantedJobs, DoneJobs, ReconciledJobs, PreExecution
  <2>4. Holder' = j
    BY <1>1, <2>1, HolderIsThen DEF Active
  <2>5. Holder \notin GrantedJobs
    <3>1. CASE \E i \in Jobs : row[i].status \in Active
      <4>1. PICK i \in Jobs : row[i].status \in Active
        BY <3>1
      <4>2. i # j
        BY <2>1, <4>1 DEF Active, PreExecution
      <4>3. Holder = i /\ ~row[i].claimed
        BY <1>1, <1>2, <2>1, <4>1, <4>2, HolderIs
      <4> QED  BY <4>3 DEF GrantedJobs
    <3>2. CASE \A i \in Jobs : row[i].status \notin Active
      BY <1>1, <3>2, NoHolder
    <3> QED  BY <3>1, <3>2
  <2>6. j \notin GrantedJobs \cup DoneJobs
    BY <2>1, <2>2 DEF GrantedJobs, DoneJobs
  <2>7. Fence!Take(j)
    BY <2>3, <2>4, <2>5, <2>6 DEF Fence!Take
  <2> QED  BY <2>7 DEF Fence!Next
<1>5. ASSUME NEW j \in Jobs, Granted(j)
      PROVE  Fence!Next
  <2>1. row[j].status \in Active /\ row'[j].status \in Active /\
          row'[j].status = "running"
        /\ row[j].status \in PreExecution /\ row'[j].claimed
        /\ \A i \in Jobs \ {j} : Follows(row[i], row'[i])
    BY <1>5 DEF Granted, Active, Others
  <2>2. Holder = j /\ Holder' = j
    BY <1>1, <2>1, HolderIs, HolderIsThen
  <2>3. /\ GrantedJobs' = GrantedJobs \cup {j}
        /\ DoneJobs' = DoneJobs /\ ReconciledJobs' = ReconciledJobs
    BY <1>2, <2>1 DEF GrantedJobs, DoneJobs, ReconciledJobs, PreExecution
  <2>4. Fence!Grant(j)
    BY <2>2, <2>3 DEF Fence!Grant
  <2> QED  BY <2>4 DEF Fence!Next
<1>6. ASSUME NEW j \in Jobs, Completed(j)
      PROVE  Fence!Next
  <2>1. row[j].status \in Active /\ row[j].claimed /\ j \notin Inspections
        /\ row'[j].status = "done" /\ row'[j].claimed
        /\ effect[j] \in {"full", "none needed"}
        /\ \A i \in Jobs \ {j} : Follows(row[i], row'[i])
    BY <1>6 DEF Completed, Others, IInv, ReceiptOK
  <2>2. Holder = j /\ j \in GrantedJobs
    BY <1>1, <2>1, HolderIs DEF GrantedJobs
  <2>3. Holder' = NoJob
    <3>1. ASSUME NEW i \in Jobs PROVE row'[i].status \notin Active
      BY <1>1, <1>2, <2>1 DEF OneActive, Active, PreExecution
    <3> QED  BY <3>1, NoHolderThen
  <2>4. /\ GrantedJobs' = GrantedJobs /\ DoneJobs' = DoneJobs \cup {j}
        /\ ReconciledJobs' = ReconciledJobs
    BY <1>2, <2>1
       DEF GrantedJobs, DoneJobs, ReconciledJobs, Active, PreExecution
  <2>5. Fence!Complete(j)
    BY <2>1, <2>2, <2>3, <2>4 DEF Fence!Complete
  <2> QED  BY <2>5 DEF Fence!Next
<1>7. ASSUME NEW j \in Jobs, Reconciled(j)
      PROVE  Fence!Next
  <2>1. row[j].status \in Active /\ row'[j].status = "reconciled"
        /\ row'[j].claimed = row[j].claimed
        /\ \A i \in Jobs \ {j} : Follows(row[i], row'[i])
    BY <1>7 DEF Reconciled, Others
  <2>2. Holder = j
    BY <1>1, <2>1, HolderIs
  <2>3. Holder' = NoJob
    <3>1. ASSUME NEW i \in Jobs PROVE row'[i].status \notin Active
      BY <1>1, <1>2, <2>1 DEF OneActive, Active, PreExecution
    <3> QED  BY <3>1, NoHolderThen
  <2>4. /\ GrantedJobs' = GrantedJobs /\ DoneJobs' = DoneJobs
        /\ ReconciledJobs' = ReconciledJobs \cup {j}
    BY <1>2, <2>1
       DEF GrantedJobs, DoneJobs, ReconciledJobs, Active, PreExecution
  <2>5. Fence!Reconcile(j)
    BY <2>2, <2>3, <2>4 DEF Fence!Reconcile
  <2> QED  BY <2>5 DEF Fence!Next
<1> QED  BY <1>3, <1>4, <1>5, <1>6, <1>7 DEF Moves

LEMMA FenceWrites ==
  ASSUME IInv, NEW j, Writes(j), row' = row
  PROVE  [Fence!Next]_(Fence!vars)
<1>1. PICK extent \in {"partial", "full", "none needed"} :
        /\ effect' = [effect EXCEPT ![j] = extent]
        /\ effect[j] = "none" \/
             (effect[j] = "partial" /\ extent # "none needed")
  BY DEF Writes
<1>2. UNCHANGED <<Holder, GrantedJobs, DoneJobs, ReconciledJobs>>
  BY DEF Holder, GrantedJobs, DoneJobs, ReconciledJobs
<1>3. Holder = j /\ j \in GrantedJobs /\ j \in Jobs
  BY HolderIs DEF Writes, GrantedJobs, IInv
<1>4. CASE effect[j] = "partial" /\ extent = "partial"
  <2>1. effect' = effect
    BY <1>1, <1>4 DEF IInv, TypeOK
  <2> QED  BY <1>2, <2>1 DEF Fence!vars
<1>5. CASE effect[j] = "none" \/ (effect[j] = "partial" /\ extent = "full")
  <2>1. Fence!Write(j, extent)
    BY <1>1, <1>2, <1>3, <1>5 DEF Fence!Write
  <2> QED  BY <1>3, <2>1 DEF Fence!Next
<1> QED  BY <1>1, <1>4, <1>5

\* Whatever crashes, is lost, late, withdrawn or reconciled, the jobs of a
\* domain keep what DomainFence promises of it.
THEOREM JobsImplementFence == Spec => ImplementsDomainFence
<1>1. IInv /\ IInv' /\ [Next]_vars => [Fence!Next]_(Fence!vars)
  <2> SUFFICES ASSUME IInv, IInv', [Next]_vars
               PROVE  [Fence!Next]_(Fence!vars)
    OBVIOUS
  <2>1. CASE PortalNext
    <3>1. Moves /\ effect' = effect
      BY <2>1, PortalShows DEF Shown, PortalNext, agentVars
    <3> QED  BY <3>1, FenceMoves
  <2>2. CASE row' = row /\ effect' = effect
    BY <2>2 DEF Fence!vars, Holder, GrantedJobs, DoneJobs, ReconciledJobs
  <2>3. ASSUME NEW a \in Agents, Agent(a)
        PROVE  [Fence!Next]_(Fence!vars)
    <3>1. row' = row /\ (effect' = effect \/ Writes(JobOf(a)))
      BY <2>3, ActionsAct
         DEF Acted, Agent, Recover, BeginCycle, Reported, ReceiveOffer,
             FailPreflight, Inspect, ReportAwaiting, SaveGranted, ReceiveClaim,
             PreflightFails, SaveIntent, PrepareOnly, IntentFails, Name, Create,
             SaveName, Mutate, Verify, WorkerLost, Observe, NothingAsked,
             ReceiveRelease, GiveUp, Stop, portalVars, portalRows
    <3> QED  BY <2>2, <3>1, FenceWrites
  <2>4. CASE Drift \/ UNCHANGED vars
    BY <2>2, <2>4 DEF Drift, vars, portalVars, agentVars
  <2> QED  BY <2>1, <2>3, <2>4, Steps
<1> QED
  BY <1>1, FenceInit, GpoJobsInvariant, PTL
     DEF Spec, ImplementsDomainFence, Fence!Spec

=============================================================================
