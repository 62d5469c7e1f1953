---------------------------- MODULE GpoInvariant ----------------------------
(***************************************************************************)
(* The inductive invariant of GpoJobs.  What keeps a domain safe is that a  *)
(* worker writes only for a job that was claimed and has no receipt, that   *)
(* every report which may end a claimed job is its receipt, and that one    *)
(* job at a time is active: a domain that is to be reconciled is not        *)
(* written to any more.                                                     *)
(***************************************************************************)
EXTENDS GpoJobs

Reconciling ==
  {"reconciliation_poll", "reconciliation_result", "reconciliation_ack"}
Observing == {"reconciliation_result", "reconciliation_ack"}

-----------------------------------------------------------------------------
(* The portal's rows. *)

\* An execution is granted for good; rule and four eyes are those of their
\* revision.
RowOK(r, j) ==
  /\ r.claimed =>
       /\ j \notin Inspections
       /\ r.status \in {"running", "reconciliation_required", "done",
                        "reconciled"}
  /\ r.status = "running" => r.claimed
  /\ r.status = "inspected" => r.digest # NoDoc
  /\ r.rule <= rule.revision
  /\ r.rule = rule.revision => r.four = rule.four

RowsOK == \A j \in Jobs : RowOK(row[j], j)

OneActive ==
  \A i, j \in Jobs :
     row[i].status \in Active /\ row[j].status \in Active => i = j

\* What was observed holds all IPMS wrote, as long as the domain is held.
HoldsAllWrites(c, seen) ==
  row[c].status \in Active => seen.at.writes = directory.writes

Fits(e, c) ==
  /\ e.status \in {"observed", "accept_requested"} => e.seen # NoDoc
  /\ e.status = "accept_requested" => e.seen.sound
  /\ e.rule <= rule.revision
  /\ e.rule = rule.revision /\ rule.four => e.four
  /\ e.seen # NoDoc => receipt[c] # NoDoc /\ HoldsAllWrites(c, e.seen)

RecordOK(c) == Fits(recon[c], c)

-----------------------------------------------------------------------------
(* The Agents. *)

JournalOK(a) ==
  LET j == JobOf(a) IN
  /\ j = NoJob <=> journal[a].phase = "none"
  /\ j # NoJob => Executor[j] = a /\ row[j].status # "absent"
  /\ journal[a].phase \notin {"none", "prepared"} => j \notin Inspections

\* A receipt tells what was done; before it, the journal does.
ReceiptOK(j) ==
  /\ receipt[j] # NoDoc =>
       /\ row[j].status # "absent"
       /\ receipt[j].status = "uncertain" => j \notin Inspections
       /\ receipt[j].status = "success" => effect[j] \in {"full", "none needed"}
  /\ receipt[j] = NoDoc =>
       /\ row[j].status \notin {"done", "reconciled"}
       /\ j \notin released
       /\ effect[j] # "none" =>
            /\ JobOf(Executor[j]) = j
            /\ journal[Executor[j]].phase \notin {"none", "prepared"}
  /\ effect[j] # "none" => row[j].claimed

\* How far the worker is, by its place.
EffectAt(place) ==
  CASE place \in {"claiming", "granted", "creating"} -> {"none"}
    [] place \in {"made", "broken"} -> {"partial"}
    [] place = "named" -> {"none", "partial"}
    [] place = "changed" -> {"full"}

StageOK(a) ==
  LET j == JobOf(a) IN
  /\ stage[a] \in {"reporting", "reconciling", "observing",
                   "acknowledging"} => j # NoJob /\ Ended(j)
  /\ stage[a] \in {"reconciling", "observing", "acknowledging"} => j \in Changes
  /\ stage[a] = "polling" =>
       j = NoJob \/ Ended(j) \/ journal[a].phase = "prepared"
  /\ stage[a] = "offered" => ~Ended(j) /\ journal[a].phase = "prepared"
  /\ stage[a] \in {"claiming"} \cup Working =>
       /\ ~Ended(j) /\ journal[a].phase \notin {"none", "prepared"}
       /\ effect[j] \in EffectAt(stage[a])
  /\ stage[a] = "claiming" => request[a].mode = "claim" /\ request[a].job = j
  /\ stage[a] = "claiming" /\ reply[a].mode = "execute" => row[j].claimed
  /\ stage[a] \in Working => row[j].claimed

-----------------------------------------------------------------------------
(* The links. *)

\* A report is the job's receipt, or says that approval is awaited.
MessageOK(a, m) ==
  LET j == m.job IN
  /\ m.mode \notin {"none", "poll"} =>
       j # NoJob /\ Executor[j] = a /\ row[j].status # "absent"
  /\ m.mode = "claim" => j \notin Inspections
  /\ m.mode = "result" =>
       m.doc = Awaiting \/ (m.doc # NoDoc /\ m.doc = receipt[j])
  /\ m.mode \in Reconciling => j \in Changes /\ Ended(j)
  /\ m.mode \in Observing => m.seen # NoDoc /\ HoldsAllWrites(j, m.seen)
  /\ m.mode = "reconciliation_ack" => <<j, m.round>> \in pending

\* What is offered is a job of the Agent.
ReplyOK(a) ==
  reply[a].type = "job" /\ reply[a].job # NoJob =>
    Executor[reply[a].job] = a /\ row[reply[a].job].status # "absent"

IInv ==
  /\ TypeOK
  /\ rule.revision > 0
  /\ RowsOK
  /\ OneActive
  /\ \A c \in Changes : RecordOK(c)
  /\ \A a \in Agents : JournalOK(a) /\ StageOK(a) /\ ReplyOK(a)
  /\ \A j \in Jobs : ReceiptOK(j)
  /\ \A a \in Agents : MessageOK(a, request[a])
  /\ \A d \in late : MessageOK(d[1], d[2])

=============================================================================
