------------------------ MODULE AssignmentInvariant ------------------------
(***************************************************************************)
(* The inductive invariant of AgentAssignments.  There is no journal: what  *)
(* keeps a job from being carried out twice is that only what is delivered  *)
(* may be accepted, and that nothing tells of an outcome before the job was *)
(* carried out.  What keeps an update able to roll back is that a second    *)
(* updater comes into being only once the first has told its outcome, and   *)
(* then refuses the rollback file the first still needs.                    *)
(***************************************************************************)
EXTENDS AgentAssignments

\* A message, a file or the main thread tells that j ended with result.
Tells(j, result) ==
  \/ \E m \in late \cup {request} : m.job = j /\ m.result = result
  \/ pendingAction = File(j, result)
  \/ pendingLifecycle = File(j, result)
  \/ work = File(j, result)

Untold(j) == \A result \in Finals : ~Tells(j, result)

Untouched(j) == ran[j] = 0 /\ updater[j] = "none" /\ Untold(j)

-----------------------------------------------------------------------------
(* The main thread. *)

Holding(set, result) == work.job \in set /\ work.result \in result

CycleOK ==
  /\ pc \in {"idle", "cycling"} \cup Reporting => work = NoFile
  /\ pc = "downloading" => Holding(Updates, {"none"})
  /\ pc = "accepting" =>
       /\ Holding(Jobs, {"none"})
       /\ request = Message("result", work.job, "running")
  /\ pc \in {"executing", "confirming"} =>
       /\ Holding(VMActions, {"none"})
       /\ request = NoRequest
       /\ reply = NoReply
  /\ pc = "finishing" => Holding(VMActions, Finals)
  /\ request.action = "cycle" <=> pc = "cycling"
  /\ reply.type = "assignment" => pc = "cycling"
  /\ reply.type = "accepted" => request.action = "result"

FilesOK ==
  /\ pendingAction.job \in VMActions \cup {NoJob}
  /\ pendingLifecycle.job \in Lifecycle \cup {NoJob}

-----------------------------------------------------------------------------
(* The rows, and what was done about them. *)

RunOnce == \A j \in Jobs : ran[j] \in {0, 1}

WaitingUntouched ==
  \A j \in Jobs : job[j].status \notin {"running"} \cup Finals => Untouched(j)

AcceptedUntouched ==
  (pc = "accepting" /\ reply = Accepted) \/ pc = "executing" =>
    job[work.job].status = "running" /\ Untouched(work.job)

ConfirmingUntold ==
  pc = "confirming" => job[work.job].status = "running" /\ Untold(work.job)

\* All that is told of a power action is one story, and the row's.
OneStory ==
  \A j \in VMActions, result \in Finals :
    Tells(j, result) =>
      /\ job[j].status \in {"running", result}
      /\ \A other \in Finals : Tells(j, other) => other = result

-----------------------------------------------------------------------------
(* Lifecycle jobs. *)

OneActive ==
  \A j, k \in Lifecycle : Active(j) /\ Active(k) => j = k

InHandUntouched ==
  \A j \in Lifecycle :
    InHand(j) => job[j].status \in {"delivered", "running"} /\ Untouched(j)

Early == {"launched", "checked", "stopping", "stopped", "replaced", "registered"}

EarlyUntold ==
  \A j \in Lifecycle :
    updater[j] \in Early => job[j].status = "running" /\ Untold(j)

Saved == {"checked", "stopping", "stopped"}
Replaced == {"replaced", "registered", "recorded", "starting"}

UpdaterKinds ==
  /\ \A j \in VMActions : updater[j] = "none"
  /\ \A j \in Uninstalls :
       updater[j] \in {"none", "launched", "stopping", "stopped", "removed"}
                        \cup Ended
  /\ \A j \in Updates : updater[j] # "removed"

\* One updater at a time depends on the rollback file.
Depends(j) == updater[j] \in Saved \cup Replaced \cup {"rolling back"}

OneDepends == \A j, k \in Updates : Depends(j) /\ Depends(k) => j = k

\* Once its outcome is told, an updater that still depends on the rollback
\* file has replaced the binary: that is what refuses the next one.
BackupOf(j) ==
  /\ updater[j] \in Saved => backup = version
  /\ updater[j] \in Replaced => version = Version[j]
  /\ updater[j] \in Replaced \cup {"rolling back"} =>
       backup > 0 /\ backup < Version[j] /\ backup <= version
  /\ updater[j] = "rolling back" /\ ~(job[j].status = "running" /\ Untold(j)) =>
       version = Version[j]

BackupOK == \A j \in Updates : BackupOf(j)

\* An update held or under way is one to a later version.
Rises ==
  \A j \in Updates :
    \/ pc \in {"downloading", "accepting"} /\ work.job = j
    \/ updater[j] \in {"launched"} \cup Saved
    => Version[j] > version

-----------------------------------------------------------------------------

IInv ==
  /\ TypeOK
  /\ CycleOK
  /\ FilesOK
  /\ RunOnce
  /\ WaitingUntouched
  /\ AcceptedUntouched
  /\ ConfirmingUntold
  /\ OneStory
  /\ OneActive
  /\ InHandUntouched
  /\ EarlyUntold
  /\ UpdaterKinds
  /\ OneDepends
  /\ BackupOK
  /\ Rises

=============================================================================
