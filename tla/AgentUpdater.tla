---------------------------- MODULE AgentUpdater ----------------------------
(***************************************************************************)
(* The updater (updater.cpp): a copy of the Agent's binary that runs as a   *)
(* process of its own for one lifecycle job.  An action ends where the      *)
(* process may be killed with an effect on disk, or where it looks at the   *)
(* service.  Failures of system calls are always possible; the waits for    *)
(* the service are bounded, and may run out whatever the service does.      *)
(***************************************************************************)
EXTENDS AssignmentAgent

\* An update goes
\*   launched - checked - stopping - stopped - replaced - registered -
\*   recorded - starting - finished,
\* from a failure after the stop through
\*   rolling back - resetting - recording - restarting - failed,
\* and from an earlier failure to recording.  A removal goes
\*   launched - stopping - stopped - removed - finished, or failed.
Ended == {"finished", "failed", "killed"}
UpdaterStates ==
  {"none", "launched", "checked", "stopping", "stopped", "replaced",
   "registered", "recorded", "starting", "rolling back", "resetting",
   "recording", "restarting", "removed"} \cup Ended

Step(j, from, to) ==
  /\ updater[j] = from
  /\ updater' = [updater EXCEPT ![j] = to]
  /\ UNCHANGED <<portalVars, pc, work, pendingAction, transition, ran>>

-----------------------------------------------------------------------------
(* Before the service is stopped. *)

\* Defect: a rollback file of an earlier update is kept whatever it holds.
SaveAnyBackup == backup' = IF backup = 0 THEN version ELSE backup

\* A rollback file that differs from the installed binary stops the update.
SaveBackup == backup \in {0, version} /\ backup' = version

CheckUpdate(j) ==
  /\ j \in Updates
  /\ Step(j, "launched", "checked")
  /\ registered # 0
  /\ Version[j] > registered
  /\ SaveBackup
  /\ source' = [source EXCEPT ![j] = registered]
  /\ UNCHANGED <<linkVars, service, pendingLifecycle, version, registered>>

CheckFails(j) ==
  /\ j \in Updates
  /\ Step(j, "launched", "recording")
  /\ backup' \in {backup} \cup (IF backup = 0 THEN {version} ELSE {})
  /\ UNCHANGED <<linkVars, service, pendingLifecycle, version, registered,
                 source>>

StopService(j) ==
  /\ IF j \in Updates THEN Step(j, "checked", "stopping")
                      ELSE Step(j, "launched", "stopping")
  /\ service \in {"running", "stopped"}
  /\ service' = IF service = "running" THEN "stopping" ELSE service
  /\ UNCHANGED <<linkVars, pendingLifecycle, installVars>>

SeeStopped(j) ==
  /\ service = "stopped"
  /\ Step(j, "stopping", "stopped")
  /\ UNCHANGED <<linkVars, service, pendingLifecycle, installVars>>

\* A removal that fails neither reports nor restarts anything.
StopRefused(j) ==
  /\ IF j \in Updates THEN Step(j, "checked", "recording")
                      ELSE Step(j, "launched", "failed")
  /\ UNCHANGED <<linkVars, service, pendingLifecycle, installVars>>

\* Thirty seconds for the service to stop, and thirty for its process.
StopTimesOut(j) ==
  /\ Step(j, "stopping", IF j \in Updates THEN "recording" ELSE "failed")
  /\ UNCHANGED <<linkVars, service, pendingLifecycle, installVars>>

-----------------------------------------------------------------------------
(* An update, once the service is stopped. *)

\* An image that a process executes cannot be replaced.
ReplaceBinary(j) ==
  /\ j \in Updates
  /\ ~Process
  /\ Step(j, "stopped", "replaced")
  /\ version' = Version[j]
  /\ UNCHANGED <<linkVars, service, pendingLifecycle, registered, backup,
                 source>>

SetDisplayVersion(j) ==
  /\ Step(j, "replaced", "registered")
  /\ registered # 0
  /\ registered' = Version[j]
  /\ UNCHANGED <<linkVars, service, pendingLifecycle, version, backup, source>>

\* write_result, before the service is started.
RecordSuccess(j) ==
  /\ Step(j, "registered", "recorded")
  /\ pendingLifecycle' = File(j, "succeeded")
  /\ UNCHANGED <<linkVars, service, installVars>>

\* StartService of a service that has not stopped changes nothing.
Started == IF service = "stopped" /\ registered # 0 THEN "starting" ELSE service

StartService(j) ==
  /\ Step(j, "recorded", "starting")
  /\ service' = Started
  /\ UNCHANGED <<linkVars, pendingLifecycle, installVars>>

SeeRunning(j) ==
  /\ service = "running"
  /\ Step(j, "starting", "finished")
  /\ backup' \in {0, backup}
  /\ UNCHANGED <<linkVars, service, pendingLifecycle, version, registered,
                 source>>

UpdateFails(j) ==
  /\ j \in Updates
  /\ \E state \in {"stopped", "replaced", "registered", "recorded", "starting"} :
       Step(j, state, "rolling back")
  /\ UNCHANGED <<linkVars, service, pendingLifecycle, installVars>>

\* Each step of the way back is tried once, whatever became of the last.
RestoreBinary(j) ==
  /\ Step(j, "rolling back", "resetting")
  /\ version' \in {version} \cup (IF Process THEN {} ELSE {backup})
  /\ UNCHANGED <<linkVars, service, pendingLifecycle, registered, backup,
                 source>>

ResetDisplayVersion(j) ==
  /\ Step(j, "resetting", "recording")
  /\ registered' \in {registered} \cup (IF registered = 0 THEN {} ELSE {source[j]})
  /\ UNCHANGED <<linkVars, service, pendingLifecycle, version, backup, source>>

RecordFailure(j) ==
  /\ Step(j, "recording", "restarting")
  /\ pendingLifecycle' \in {File(j, "failed"), pendingLifecycle}
  /\ UNCHANGED <<linkVars, service, installVars>>

RestartService(j) ==
  /\ Step(j, "restarting", "failed")
  /\ service' = Started
  /\ UNCHANGED <<linkVars, pendingLifecycle, installVars>>

RestartFails(j) ==
  /\ service # Started
  /\ Step(j, "restarting", "failed")
  /\ UNCHANGED <<linkVars, service, pendingLifecycle, installVars>>

-----------------------------------------------------------------------------
(* A removal, once the service is stopped. *)

RemoveRegistration(j) ==
  /\ j \in Uninstalls
  /\ Step(j, "stopped", "removed")
  /\ registered # 0
  /\ registered' = 0
  /\ UNCHANGED <<linkVars, service, pendingLifecycle, version, backup, source>>

\* The installed binary reports, in a process and an exchange of its own:
\* here the exchange is one step when its answer arrives.
ReportUninstalled(j) ==
  /\ updater[j] = "removed"
  /\ Takes(job[j], "succeeded")
  /\ job' = [job EXCEPT ![j].status = "succeeded"]
  /\ updater' = [updater EXCEPT ![j] = "finished"]
  /\ UNCHANGED <<created, authorityVars, linkVars, service, cycleVars, ran,
                 installVars>>

\* Nobody is left to try again.
ReportUninstalledFails(j) ==
  /\ Step(j, "removed", "failed")
  /\ late' \in {late} \cup (IF Cardinality(late) < LateBound
                            THEN {late \cup {Message("result", j, "succeeded")}}
                            ELSE {})
  /\ UNCHANGED <<request, reply, service, pendingLifecycle, installVars>>

RemoveFails(j) ==
  /\ j \in Uninstalls
  /\ Step(j, "stopped", "failed")
  /\ UNCHANGED <<linkVars, service, pendingLifecycle, installVars>>

-----------------------------------------------------------------------------
(* The host restarts, and with it a service that is still registered (its  *)
(* start type is automatic); updaters are not.                             *)

HostRestarts ==
  /\ service' = IF registered # 0 THEN "starting" ELSE "stopped"
  /\ updater' = [j \in Jobs |-> IF updater[j] \in {"none"} \cup Ended
                                THEN updater[j] ELSE "killed"]
  /\ ProcessEnds
  /\ UNCHANGED <<portalVars, pendingLifecycle, pendingAction, ran, installVars>>

=============================================================================
