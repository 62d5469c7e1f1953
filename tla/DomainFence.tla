---------------------------- MODULE DomainFence ----------------------------
(***************************************************************************)
(* What the Group Policy jobs of a domain promise of its directory         *)
(* (ADR-0016, SECURITY-GPO-RECONCILIATION.md): at most one job has the     *)
(* domain; a job writes only after it was granted execution, and while it  *)
(* has the domain; a granted job gives the domain up only when its writes  *)
(* are complete or were reconciled, and never has it again.                *)
(***************************************************************************)
CONSTANTS Jobs, NoJob

VARIABLES
  holder,     \* the job that has the domain, or NoJob
  granted,    \* jobs that were granted execution
  written,    \* per job, how far its writes went
  done,       \* jobs that succeeded
  reconciled  \* jobs whose uncertain outcome was accepted

vars == <<holder, granted, written, done, reconciled>>

Init ==
  /\ holder = NoJob
  /\ granted = {} /\ done = {} /\ reconciled = {}
  /\ written = [j \in Jobs |-> "none"]

\* An offer that was not granted may give way to the next at once.
Take(j) ==
  /\ holder \notin granted
  /\ j \notin granted \cup done
  /\ holder' = j
  /\ UNCHANGED <<granted, written, done, reconciled>>

Drop ==
  /\ holder \notin granted
  /\ holder' = NoJob
  /\ UNCHANGED <<granted, written, done, reconciled>>

Grant(j) ==
  /\ holder = j
  /\ granted' = granted \cup {j}
  /\ UNCHANGED <<holder, written, done, reconciled>>

Write(j, extent) ==
  /\ holder = j /\ j \in granted
  /\ written[j] = "none" \/ <<written[j], extent>> = <<"partial", "full">>
  /\ written' = [written EXCEPT ![j] = extent]
  /\ UNCHANGED <<holder, granted, done, reconciled>>

Complete(j) ==
  /\ holder = j /\ j \in granted
  /\ written[j] \in {"full", "none needed"}
  /\ done' = done \cup {j}
  /\ holder' = NoJob
  /\ UNCHANGED <<granted, written, reconciled>>

Reconcile(j) ==
  /\ holder = j
  /\ reconciled' = reconciled \cup {j}
  /\ holder' = NoJob
  /\ UNCHANGED <<granted, written, done>>

Next ==
  \/ Drop
  \/ \E j \in Jobs :
       \/ Take(j) \/ Grant(j) \/ Complete(j) \/ Reconcile(j)
       \/ \E extent \in {"partial", "full", "none needed"} : Write(j, extent)

Spec == Init /\ [][Next]_vars

=============================================================================
