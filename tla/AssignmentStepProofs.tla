------------------------ MODULE AssignmentStepProofs ------------------------
(***************************************************************************)
(* The steps of AgentAssignments preserve its invariant: those of the      *)
(* service's main thread, of the portal, and of the updaters.              *)
(***************************************************************************)
EXTENDS AssignmentInvariant, TLAPS

USE DEF InHand

-----------------------------------------------------------------------------
(* The main thread.  Every step either leaves rows, updaters and binaries  *)
(* alone and tells no more than before (TableKept), or carries out a job   *)
(* that was accepted.                                                      *)

\* What is not told stays untold, and nobody's row, updater or binary changes.
TellsNoMore ==
  \A j \in Jobs, result \in Finals : Tells(j, result)' => Tells(j, result)

\* What the invariant says of rows, updaters, the binary and its rollback
\* file.
Table ==
  /\ RunOnce
  /\ WaitingUntouched
  /\ OneStory
  /\ OneActive
  /\ EarlyUntold
  /\ UpdaterKinds
  /\ OneDepends
  /\ BackupOK

\* Power actions, updates and removals are jobs, and different ones.
LEMMA JobKinds ==
  /\ Lifecycle \subseteq Jobs
  /\ VMActions \subseteq Jobs
  /\ Updates \subseteq Lifecycle
  /\ Uninstalls \subseteq Lifecycle
  /\ NoJob \notin Jobs
  /\ Updates \cap Uninstalls = {}
  /\ VMActions \cap Lifecycle = {}
  /\ \A j \in Jobs : j \in VMActions \/ j \in Updates \/ j \in Uninstalls
<1>1. /\ NoJob \notin Jobs
      /\ Updates \subseteq Jobs
      /\ Uninstalls \subseteq Jobs
      /\ \A j \in Uninstalls : j \notin Updates
  BY AssignmentAssumption
<1>2. /\ Updates \cap Uninstalls = {}
      /\ \A j \in Jobs : j \in VMActions \/ j \in Updates \/ j \in Uninstalls
  BY <1>1 DEF Lifecycle, VMActions
<1>3. Lifecycle \subseteq Jobs /\ VMActions \subseteq Jobs
  BY <1>1 DEF Lifecycle, VMActions
<1>4. VMActions \cap Lifecycle = {}
  BY DEF VMActions
<1> QED  BY <1>1, <1>2, <1>3, <1>4 DEF Lifecycle

\* A step after which no more is told than before, and that changes no row, no
\* updater and no binary, keeps what the invariant says of them.
LEMMA TableKept ==
  ASSUME IInv, TellsNoMore, UNCHANGED <<job, ran, updater, installVars>>
  PROVE  Table'
<1>1. \A j \in Jobs : Untold(j) => Untold(j)'
  BY DEF TellsNoMore, Untold
<1>2. \A j \in Jobs : Untouched(j) => Untouched(j)'
  BY <1>1 DEF Untouched
<1>3. RunOnce'
  BY DEF IInv, RunOnce
<1>4. WaitingUntouched'
  BY <1>2 DEF IInv, WaitingUntouched
<1>5. OneStory'
  BY JobKinds DEF IInv, OneStory, TellsNoMore
<1>6. OneActive'
  BY DEF IInv, OneActive, Active
<1>7. EarlyUntold'
  BY <1>1, JobKinds DEF IInv, EarlyUntold
<1>8. UpdaterKinds'
  BY DEF IInv, UpdaterKinds
<1>9. OneDepends'
  BY DEF IInv, OneDepends, Depends
<1>10. BackupOK'
  BY <1>1, JobKinds DEF IInv, BackupOK, BackupOf, installVars
<1> QED
  BY <1>3, <1>4, <1>5, <1>6, <1>7, <1>8, <1>9, <1>10 DEF Table

\* The rest of the invariant is about the main thread.
Thread ==
  /\ CycleOK
  /\ FilesOK
  /\ AcceptedUntouched
  /\ ConfirmingUntold
  /\ InHandUntouched
  /\ Rises

\* A cycle that ends, by an answer, a refusal, a lost connection or a crash,
\* leaves the main thread with nothing but its files.
LEMMA CycleEnds ==
  ASSUME IInv, EndCycle, HangUp \/ GiveUp,
         pendingAction' \in {pendingAction, work},
         pendingAction' = pendingAction \/ pc = "finishing",
         transition' \in {transition, FALSE}, service' \in ServiceStates,
         updater' = updater,
         UNCHANGED <<portalVars, pendingLifecycle, ran, installVars>>
  PROVE  IInv'
<1>1. TypeOK'
  <2>1. late' \subseteq Requests
    BY DEF IInv, TypeOK, HangUp, GiveUp, Abandoned, NoRequest, Message
  <2>2. request' = NoRequest /\ reply' = NoReply /\ pc' = "idle" /\
          work' = NoFile
    BY DEF HangUp, GiveUp, EndCycle
  <2>3. pendingAction' \in Files
    BY DEF IInv, TypeOK, CycleOK, Holding, Works, Files, NoFile, File
  <2> QED
    BY <2>1, <2>2, <2>3
       DEF IInv, TypeOK, portalVars, authorityVars, installVars, Replies,
           Places, Works
<1>2. TellsNoMore
  BY JobKinds
     DEF TellsNoMore, Tells, EndCycle, HangUp, GiveUp, Abandoned, NoRequest,
         Message, NoFile, File
<1>3. Table'
  BY <1>2, TableKept DEF portalVars
<1>4. Thread'
  <2>0. request' = NoRequest /\ reply' = NoReply /\ pc' = "idle" /\
          work' = NoFile
    BY DEF HangUp, GiveUp, EndCycle
  <2>1. CycleOK' /\ AcceptedUntouched' /\ ConfirmingUntold'
    BY <2>0
       DEF CycleOK, AcceptedUntouched, ConfirmingUntold, NoRequest, NoReply,
           Message, Document
  <2>4. Rises'
    BY <2>0, JobKinds DEF IInv, Rises, installVars
  <2>2. FilesOK'
    BY DEF IInv, FilesOK, CycleOK, Holding
  <2>3. InHandUntouched'
    BY <2>0, JobKinds DEF InHandUntouched, NoReply, Document, NoFile, File
  <2> QED  BY <2>1, <2>2, <2>3, <2>4 DEF Thread
<1> QED  BY <1>1, <1>3, <1>4 DEF IInv, Table, Thread

\* A stored result is sent, or none is stored and the cycle goes on.
SendsStored ==
  \/ SendPendingAction
  \/ SendCycle
  \/ /\ pendingLifecycle # NoFile
     /\ Send("result", pendingLifecycle.job, pendingLifecycle.result)
     /\ pc' = "reporting lifecycle"

\* A stored result is sent, or none is stored and the cycle goes on.
LEMMA StoredSent ==
  ASSUME IInv, SendsStored, pc \in {"idle"} \cup Reporting, work' = work,
         pendingLifecycle' \in {NoFile, pendingLifecycle},
         pendingAction' \in {NoFile, pendingAction},
         UNCHANGED <<portalVars, service, transition, ran, updater,
           installVars>>
  PROVE  IInv'
<1>0. /\ work = NoFile
      /\ reply' = NoReply
      /\ late' = late
      /\ pc' \in {"cycling"} \cup Reporting
  BY DEF IInv, CycleOK, SendsStored, SendPendingAction, SendCycle, Send,
         Reporting
<1>1. \/ request' = Message("cycle", NoJob, "none") /\ pc' = "cycling"
      \/ \E f \in {pendingAction, pendingLifecycle} :
           /\ f # NoFile
           /\ request' = Message("result", f.job, f.result)
           /\ pc' # "cycling"
  BY DEF SendsStored, SendPendingAction, SendCycle, Send
<1>2. \A f \in {pendingAction, pendingLifecycle} :
        f # NoFile =>
          f.job \in Jobs /\ f.result \in Finals /\ f = File(f.job, f.result)
  BY DEF IInv, TypeOK, Files, File
<1>3. request' \in Requests /\ (request'.action = "cycle" <=> pc' = "cycling")
  BY <1>1, <1>2 DEF Message, Requests, Results
<1>4. TypeOK'
  BY <1>0, <1>3
     DEF IInv, TypeOK, portalVars, authorityVars, installVars, Replies,
         Places, Exchanging, Files
<1>5. TellsNoMore
  <2>1. \A j \in Jobs, result \in Finals :
          request'.job = j /\ request'.result = result => Tells(j, result)
    BY <1>1, <1>2, JobKinds DEF Message, Tells, Finals
  <2>2. \A j \in Jobs, result \in Finals : File(j, result).job # NoFile.job
    BY JobKinds DEF File, NoFile
  <2> QED  BY <1>0, <2>1, <2>2 DEF TellsNoMore, Tells
<1>6. Table'
  BY <1>5, TableKept DEF portalVars
<1>7. Thread'
  <2>1. CycleOK'
    BY <1>0, <1>3 DEF CycleOK, NoReply, Document, Reporting
  <2>2. FilesOK'
    BY DEF IInv, FilesOK, NoFile, File
  <2>3. AcceptedUntouched' /\ ConfirmingUntold'
    BY <1>0 DEF AcceptedUntouched, ConfirmingUntold, Reporting
  <2>4. InHandUntouched'
    BY <1>0, JobKinds DEF InHandUntouched, NoReply, Document, NoFile, File
  <2>5. Rises'
    BY <1>0, JobKinds DEF IInv, Rises, installVars, Reporting
  <2> QED  BY <2>1, <2>2, <2>3, <2>4, <2>5 DEF Thread
<1> QED  BY <1>4, <1>6, <1>7 DEF IInv, Table, Thread

\* The steps of run_gateway_cycle and its helpers that send what is stored
\* preserve the invariant.
LEMMA StoredSteps ==
  ASSUME IInv, BeginCycle \/ LifecycleReported \/ ActionReported
  PROVE  IInv'
<1>1. CASE BeginCycle
  BY <1>1, StoredSent DEF BeginCycle, SendsStored
<1>2. CASE LifecycleReported
  BY <1>2, StoredSent DEF LifecycleReported, SendsStored, Reporting
<1>3. CASE ActionReported
  BY <1>3, StoredSent DEF ActionReported, SendsStored, Reporting
<1> QED  BY <1>1, <1>2, <1>3

\* The steps that end a cycle preserve the invariant.
LEMMA EndingSteps ==
  ASSUME IInv,
         \/ ReceiveNothing
         \/ PassOverLifecycle
         \/ ActionFinished
         \/ ExchangeRefused
         \/ ExchangeLost
         \/ ServiceCrashes
  PROVE  IInv'
<1>1. CASE ReceiveNothing \/ PassOverLifecycle \/ ActionFinished
  BY <1>1, CycleEnds
     DEF IInv, TypeOK, ReceiveNothing, PassOverLifecycle, ActionFinished
<1>2. CASE ExchangeRefused \/ ExchangeLost
  BY <1>2, CycleEnds
     DEF IInv, TypeOK, ExchangeRefused, ExchangeLost, StoreOutcome
<1>3. CASE ServiceCrashes
  BY <1>3, CycleEnds DEF ServiceCrashes, ProcessEnds, ServiceStates
<1> QED  BY <1>1, <1>2, <1>3

\* handle_lifecycle_response preserves the invariant: the job it holds was
\* delivered, and nothing was done about it.
LEMMA AcceptLifecycleStep ==
  ASSUME IInv, AcceptLifecycle
  PROVE  IInv'
<1>0. PICK j \in Lifecycle :
        /\ reply = Document("assignment", j)
        /\ work' = File(j, "none")
        /\ pc = "cycling"
        /\ reply' = NoReply
        /\ \/ /\ j \in Updates
              /\ request' = Message("artifact", j, "none")
              /\ pc' = "downloading"
           \/ /\ j \notin Updates
              /\ request' = Message("result", j, "running")
              /\ pc' = "accepting"
  BY DEF AcceptLifecycle, Assigned, Send, IInv, TypeOK, Replies, Document,
         NoReply, NoAssignment, Accepted, Rejected
<1>a. InHand(j) /\ work = NoFile
  BY <1>0 DEF Document, IInv, CycleOK
<1>1. TypeOK'
  <2>1. request' \in Requests /\ work' \in Works
    BY <1>0, JobKinds DEF Requests, Message, Results, Works, File
  <2> QED
    BY <1>0, <2>1
       DEF IInv, TypeOK, AcceptLifecycle, Send, portalVars, authorityVars,
           installVars, Replies, Places, Exchanging
<1>2. TellsNoMore
  BY <1>0, <1>a, JobKinds
     DEF TellsNoMore, Tells, AcceptLifecycle, Send, Message, File, Finals
<1>3. Table'
  BY <1>2, TableKept DEF portalVars, AcceptLifecycle
<1>4. Thread'
  <2>1. CycleOK'
    <3>1. /\ work'.job = j /\ work'.result = "none" /\ reply'.type = "none"
          /\ request'.action \in {"artifact", "result"}
      BY <1>0 DEF File, NoReply, Document, Message
    <3> QED
      BY <1>0, <3>1, JobKinds DEF CycleOK, Message, Reporting, Holding
  <2>2. FilesOK'
    BY DEF IInv, FilesOK, AcceptLifecycle
  <2>3. AcceptedUntouched' /\ ConfirmingUntold'
    BY <1>0
       DEF AcceptedUntouched, ConfirmingUntold, AcceptLifecycle, Send,
           NoReply, Accepted, Document
  <2>4. InHandUntouched'
    <3>1. job' = job /\ (Untouched(j) => Untouched(j)')
      BY <1>2, JobKinds
         DEF TellsNoMore, Untouched, Untold, AcceptLifecycle, portalVars
    <3>2. work'.job = j /\ reply'.type # "assignment"
      BY <1>0 DEF File, AcceptLifecycle, Send, NoReply, Document
    <3> QED  BY <1>a, <3>1, <3>2 DEF IInv, InHandUntouched
  <2>5. Rises'
    BY <1>0, JobKinds
       DEF IInv, Rises, installVars, AcceptLifecycle, Monotonic, File,
           Document
  <2> QED  BY <2>1, <2>2, <2>3, <2>4, <2>5 DEF Thread
<1> QED  BY <1>1, <1>3, <1>4 DEF IInv, Table, Thread

\* After the download the job is accepted with a running result; the invariant
\* holds on.
LEMMA ReceiveBinaryStep ==
  ASSUME IInv, ReceiveBinary
  PROVE  IInv'
<1>0. work.job \in Updates /\ work.result = "none"
  BY DEF ReceiveBinary, IInv, CycleOK, Holding
<1>1. TypeOK'
  <2>1. request' \in Requests
    BY <1>0, JobKinds DEF Requests, Message, Results, ReceiveBinary, Send
  <2> QED
    BY <2>1
       DEF IInv, TypeOK, ReceiveBinary, Send, portalVars, authorityVars,
           installVars, Replies, Places, Exchanging
<1>2. TellsNoMore
  BY <1>0 DEF TellsNoMore, Tells, ReceiveBinary, Send, Message, Finals
<1>3. Table'
  BY <1>2, TableKept DEF portalVars, ReceiveBinary
<1>4. Thread'
  <2>1. CycleOK'
    BY <1>0, JobKinds
       DEF CycleOK, ReceiveBinary, Send, Message, NoReply, Document,
           Reporting, Holding
  <2>2. FilesOK'
    BY DEF IInv, FilesOK, ReceiveBinary
  <2>3. AcceptedUntouched' /\ ConfirmingUntold'
    BY DEF AcceptedUntouched, ConfirmingUntold, ReceiveBinary, Send,
           NoReply, Accepted, Document
  <2>4. InHandUntouched'
    <3>1. job' = job /\ work' = work /\ reply'.type # "assignment"
      BY DEF ReceiveBinary, portalVars, Send, NoReply, Document
    <3>2. \A j \in Lifecycle : Untouched(j) => Untouched(j)'
      BY <1>2, JobKinds DEF TellsNoMore, Untouched, Untold, ReceiveBinary
    <3> QED  BY <3>1, <3>2 DEF IInv, InHandUntouched
  <2>5. Rises'
    BY <1>0 DEF IInv, Rises, installVars, ReceiveBinary
  <2> QED  BY <2>1, <2>2, <2>3, <2>4, <2>5 DEF Thread
<1> QED  BY <1>1, <1>3, <1>4 DEF IInv, Table, Thread

\* handle_action_response preserves the invariant when it accepts the action
\* it was assigned.
LEMMA AcceptActionStep ==
  ASSUME IInv, AcceptAction
  PROVE  IInv'
<1>0. PICK j \in VMActions :
        /\ work' = File(j, "none")
        /\ pc = "cycling"
        /\ request' = Message("result", j, "running")
        /\ pc' = "accepting"
  BY DEF AcceptAction, Assigned, Send
<1>a. work = NoFile
  BY <1>0 DEF IInv, CycleOK
<1>1. TypeOK'
  <2>1. request' \in Requests /\ work' \in Works
    BY <1>0, JobKinds DEF Requests, Message, Results, Works, File
  <2> QED
    BY <1>0, <2>1
       DEF IInv, TypeOK, AcceptAction, Send, portalVars, authorityVars,
           installVars, Replies, Places, Exchanging
<1>2. TellsNoMore
  BY <1>0, <1>a, JobKinds
     DEF TellsNoMore, Tells, AcceptAction, Send, Message, File, Finals
<1>3. Table'
  BY <1>2, TableKept DEF portalVars, AcceptAction
<1>4. Thread'
  <2>1. CycleOK'
    BY <1>0, JobKinds
       DEF CycleOK, AcceptAction, Send, Message, NoReply, Document,
           Reporting, Holding, File
  <2>2. FilesOK'
    BY DEF IInv, FilesOK, AcceptAction
  <2>3. AcceptedUntouched' /\ ConfirmingUntold'
    BY <1>0
       DEF AcceptedUntouched, ConfirmingUntold, AcceptAction, Send, NoReply,
           Accepted, Document
  <2>4. InHandUntouched'
    BY <1>0, JobKinds
       DEF InHandUntouched, AcceptAction, Send, NoReply, Document, File
  <2>5. Rises'
    BY <1>0, JobKinds DEF IInv, Rises, installVars, AcceptAction, File
  <2> QED  BY <2>1, <2>2, <2>3, <2>4, <2>5 DEF Thread
<1> QED  BY <1>1, <1>3, <1>4 DEF IInv, Table, Thread

\* Once the portal has taken the running result, the action was delivered, is
\* running, and was never carried out.
LEMMA ActionAcceptedStep ==
  ASSUME IInv, ActionAccepted
  PROVE  IInv'
<1>0. work.job \in VMActions /\ work.result = "none"
  BY DEF ActionAccepted, IInv, CycleOK, Holding
<1>1. TypeOK'
  BY DEF IInv, TypeOK, ActionAccepted, HangUp, portalVars, authorityVars,
         installVars, Replies, Places
<1>2. TellsNoMore
  BY JobKinds DEF TellsNoMore, Tells, ActionAccepted, HangUp, Message, NoRequest
<1>3. Table'
  BY <1>2, TableKept DEF portalVars, ActionAccepted
<1>4. Thread'
  <2>1. CycleOK'
    BY <1>0
       DEF CycleOK, ActionAccepted, HangUp, Message, NoRequest, NoReply,
           Document, Reporting, Holding
  <2>2. FilesOK'
    BY DEF IInv, FilesOK, ActionAccepted
  <2>3. AcceptedUntouched'
    <3>1. job[work.job].status = "running" /\ Untouched(work.job)
      BY DEF IInv, AcceptedUntouched, ActionAccepted
    <3>2. Untouched(work.job)'
      BY <1>0, <1>2, <3>1, JobKinds
         DEF Untouched, Untold, TellsNoMore, ActionAccepted
    <3> QED  BY <3>1, <3>2 DEF AcceptedUntouched, ActionAccepted, portalVars
  <2>4. ConfirmingUntold'
    BY DEF ConfirmingUntold, ActionAccepted
  <2>5. InHandUntouched'
    BY <1>0, JobKinds
       DEF InHandUntouched, ActionAccepted, HangUp, NoReply, Document
  <2>6. Rises'
    BY <1>0, JobKinds DEF IInv, Rises, installVars, ActionAccepted
  <2> QED  BY <2>1, <2>2, <2>3, <2>4, <2>5, <2>6 DEF Thread
<1> QED  BY <1>1, <1>3, <1>4 DEF IInv, Table, Thread

\* The service comes and goes between two cycles.
LEMMA ServiceSteps ==
  ASSUME IInv, ServiceRuns \/ ServiceStops
  PROVE  IInv'
<1>0. /\ UNCHANGED <<portalVars, linkVars, pc, work, pendingLifecycle,
           pendingAction, ran, updater, installVars>>
      /\ service' \in ServiceStates
      /\ transition' \in {transition, FALSE}
  BY DEF ServiceRuns, ServiceStops, cycleVars, ServiceStates
<1>1. TypeOK'
  BY <1>0 DEF IInv, TypeOK, portalVars, authorityVars, linkVars, installVars
<1>2. TellsNoMore
  BY <1>0 DEF TellsNoMore, Tells, linkVars
<1>3. Table'
  BY <1>0, <1>2, TableKept DEF portalVars
<1>4. Thread'
  <2>1. CycleOK' /\ FilesOK' /\ Rises'
    BY <1>0 DEF IInv, CycleOK, FilesOK, Rises, linkVars, installVars, Holding
  <2>2. AcceptedUntouched' /\ ConfirmingUntold' /\ InHandUntouched'
    BY <1>0
       DEF IInv, AcceptedUntouched, ConfirmingUntold, InHandUntouched,
           linkVars, portalVars, Untouched, Untold, Tells
  <2> QED  BY <2>1, <2>2 DEF Thread
<1> QED  BY <1>1, <1>3, <1>4 DEF IInv, Table, Thread

\* launch_updater preserves the invariant: the updater comes into being for a
\* job that is running and that nothing was done about.
LEMMA LaunchStep ==
  ASSUME IInv, LaunchUpdater
  PROVE  IInv'
<1>0. CASE UNCHANGED <<transition, ran, updater>>
  BY <1>0, CycleEnds DEF LaunchUpdater, IInv, TypeOK
<1>1. CASE Launch(work.job)
  <2> DEFINE j == work.job
  <2>1. /\ j \in Lifecycle
        /\ job[j].status = "running"
        /\ Untouched(j)
        /\ ran' = [ran EXCEPT ![j] = 1]
        /\ updater' = [updater EXCEPT ![j] = "launched"]
        /\ request' = NoRequest /\ reply' = NoReply /\ late' = late
        /\ pc' = "idle" /\ work' = NoFile
        /\ transition' = TRUE
        /\ UNCHANGED <<portalVars, service, pendingLifecycle, pendingAction,
             installVars>>
    <3>1. job[j].status = "running" /\ Untouched(j)
      BY DEF LaunchUpdater, IInv, AcceptedUntouched
    <3>2. j \in Lifecycle /\ ran' = [ran EXCEPT ![j] = 1] /\
            updater' = [updater EXCEPT ![j] = "launched"] /\ transition' = TRUE
      BY <1>1, <3>1 DEF LaunchUpdater, Launch, Untouched
    <3> QED  BY <3>1, <3>2 DEF LaunchUpdater, HangUp, EndCycle
  <2>2. TypeOK'
    BY <2>1, JobKinds
       DEF IInv, TypeOK, portalVars, authorityVars, installVars, Replies,
           Places, Works, UpdaterStates
  <2>3. /\ TellsNoMore
        /\ \A k \in Jobs : Untold(k) => Untold(k)'
    <3>1. TellsNoMore
      BY <2>1, JobKinds DEF TellsNoMore, Tells, NoRequest, Message, NoFile, File
    <3> QED  BY <3>1 DEF TellsNoMore, Untold
  <2>4. job' = job /\ \A k \in Jobs \ {j} : ran'[k] = ran[k] /\
          updater'[k] = updater[k]
    BY <2>1, JobKinds DEF IInv, TypeOK, portalVars
  <2>5. ran'[j] = 1 /\ updater'[j] = "launched"
    BY <2>1, JobKinds DEF IInv, TypeOK
  <2>6. \A k \in Jobs \ {j} : Untouched(k) => Untouched(k)'
    BY <2>3, <2>4 DEF Untouched
  <2>7. RunOnce' /\ WaitingUntouched'
    BY <2>1, <2>4, <2>5, <2>6 DEF IInv, RunOnce, WaitingUntouched
  <2>8. OneStory'
    BY <2>3, <2>4, JobKinds DEF IInv, OneStory, TellsNoMore
  <2>9. OneActive'
    BY <2>4 DEF IInv, OneActive, Active
  <2>10. EarlyUntold'
    BY <2>1, <2>3, <2>4, JobKinds DEF IInv, EarlyUntold, Untouched
  <2>11. UpdaterKinds'
    BY <2>1, <2>4, <2>5, JobKinds DEF IInv, UpdaterKinds
  <2>12. OneDepends'
    BY <2>4, <2>5, JobKinds DEF IInv, OneDepends, Depends, Saved, Replaced
  <2>13. BackupOK'
    BY <2>1, <2>3, <2>4, <2>5, JobKinds
       DEF IInv, BackupOK, BackupOf, installVars, Saved, Replaced
  <2>14. CycleOK'
    BY <2>1 DEF CycleOK, NoRequest, NoReply, Message, Document
  <2>15. FilesOK' /\ AcceptedUntouched' /\ ConfirmingUntold'
    BY <2>1 DEF IInv, FilesOK, AcceptedUntouched, ConfirmingUntold
  <2>16. InHandUntouched'
    BY <2>1, JobKinds DEF InHandUntouched, NoReply, Document, NoFile, File
  <2>17. Rises'
    BY <2>1, <2>4, <2>5, JobKinds DEF IInv, Rises, installVars, LaunchUpdater
  <2> QED
    BY <2>2, <2>7, <2>8, <2>9, <2>10, <2>11, <2>12, <2>13, <2>14, <2>15, <2>16,
       <2>17
       DEF IInv
<1> QED  BY <1>0, <1>1 DEF LaunchUpdater

\* RequestStateChange is called for a job that is running and was never
\* carried out: the invariant holds on.
LEMMA ExecuteStep ==
  ASSUME IInv, ExecuteAction
  PROVE  IInv'
<1> DEFINE j == work.job
<1>1. /\ j \in VMActions
      /\ job[j].status = "running"
      /\ Untouched(j)
      /\ ran' \in {ran, [ran EXCEPT ![j] = 1]}
      /\ pc' = "confirming"
      /\ work.result = "none"
      /\ request = NoRequest /\ reply = NoReply
      /\ UNCHANGED <<portalVars, linkVars, service, work, pendingLifecycle,
           pendingAction, transition, updater, installVars>>
  BY DEF ExecuteAction, IInv, AcceptedUntouched, Untouched, CycleOK, Holding
<1>2. TypeOK'
  <2>1. ran' \in [Jobs -> Nat]
    BY <1>1, JobKinds DEF IInv, TypeOK
  <2> QED
    BY <1>1, <2>1
       DEF IInv, TypeOK, portalVars, authorityVars, installVars, linkVars,
           Places
<1>3. \A k \in Jobs, result \in Finals : Tells(k, result)' <=> Tells(k, result)
  BY <1>1 DEF Tells, linkVars
<1>4. \A k \in Jobs : Untold(k) => Untold(k)'
  BY <1>3 DEF Untold
<1>5. job' = job /\ updater' = updater /\ \A k \in Jobs \ {j} : ran'[k] = ran[k]
  BY <1>1, JobKinds DEF IInv, TypeOK, portalVars
<1>6. ran'[j] \in {0, 1}
  BY <1>1, JobKinds DEF IInv, TypeOK, Untouched
<1>7. \A k \in Jobs \ {j} : Untouched(k) => Untouched(k)'
  BY <1>4, <1>5 DEF Untouched
<1>8. RunOnce' /\ WaitingUntouched'
  BY <1>1, <1>5, <1>6, <1>7 DEF IInv, RunOnce, WaitingUntouched
<1>9. OneStory'
  BY <1>3, <1>5, JobKinds DEF IInv, OneStory
<1>10. OneActive' /\ EarlyUntold' /\ UpdaterKinds'
  BY <1>4, <1>5, JobKinds DEF IInv, OneActive, Active, EarlyUntold, UpdaterKinds
<1>11. OneDepends' /\ BackupOK'
  BY <1>1, <1>4, <1>5, JobKinds
     DEF IInv, OneDepends, Depends, BackupOK, BackupOf, installVars
<1>12. CycleOK'
  BY <1>1
     DEF IInv, CycleOK, linkVars, Holding, NoRequest, Message, Reporting,
         NoReply, Document
<1>13. FilesOK' /\ AcceptedUntouched' /\ ConfirmingUntold'
  BY <1>1, <1>4, <1>5, JobKinds
     DEF IInv, FilesOK, AcceptedUntouched, ConfirmingUntold, Untouched
<1>14. InHandUntouched'
  BY <1>1, JobKinds DEF InHandUntouched, linkVars, NoReply, Document
<1>15. Rises'
  BY <1>1 DEF IInv, Rises, installVars
<1> QED
  BY <1>2, <1>8, <1>9, <1>10, <1>11, <1>12, <1>13, <1>14, <1>15 DEF IInv

\* What the confirmation finds is the first, and the only, story about a power
\* action.
LEMMA ConfirmStep ==
  ASSUME IInv, ConfirmAction
  PROVE  IInv'
<1> DEFINE j == work.job
<1>1. PICK r \in Finals : work' = File(j, r) /\ Send("result", j, r)
  BY DEF ConfirmAction
<1>2. /\ j \in VMActions
      /\ job[j].status = "running"
      /\ Untold(j)
      /\ pc' = "finishing"
      /\ request' = Message("result", j, r)
      /\ reply' = NoReply
      /\ late' = late
      /\ UNCHANGED <<portalVars, service, pendingLifecycle, pendingAction,
           transition, ran, updater, installVars>>
  BY <1>1 DEF ConfirmAction, IInv, ConfirmingUntold, CycleOK, Holding, Send
<1>3. TypeOK'
  <2>1. request' \in Requests /\ work' \in Works
    BY <1>1, <1>2, JobKinds DEF Requests, Message, Results, Works, File
  <2> QED
    BY <1>2, <2>1
       DEF IInv, TypeOK, portalVars, authorityVars, installVars, Replies,
           Places
<1>4. \A k \in Jobs, result \in Finals :
        Tells(k, result)' => Tells(k, result) \/ (k = j /\ result = r)
  BY <1>1, <1>2, JobKinds DEF Tells, Message, File
<1>5. \A k \in Jobs \ {j} : Untold(k) => Untold(k)'
  BY <1>4 DEF Untold
<1>6. \A k \in Jobs \ {j} : Untouched(k) => Untouched(k)'
  BY <1>2, <1>5 DEF Untouched
<1>7. RunOnce' /\ WaitingUntouched'
  BY <1>2, <1>6 DEF IInv, RunOnce, WaitingUntouched, portalVars
<1>8. OneStory'
  <2>1. job' = job /\ \A result \in Finals : ~Tells(j, result)
    BY <1>2 DEF portalVars, Untold
  <2> QED  BY <1>2, <1>4, <2>1, JobKinds DEF IInv, OneStory
<1>9. OneActive' /\ EarlyUntold' /\ UpdaterKinds'
  BY <1>2, <1>5, JobKinds
     DEF IInv, OneActive, Active, EarlyUntold, UpdaterKinds, portalVars
<1>10. OneDepends' /\ BackupOK'
  BY <1>2, <1>5, JobKinds
     DEF IInv, OneDepends, Depends, BackupOK, BackupOf, installVars,
         portalVars
<1>11. CycleOK'
  BY <1>1, <1>2
     DEF CycleOK, Holding, Message, File, Reporting, NoReply, Document
<1>12. FilesOK' /\ AcceptedUntouched' /\ ConfirmingUntold'
  BY <1>2 DEF IInv, FilesOK, AcceptedUntouched, ConfirmingUntold
<1>13. InHandUntouched'
  BY <1>1, <1>2, JobKinds DEF InHandUntouched, NoReply, Document, File
<1>14. Rises'
  BY <1>2 DEF IInv, Rises, installVars
<1> QED
  BY <1>3, <1>7, <1>8, <1>9, <1>10, <1>11, <1>12, <1>13, <1>14 DEF IInv

\* Every step of the service's main thread preserves the invariant.
LEMMA AgentStep ==
  ASSUME IInv, Agent \/ ExchangeLost \/ ServiceCrashes
  PROVE  IInv'
BY StoredSteps, EndingSteps, AcceptLifecycleStep, ReceiveBinaryStep, LaunchStep,
   AcceptActionStep, ActionAcceptedStep, ExecuteStep, ConfirmStep, ServiceSteps
   DEF Agent

-----------------------------------------------------------------------------
(* The portal.  Rows only move forward, and only a report that is told     *)
(* settles a running one.                                                  *)

\* The statuses of a row whose job was not accepted.
Unbegun == Statuses \ ({"running"} \cup Finals)

\* How a row may change.
Follows(j) ==
  \/ job'[j].status = job[j].status
  \/ /\ job[j].status \in Unbegun \ {"delivered"}
     /\ job'[j].status \in Unbegun
  \/ job[j].status = "delivered" /\ job'[j].status = "running"
  \/ /\ job[j].status = "running"
     /\ job'[j].status \in Finals
     /\ Tells(j, job'[j].status)

\* What the Agent may be answered.
Answers ==
  \/ reply' = reply
  \/ /\ reply = NoReply
     /\ request # NoRequest
     /\ reply' \in Replies
     /\ reply'.type = "assignment" =>
          /\ request.action = "cycle"
          /\ reply'.job \in Jobs => job'[reply'.job].status = "delivered"
     /\ reply'.type = "accepted" =>
          /\ request.action = "result"
          /\ request.result = "running" =>
               /\ job[request.job].status = "delivered"
               /\ job'[request.job].status = "running"

\* What a step of the portal has to do for the invariant to hold again: let
\* every row follow its predecessor, answer in kind and reach nothing of the
\* Agent.
LEMMA PortalStep ==
  ASSUME IInv, \A j \in Jobs : Follows(j), Answers, OneActive',
         job' \in [Jobs -> Rows], created' \in Seq(Jobs),
         tenantActive' \in BOOLEAN, permitted' \subseteq Actors \X Permissions,
         request' = request, late' \subseteq late, UNCHANGED agentVars
  PROVE  IInv'
<1>0. /\ UNCHANGED <<service, pc, work, pendingLifecycle, pendingAction,
           transition, ran, updater, version, registered, backup, source>>
      /\ UNCHANGED installVars
  BY DEF agentVars, cycleVars, installVars
<1>1. TypeOK'
  BY <1>0 DEF IInv, TypeOK, Answers
<1>2. TellsNoMore
  BY <1>0 DEF TellsNoMore, Tells
<1>3. /\ \A j \in Jobs : Untold(j) => Untold(j)'
      /\ \A j \in Jobs : Untouched(j) => Untouched(j)'
  BY <1>0, <1>2 DEF TellsNoMore, Untold, Untouched
<1>4. \A j \in Jobs : job[j].status = "running" /\ Untold(j) =>
        job'[j].status \in {"running"}
  BY DEF Follows, Untold, Unbegun, Finals
<1>5. RunOnce'
  BY <1>0 DEF IInv, RunOnce
<1>6. WaitingUntouched'
  BY <1>3 DEF IInv, WaitingUntouched, Follows, Unbegun
<1>7. OneStory'
  <2>1. ASSUME NEW j \in Jobs, NEW result \in Finals,
               job[j].status \in {"running", result},
               Tells(j, result), \A other \in Finals : Tells(j, other) =>
                 other = result
        PROVE  job'[j].status \in {"running", result}
    BY <2>1 DEF Follows, Unbegun, Finals
  <2> QED  BY <1>2, <2>1, JobKinds DEF IInv, OneStory, TellsNoMore
<1>8. EarlyUntold'
  BY <1>0, <1>3, <1>4, JobKinds DEF IInv, EarlyUntold
<1>9. UpdaterKinds' /\ OneDepends' /\ FilesOK'
  BY <1>0 DEF IInv, UpdaterKinds, OneDepends, Depends, FilesOK
<1>10. BackupOK'
  BY <1>0, <1>3, <1>4, JobKinds DEF IInv, BackupOK, BackupOf
<1>11. Rises'
  BY <1>0 DEF IInv, Rises
<1>12. CycleOK'
  BY <1>0 DEF IInv, CycleOK, Answers, Holding, NoReply, Document
<1>13. AcceptedUntouched'
  <2>1. CASE (pc = "accepting" /\ reply = Accepted) \/ pc = "executing"
    BY <1>0, <1>3, <1>4, <2>1, JobKinds
       DEF IInv, CycleOK, Holding, AcceptedUntouched, Untouched
  <2>2. CASE pc = "accepting" /\ reply # Accepted /\ reply' = Accepted
    <3>1. work.job \in Jobs /\ request = Message("result", work.job, "running")
      BY <2>2 DEF IInv, CycleOK, Holding
    <3>2. job[work.job].status = "delivered" /\
            job'[work.job].status = "running"
      BY <2>2, <3>1 DEF Answers, Accepted, Document, Message
    <3>3. Untouched(work.job)
      BY <3>1, <3>2 DEF IInv, WaitingUntouched, Finals
    <3> QED  BY <1>0, <1>3, <3>1, <3>2, <3>3 DEF AcceptedUntouched
  <2> QED  BY <1>0, <2>1, <2>2 DEF AcceptedUntouched
<1>14. ConfirmingUntold'
  BY <1>0, <1>3, <1>4, JobKinds DEF IInv, ConfirmingUntold, CycleOK, Holding
<1>15. InHandUntouched'
  <2>1. ASSUME NEW j \in Lifecycle, InHand(j)
        PROVE  job'[j].status \in {"delivered", "running"} /\ Untouched(j)'
    BY <1>3, <1>4, <2>1, JobKinds
       DEF IInv, InHandUntouched, Untouched, Follows, Unbegun
  <2>2. ASSUME NEW j \in Lifecycle, ~InHand(j), InHand(j)'
        PROVE  job'[j].status = "delivered" /\ Untouched(j)'
    <3>1. job'[j].status = "delivered"
      BY <1>0, <2>2, JobKinds DEF Answers, InHand
    <3>2. job[j].status \in Unbegun
      BY <3>1, JobKinds
         DEF Follows, Unbegun, Finals, Statuses, ActiveStatuses,
             OfferableStatuses
    <3> QED  BY <1>3, <3>1, <3>2, JobKinds DEF IInv, WaitingUntouched, Unbegun
  <2> QED  BY <2>1, <2>2 DEF InHandUntouched
<1> QED
  BY <1>1, <1>5, <1>6, <1>7, <1>8, <1>9, <1>10, <1>11, <1>12, <1>13, <1>14,
     <1>15
     DEF IInv

\* Withdrawal (withdraw_agent_job) cancels queued rows and leaves every other
\* status as it is.
LEMMA WithdrawRows ==
  ASSUME IInv, NEW set \in SUBSET Jobs
  PROVE  /\ Withdraw(set) \in [Jobs -> Rows]
         /\ \A j \in Jobs :
              \/ Withdraw(set)[j].status = job[j].status
              \/ job[j].status = "queued" /\
                   Withdraw(set)[j].status = "cancelled"
<1>1. job \in [Jobs -> Rows]
  BY DEF IInv, TypeOK
<1>2. \A j \in Jobs : Withdrawn(job[j]) \in Rows /\
        Withdrawn(job[j]).status \in {job[j].status,
        IF job[j].status = "queued" THEN "cancelled" ELSE job[j].status}
  BY <1>1 DEF Withdrawn, Rows, Statuses
<1> QED  BY <1>1, <1>2 DEF Withdraw

\* Every step of a user preserves the invariant.
LEMMA UserStep ==
  ASSUME IInv, User, UNCHANGED agentVars
  PROVE  IInv'
<1>1. CASE \E j \in Jobs : CreateHyperVActionJob(j) \/ CreateLifecycleJob(j)
  <2>1. PICK j \in Jobs : CreateHyperVActionJob(j) \/ CreateLifecycleJob(j)
    BY <1>1
  <2>2. Queue(j) /\ (j \in Lifecycle => \A k \in Lifecycle : ~Active(k))
    BY <2>1, JobKinds DEF CreateHyperVActionJob, CreateLifecycleJob
  <2>3. /\ job' \in [Jobs -> Rows]
        /\ job[j].status = "absent" /\ job'[j].status = "queued"
        /\ \A k \in Jobs \ {j} : job'[k] = job[k]
    BY <2>2
       DEF Queue, IInv, TypeOK, Rows, Statuses, ActiveStatuses,
           OfferableStatuses
  <2>4. \A k \in Jobs : Follows(k)
    BY <2>3
       DEF Follows, Unbegun, Statuses, ActiveStatuses, OfferableStatuses,
           Finals
  <2>5. OneActive'
    BY <2>2, <2>3, JobKinds DEF IInv, OneActive, Active
  <2> QED
    BY <2>2, <2>3, <2>4, <2>5, PortalStep
       DEF Queue, linkVars, authorityVars, IInv, TypeOK, Answers
<1>2. CASE \E set \in SUBSET Jobs : job' = Withdraw(set) /\
             UNCHANGED <<created, permitted, linkVars>> /\
             tenantActive' \in BOOLEAN
  <2>1. PICK set \in SUBSET Jobs : job' = Withdraw(set) /\
               UNCHANGED <<created, permitted, linkVars>> /\
               tenantActive' \in BOOLEAN
    BY <1>2
  <2>2. \A j \in Jobs : Follows(j)
    BY <2>1, WithdrawRows
       DEF Follows, Unbegun, Statuses, ActiveStatuses, OfferableStatuses,
           Finals
  <2>3. OneActive'
    BY <2>1, WithdrawRows, JobKinds
       DEF IInv, OneActive, Active, ActiveStatuses, OfferableStatuses
  <2> QED
    BY <2>1, <2>2, <2>3, WithdrawRows, PortalStep
       DEF linkVars, IInv, TypeOK, Answers
<1>3. CASE \E a \in Actors, p \in Permissions : ChangeMembership(a, p)
  <2>1. job' = job /\ permitted' \subseteq Actors \X Permissions
    BY <1>3 DEF ChangeMembership, IInv, TypeOK
  <2>2. OneActive' /\ \A j \in Jobs : Follows(j)
    BY <2>1 DEF IInv, OneActive, Active, Follows
  <2> QED
    BY <1>3, <2>1, <2>2, PortalStep
       DEF ChangeMembership, linkVars, IInv, TypeOK, Answers
<1>4. CASE ReactivateTenant
  <2>1. OneActive' /\ \A j \in Jobs : Follows(j)
    BY <1>4 DEF ReactivateTenant, IInv, OneActive, Active, Follows
  <2> QED
    BY <1>4, <2>1, PortalStep
       DEF ReactivateTenant, linkVars, IInv, TypeOK, Answers
<1>5. SuspendTenant \/ (\E a \in Actors : WithdrawIdentityOperations(a)) =>
        \E set \in SUBSET Jobs : job' = Withdraw(set) /\
        UNCHANGED <<created, permitted, linkVars>> /\ tenantActive' \in BOOLEAN
  BY DEF SuspendTenant, WithdrawIdentityOperations, authorityVars, IInv, TypeOK
<1>6. \A j \in Jobs : PermissionFor(j) \in Permissions
  BY DEF PermissionFor, Permissions
<1> QED
  BY <1>1, <1>2, <1>3, <1>4, <1>5, <1>6 DEF User

\* Every message the gateway processes, live or abandoned, preserves the
\* invariant.
LEMMA GatewayStep ==
  ASSUME IInv, NEW live \in BOOLEAN, NEW m, Gateway(m, live),
         UNCHANGED agentVars
  PROVE  IInv'
<1>0. ASSUME NEW d \in Replies, Arrives(m, live), Answer(m, live, d),
             \A j \in Jobs : Follows(j), OneActive', job' \in [Jobs -> Rows],
             d.type = "assignment" =>
               /\ m.action = "cycle"
               /\ d.job \in Jobs => job'[d.job].status = "delivered",
             d.type = "accepted" =>
               /\ m.action = "result"
               /\ m.result = "running" =>
                    job[m.job].status = "delivered" /\
                      job'[m.job].status = "running"
      PROVE  IInv'
  <2>1. live => m = request /\ reply = NoReply /\ reply' = d
    BY <1>0 DEF Arrives, Answer
  <2>2. ~live => reply' = reply
    BY <1>0 DEF Answer
  <2>3. m # NoRequest
    BY DEF Gateway, AnswerCycle, LifecycleArtifact,
           RecordHyperVActionResult, RecordLifecycleResult, NoRequest, Message
  <2>4. Answers
    BY <1>0, <2>1, <2>2, <2>3 DEF Answers
  <2>5. request' = request /\ late' \subseteq late /\
          UNCHANGED <<created, authorityVars>>
    BY <1>0 DEF Answer
  <2> QED  BY <1>0, <2>4, <2>5, PortalStep DEF authorityVars, IInv, TypeOK
<1>1. job' = job =>
        OneActive' /\ job' \in [Jobs -> Rows] /\ \A j \in Jobs : Follows(j)
  BY DEF IInv, TypeOK, OneActive, Active, Follows
<1>2. {NoAssignment, Accepted, Rejected} \subseteq Replies /\
        \A j \in Jobs :
        {Document("assignment", j), Document("binary", j)} \subseteq Replies
  BY DEF Replies, Document
<1>3. CASE AnswerCycle(m, live)
  <2>1. CASE OfferLifecycleJob(m, live)
    <3>1. PICK j \in FirstOfferable(Lifecycle) : job' = Deliver(job, j) /\
                 Answer(m, live, Document("assignment", j))
      BY <2>1 DEF OfferLifecycleJob
    <3>2. j \in Jobs /\ job[j].status \in OfferableStatuses
      BY JobKinds DEF FirstOfferable, Offerable
    <3>3. job' \in [Jobs -> Rows] /\ job'[j].status = "delivered" /\
            \A k \in Jobs \ {j} : job'[k] = job[k]
      BY <3>1, <3>2
         DEF Deliver, IInv, TypeOK, Rows, Statuses, ActiveStatuses,
             OfferableStatuses
    <3>4. OneActive' /\ \A k \in Jobs : Follows(k)
      BY <3>2, <3>3, JobKinds
         DEF Follows, Unbegun, Statuses, IInv, OneActive, Active,
             ActiveStatuses, OfferableStatuses, Finals
    <3> QED
      BY <1>0, <1>2, <1>3, <3>1, <3>2, <3>3, <3>4
         DEF AnswerCycle, Document
  <2>2. CASE OfferHyperVActionJob(m, live)
    <3>1. PICK withdrawn \in {{}, Unauthorized(Lifecycle)} :
           \/ \E j \in FirstOfferable(VMActions) :
                /\ job' = Deliver(Withdraw(withdrawn), j)
                /\ Answer(m, live, Document("assignment", j))
           \/ /\ job' = Withdraw(withdrawn \cup Unauthorized(VMActions))
              /\ Answer(m, live, NoAssignment)
      BY <2>2 DEF OfferHyperVActionJob
    <3>2. withdrawn \in SUBSET Jobs /\ withdrawn \subseteq Lifecycle /\
            withdrawn \cup Unauthorized(VMActions) \in SUBSET Jobs
      BY JobKinds DEF Unauthorized, FirstOfferable
    <3>3. CASE \E j \in FirstOfferable(VMActions) :
                /\ job' = Deliver(Withdraw(withdrawn), j)
                /\ Answer(m, live, Document("assignment", j))
      <4>1. PICK j \in FirstOfferable(VMActions) :
                /\ job' = Deliver(Withdraw(withdrawn), j)
                /\ Answer(m, live, Document("assignment", j))
        BY <3>3
      <4>2. j \in VMActions /\ job[j].status \in OfferableStatuses
        BY DEF FirstOfferable, Offerable
      <4>3. Withdraw(withdrawn) \in [Jobs -> Rows] /\ \A k \in Jobs :
              \/ Withdraw(withdrawn)[k].status = job[k].status
              \/ job[k].status = "queued" /\
                   Withdraw(withdrawn)[k].status = "cancelled"
        BY <3>2, WithdrawRows
      <4>4. job' \in [Jobs -> Rows] /\ job'[j].status = "delivered" /\
              \A k \in Jobs \ {j} : job'[k] = Withdraw(withdrawn)[k]
        BY <4>1, <4>2, <4>3, JobKinds
           DEF Deliver, Rows, Statuses, ActiveStatuses, OfferableStatuses
      <4>5. \A k \in Jobs : Follows(k)
        BY <4>2, <4>3, <4>4
           DEF Follows, Unbegun, Statuses, ActiveStatuses,
               OfferableStatuses, Finals
      <4>6. OneActive'
        BY <4>2, <4>3, <4>4, JobKinds
           DEF IInv, OneActive, Active, ActiveStatuses, OfferableStatuses
      <4> QED
        BY <1>0, <1>2, <1>3, <4>1, <4>2, <4>4, <4>5, <4>6, JobKinds
           DEF AnswerCycle, Document
    <3>4. CASE /\ job' = Withdraw(withdrawn \cup Unauthorized(VMActions))
               /\ Answer(m, live, NoAssignment)
      <4> DEFINE set == withdrawn \cup Unauthorized(VMActions)
      <4>1. job' \in [Jobs -> Rows] /\ \A j \in Jobs :
              \/ job'[j].status = job[j].status
              \/ job[j].status = "queued" /\ job'[j].status = "cancelled"
        BY <3>2, <3>4, WithdrawRows
      <4>2. OneActive' /\ \A k \in Jobs : Follows(k)
        BY <4>1, JobKinds
           DEF Follows, Unbegun, Statuses, IInv, OneActive, Active,
               ActiveStatuses, OfferableStatuses, Finals
      <4> QED
        BY <1>0, <1>2, <1>3, <3>4, <4>1, <4>2, JobKinds
           DEF AnswerCycle, Document, NoAssignment
    <3> QED  BY <3>1, <3>3, <3>4
  <2>3. CASE Answer(m, live, Rejected) /\ UNCHANGED job
    BY <1>0, <1>1, <1>2, <1>3, <2>3 DEF AnswerCycle, Rejected, Document
  <2> QED  BY <1>3, <2>1, <2>2, <2>3 DEF AnswerCycle
<1>4. CASE LifecycleArtifact(m, live)
  <2>1. Arrives(m, live) /\ UNCHANGED job
    BY <1>4 DEF LifecycleArtifact
  <2>2. CASE Answer(m, live, Document("binary", m.job)) /\ m.job \in Jobs
    BY <1>0, <1>1, <1>2, <2>1, <2>2 DEF Document
  <2>3. CASE Answer(m, live, Rejected)
    BY <1>0, <1>1, <1>2, <2>1, <2>3 DEF Rejected, Document
  <2>4. m.action = "artifact" => m.job \in Jobs
    BY <2>1, JobKinds DEF Arrives, IInv, TypeOK, Requests, NoRequest, Message
  <2> QED  BY <1>4, <2>2, <2>3, <2>4 DEF LifecycleArtifact
<1>5. CASE RecordHyperVActionResult(m, live) \/ RecordLifecycleResult(m, live)
  <2>1. Arrives(m, live) /\ m.action = "result"
    BY <1>5 DEF RecordHyperVActionResult, RecordLifecycleResult
  <2>2. m \in late \cup {request} /\ m.job \in Jobs /\ m.result \in Results
    BY <2>1 DEF Arrives, IInv, TypeOK, Requests, NoRequest, Message
  <2>3. CASE Answer(m, live, Rejected) /\ UNCHANGED job
    BY <1>0, <1>1, <1>2, <2>1, <2>3 DEF Rejected, Document
  <2>4. CASE /\ Takes(job[m.job], m.result)
             /\ job' = [job EXCEPT ![m.job].status = m.result]
             /\ Answer(m, live, Accepted)
    <3>1. job' \in [Jobs -> Rows] /\ job'[m.job].status = m.result /\
            \A k \in Jobs \ {m.job} : job'[k] = job[k]
      BY <2>2, <2>4 DEF IInv, TypeOK, Rows, Statuses, Results, ActiveStatuses
    <3>2. m.result \in Finals => Tells(m.job, m.result)
      BY <2>2 DEF Tells
    <3>3. Active(m.job)
      BY <2>4 DEF Active, Takes, ActiveStatuses, OfferableStatuses
    <3>4. \A k \in Jobs : Follows(k)
      BY <2>2, <2>4, <3>1, <3>2 DEF Follows, Takes, Results
    <3>5. OneActive'
      BY <2>2, <3>1, <3>3, JobKinds DEF IInv, OneActive, Active
    <3> QED
      BY <1>0, <1>2, <2>1, <2>4, <3>1, <3>4, <3>5
         DEF Accepted, Document, Takes
  <2> QED
    BY <1>5, <2>3, <2>4
       DEF RecordHyperVActionResult, RecordLifecycleResult, RecordResult
<1> QED  BY <1>3, <1>4, <1>5 DEF Gateway

-----------------------------------------------------------------------------
(* The updaters and a restart of the host.  One updater at a time depends  *)
(* on the rollback file.                                                   *)

\* The stages in which an updater has told its outcome.
Telling == {"recorded", "restarting"} \cup Ended

\* What the invariant says of the rollback file.
BackupGroup == OneDepends /\ BackupOK /\ Rises

\* Updater j moves on to a later stage of its kind.
Moves(j, to) ==
  /\ updater[j] # "none"
  /\ to \in UpdaterStates \ {"none", "launched"}
  /\ updater' = [updater EXCEPT ![j] = to]
  /\ to \in Early => updater[j] \in Early
  /\ j \in Uninstalls => to \in {"stopping", "stopped", "removed"} \cup Ended
  /\ j \in Updates => to # "removed"

\* What an updater may change besides.
Besides(j, to) ==
  /\ UNCHANGED <<created, authorityVars, request, reply, pc, work,
       pendingAction, transition, ran>>
  /\ late' \subseteq Requests
  /\ service' \in ServiceStates
  /\ pendingLifecycle' \in {pendingLifecycle} \cup {File(j, r) : r \in Finals}
  /\ version' \in Nat \ {0}
  /\ registered' \in Nat
  /\ backup' \in Nat
  /\ source' \in [Updates -> Nat]
  /\ \A k \in Jobs, r \in Finals :
       Tells(k, r)' => Tells(k, r) \/ (k = j /\ to \in Telling)

\* What a step of an updater has to do for the invariant to hold again: move
\* on as one of its kind, tell nothing but its own outcome, and keep what the
\* rollback file is for.
LEMMA UpdaterMoves ==
  ASSUME IInv, NEW j \in Lifecycle, NEW to, Moves(j, to), Besides(j, to),
         \/ job' = job
         \/ /\ job' = [job EXCEPT ![j].status = "succeeded"]
            /\ job[j].status = "running"
            /\ to \notin Early
            /\ j \in Uninstalls,
         BackupGroup'
  PROVE  IInv'
<1>0. /\ j \in Jobs /\ j \notin VMActions
      /\ updater'[j] = to
      /\ \A k \in Jobs \ {j} : updater'[k] = updater[k]
  BY JobKinds DEF IInv, TypeOK, Moves
<1>1. TypeOK'
  <2>1. job' \in [Jobs -> Rows]
    <3>1. job \in [Jobs -> Rows]
      BY DEF IInv, TypeOK
    <3>2. [job[j] EXCEPT !.status = "succeeded"] \in Rows
      BY <1>0, <3>1 DEF Rows, Statuses, Finals
    <3>3. CASE job' = job
      BY <3>1, <3>3
    <3>4. CASE job' = [job EXCEPT ![j] = [job[j] EXCEPT !.status = "succeeded"]]
      BY <3>1, <3>2, <3>4
    <3> QED
      BY <3>1, <3>3, <3>4
  <2>2. pendingLifecycle' \in Files
    BY <1>0 DEF Besides, IInv, TypeOK, Files, File
  <2> QED
    BY <2>1, <2>2 DEF IInv, TypeOK, Besides, Moves, authorityVars
<1>2. /\ \A k \in Jobs \ {j} : Untold(k) => Untold(k)'
      /\ to \in Early => (Untold(j) => Untold(j)')
  <2>1. to \in Early => to \notin Telling
    BY DEF Early, Telling, Ended
  <2> QED  BY <1>0, <2>1 DEF Besides, Untold
<1>3. \A k \in Jobs \ {j} : job'[k] = job[k] /\ (Untouched(k) => Untouched(k)')
  BY <1>0, <1>2 DEF IInv, TypeOK, Untouched, Besides
<1>4. job[j].status \in {"running"} \cup Finals /\ ~Untouched(j) /\ ~InHand(j)
  BY <1>0 DEF IInv, WaitingUntouched, InHandUntouched, Untouched, Moves
<1>5. job'[j].status \in {"running"} \cup Finals /\
        (job'[j].status = "running" => job[j].status = "running")
  <2>1. CASE job' = job
    BY <1>4, <2>1
  <2>2. CASE job' = [job EXCEPT ![j].status = "succeeded"]
    BY <1>0, <2>2 DEF IInv, TypeOK, Rows, Finals
  <2> QED  BY <2>1, <2>2
<1>6. RunOnce' /\ FilesOK'
  BY DEF IInv, RunOnce, FilesOK, Besides, File
<1>7. WaitingUntouched'
  BY <1>3, <1>5 DEF IInv, WaitingUntouched
<1>8. OneStory'
  BY <1>0, <1>3, JobKinds DEF IInv, OneStory, Besides
<1>9. OneActive'
  BY <1>3, <1>5, JobKinds
     DEF IInv, OneActive, Active, ActiveStatuses, OfferableStatuses, Finals
<1>10. EarlyUntold'
  <2>1. to \in Early => job[j].status = "running" /\ Untold(j) /\ job' = job
    BY DEF IInv, EarlyUntold, Moves
  <2> QED  BY <1>0, <1>2, <1>3, <2>1, JobKinds DEF IInv, EarlyUntold
<1>11. UpdaterKinds'
  BY <1>0, JobKinds DEF IInv, UpdaterKinds, Moves
<1>12. CycleOK'
  BY DEF IInv, CycleOK, Besides, Holding
<1>13. AcceptedUntouched'
  <2>1. CASE (pc = "accepting" /\ reply = Accepted) \/ pc = "executing"
    <3>1. work.job \in Jobs \ {j}
      BY <1>4, <2>1, JobKinds DEF IInv, CycleOK, Holding, AcceptedUntouched
    <3> QED  BY <1>3, <2>1, <3>1 DEF IInv, AcceptedUntouched, Besides
  <2> QED  BY <2>1 DEF AcceptedUntouched, Besides
<1>14. ConfirmingUntold'
  <2>1. CASE pc = "confirming"
    <3>1. work.job \in Jobs \ {j}
      BY <1>0, <2>1, JobKinds DEF IInv, CycleOK, Holding
    <3> QED  BY <1>2, <1>3, <2>1, <3>1 DEF IInv, ConfirmingUntold, Besides
  <2> QED  BY <2>1 DEF ConfirmingUntold, Besides
<1>15. InHandUntouched'
  BY <1>0, <1>3, <1>4, JobKinds DEF IInv, InHandUntouched, InHand, Besides
<1> QED
  BY <1>1, <1>6, <1>7, <1>8, <1>9, <1>10, <1>11, <1>12, <1>13, <1>14, <1>15
     DEF IInv, BackupGroup

\* The rollback file of an update that is about to replace the binary holds
\* the installed version, which is earlier than the update's.
LEMMA SavedBounds ==
  ASSUME IInv, NEW k \in Updates, updater[k] \in Saved
  PROVE  backup = version /\ backup > 0 /\ backup < Version[k] /\
           backup <= version
<1>1. version \in Nat /\ version # 0 /\ Version[k] \in Nat
  BY VersionAssumption DEF IInv, TypeOK
<1>2. Version[k] > version
  BY DEF IInv, Rises
<1>3. version > 0 /\ version < Version[k] /\ version <= version
  BY <1>1, <1>2
<1>4. backup = version
  BY DEF IInv, BackupOK, BackupOf
<1> QED  BY <1>3, <1>4, Zenon

\* An updater that changes neither the binary nor the rollback file keeps what
\* is said of them.
LEMMA BackupKept ==
  ASSUME IInv, NEW j \in Lifecycle, NEW to, Moves(j, to), Besides(j, to),
         job' = job, UNCHANGED <<version, backup>>,
         to \in Saved => updater[j] \in Saved \/ (j \in Uninstalls),
         to \in Replaced => updater[j] \in Replaced,
         to = "rolling back" => updater[j] \in {"stopped"} \cup Replaced
  PROVE  BackupGroup'
<1>0. /\ j \in Jobs
      /\ updater'[j] = to
      /\ \A k \in Jobs \ {j} : updater'[k] = updater[k]
  BY JobKinds DEF IInv, TypeOK, Moves
<1>1. \A k \in Updates : Depends(k)' => Depends(k)
  BY <1>0, JobKinds DEF Depends, Saved, Replaced
<1>2. OneDepends'
  BY <1>1 DEF IInv, OneDepends
<1>3. \A k \in Jobs \ {j} : Untold(k) => Untold(k)'
  BY DEF Besides, Untold
<1>4. ASSUME j \in Updates, updater[j] \in Saved, to = "rolling back"
      PROVE  job[j].status = "running" /\ Untold(j)'
  <2>1. job[j].status = "running" /\ Untold(j)
    BY <1>4 DEF IInv, EarlyUntold, Saved, Early
  <2>2. Untold(j) => Untold(j)'
    BY <1>0, <1>4 DEF Untold, Besides, Telling, Ended
  <2> QED  BY <2>1, <2>2
<1>5. BackupOK'
  <2>1. ASSUME NEW k \in Updates
        PROVE  BackupOf(k)'
    <3>1. BackupOf(k) /\ version \in Nat \ {0} /\ Version[k] \in Nat
      BY VersionAssumption DEF IInv, BackupOK, TypeOK
    <3>2. CASE k # j
      BY <1>0, <1>3, <3>1, <3>2, JobKinds DEF BackupOf
    <3>3. CASE k = j /\ updater[j] \in Saved
      <4>1. backup > 0 /\ backup < Version[k] /\ backup <= version
        BY <3>3, SavedBounds
      <4>2. backup = version
        BY <3>1, <3>3 DEF BackupOf
      <4>3. to = "rolling back" => job[j].status = "running" /\ Untold(j)'
        BY <1>4, <3>3
      <4>4. to \notin Replaced
        BY <3>3 DEF Saved, Replaced
      <4> QED  BY <1>0, <3>3, <4>1, <4>2, <4>3, <4>4 DEF BackupOf
    <3>4. CASE k = j /\ updater[j] \notin Saved
      BY <1>0, <3>1, <3>4, JobKinds DEF BackupOf, Saved, Replaced
    <3> QED  BY <3>2, <3>3, <3>4
  <2> QED  BY <2>1 DEF BackupOK
<1>6. Rises'
  BY <1>0, JobKinds DEF IInv, Rises, Saved, Besides, Moves
<1> QED  BY <1>2, <1>5, <1>6 DEF BackupGroup

\* The updater's steps that leave the binary and the rollback file alone
\* preserve the invariant.
LEMMA PlainSteps ==
  ASSUME IInv, NEW j \in Lifecycle,
         \/ StopService(j)
         \/ SeeStopped(j)
         \/ StopRefused(j)
         \/ StopTimesOut(j)
         \/ SetDisplayVersion(j)
         \/ StartService(j)
         \/ UpdateFails(j)
         \/ ResetDisplayVersion(j)
         \/ RestartService(j)
         \/ RestartFails(j)
         \/ RemoveRegistration(j)
         \/ RemoveFails(j)
  PROVE  IInv'
<1>0. j \in Jobs /\ (j \in Updates <=> j \notin Uninstalls)
  BY JobKinds DEF Lifecycle
<1>1. /\ j \in Uninstalls =>
           updater[j] \in {"none", "launched", "stopping", "stopped",
           "removed"} \cup Ended
      /\ j \in Updates => updater[j] # "removed"
  BY DEF IInv, UpdaterKinds
<1>2. /\ UNCHANGED <<portalVars, pc, work, pendingAction, transition, ran,
           linkVars, pendingLifecycle, version, backup>>
      /\ service' \in ServiceStates
      /\ registered' \in Nat
      /\ source' = source
  <2>1. /\ UNCHANGED <<portalVars, pc, work, pendingAction, transition, ran,
             linkVars, pendingLifecycle, version, backup>>
        /\ service' \in ServiceStates
        /\ source' = source
    BY DEF StopService, SeeStopped, StopRefused, StopTimesOut,
           SetDisplayVersion, StartService, UpdateFails, ResetDisplayVersion,
           RestartService, RestartFails, RemoveRegistration, RemoveFails, Step,
           Started, installVars, ServiceStates, IInv, TypeOK
  <2>2. SetDisplayVersion(j) => registered' \in Nat
    BY <1>0, <1>1, VersionAssumption DEF SetDisplayVersion, Step, Ended
  <2>3. ResetDisplayVersion(j) => registered' \in Nat
    BY <1>0, <1>1 DEF ResetDisplayVersion, Step, Ended, IInv, TypeOK
  <2>4. registered \in Nat
    BY DEF IInv, TypeOK
  <2>5. RemoveRegistration(j) => registered' \in Nat
    BY DEF RemoveRegistration
  <2> QED
    BY <2>1, <2>2, <2>3, <2>4, <2>5
       DEF StopService, SeeStopped, StopRefused, StopTimesOut, StartService,
           UpdateFails, RestartService, RestartFails, RemoveFails, installVars
<1> DEFINE Goes(to) ==
        /\ updater' = [updater EXCEPT ![j] = to]
        /\ \/ /\ updater[j] \in {"launched", "checked", "stopping"}
              /\ to \in {"stopping", "stopped", "failed", "recording"}
           \/ updater[j] = "replaced" /\ to = "registered"
           \/ updater[j] = "recorded" /\ to = "starting"
           \/ updater[j] \in {"stopped"} \cup Replaced /\ to = "rolling back"
           \/ updater[j] = "resetting" /\ to = "recording"
           \/ updater[j] = "restarting" /\ to = "failed"
           \/ updater[j] = "stopped" /\ to \in {"removed", "failed"}
        /\ j \in Updates => updater[j] # "launched" /\ to # "removed"
        /\ j \in Uninstalls /\ to \in {"recording", "rolling back"} =>
             updater[j] = "resetting"
<1>3. PICK to : Goes(to)
  <2>1. CASE StopService(j) \/ SeeStopped(j)
    BY <1>0, <2>1 DEF StopService, SeeStopped, Step
  <2>2. CASE StopRefused(j) \/ StopTimesOut(j)
    BY <1>0, <2>2 DEF StopRefused, StopTimesOut, Step
  <2>3. CASE SetDisplayVersion(j) \/ StartService(j)
    BY <1>0, <2>3 DEF SetDisplayVersion, StartService, Step
  <2>4. CASE UpdateFails(j)
    BY <1>0, <2>4 DEF UpdateFails, Step, Replaced
  <2>5. CASE ResetDisplayVersion(j)
    BY <1>0, <2>5 DEF ResetDisplayVersion, Step
  <2>6. CASE RestartService(j) \/ RestartFails(j)
    BY <1>0, <2>6 DEF RestartService, RestartFails, Step
  <2>7. CASE RemoveRegistration(j) \/ RemoveFails(j)
    BY <1>0, <2>7 DEF RemoveRegistration, RemoveFails, Step
  <2> HIDE DEF Goes
  <2> QED
    BY <2>1, <2>2, <2>3, <2>4, <2>5, <2>6, <2>7
<1>4. /\ updater[j] # "none"
      /\ to \in UpdaterStates \ {"none", "launched"}
      /\ updater' = [updater EXCEPT ![j] = to]
      /\ to \in Early => updater[j] \in Early
      /\ j \in Uninstalls =>
           to \in {"stopping", "stopped", "removed"} \cup Ended
      /\ j \in Updates => to # "removed"
      /\ to \in Saved => updater[j] \in Saved \/ j \in Uninstalls
      /\ to \in Replaced => updater[j] \in Replaced
      /\ to = "rolling back" => updater[j] \in {"stopped"} \cup Replaced
  BY <1>0, <1>1, <1>3
     DEF UpdaterStates, Ended, Early, Saved, Replaced
<1> HIDE DEF Goes
<1>5. Besides(j, to)
  BY <1>2 DEF Besides, Tells, IInv, TypeOK, portalVars, authorityVars, linkVars
<1>6. Moves(j, to) /\ job' = job
  BY <1>2, <1>4 DEF Moves, portalVars
<1>7. BackupGroup'
  BY <1>2, <1>4, <1>5, <1>6, BackupKept
<1> QED  BY <1>5, <1>6, <1>7, UpdaterMoves

\* apply_update's checks preserve the invariant: while the rollback file is
\* another binary than the installed one, and is needed, no other update
\* passes them.
LEMMA CheckUpdateStep ==
  ASSUME IInv, NEW j \in Lifecycle, CheckUpdate(j)
  PROVE  IInv'
<1>0. /\ j \in Jobs /\ j \in Updates /\ j \notin Uninstalls
      /\ updater[j] = "launched"
      /\ updater' = [updater EXCEPT ![j] = "checked"]
      /\ backup \in {0, version} /\ backup' = version
      /\ UNCHANGED <<portalVars, pc, work, pendingAction, transition, ran,
           linkVars, service, pendingLifecycle, version, registered>>
      /\ source' = [source EXCEPT ![j] = registered]
  BY JobKinds DEF CheckUpdate, Step, SaveBackup
<1>1. Moves(j, "checked")
  BY <1>0 DEF Moves, UpdaterStates, Early
<1>2. Besides(j, "checked")
  <2>1. \A k \in Jobs, r \in Finals : Tells(k, r)' => Tells(k, r)
    BY <1>0 DEF Tells, linkVars
  <2>2. source' \in [Updates -> Nat] /\ backup' \in Nat
    BY <1>0 DEF IInv, TypeOK
  <2> QED
    BY <1>0, <2>1, <2>2
       DEF Besides, IInv, TypeOK, portalVars, authorityVars, linkVars
<1>3. /\ updater'[j] = "checked"
      /\ \A k \in Jobs \ {j} : updater'[k] = updater[k]
  BY <1>0 DEF IInv, TypeOK
<1>4. \A k \in Updates : ~Depends(k)
  <2>1. ASSUME NEW k \in Updates, Depends(k)
        PROVE  FALSE
    <3>1. k # j
      BY <1>0, <2>1 DEF Depends, Saved, Replaced
    <3>2. job[k].status # "running"
      BY <1>0, <3>1, JobKinds
         DEF IInv, EarlyUntold, Early, OneActive, Active, ActiveStatuses
    <3>3. updater[k] \notin Saved \cup Early
      BY <3>2, JobKinds DEF IInv, EarlyUntold, Saved, Early
    <3>4. version = Version[k] /\ backup > 0 /\ backup < Version[k]
      BY <2>1, <3>2, <3>3 DEF IInv, BackupOK, BackupOf, Depends
    <3>5. backup # 0 /\ backup # version
      BY <3>4 DEF IInv, TypeOK
    <3> QED  BY <1>0, <3>5
  <2> QED  BY <2>1
<1>5. OneDepends'
  BY <1>3, <1>4, JobKinds DEF OneDepends, Depends
<1>6. BackupOK'
  <2>1. \A k \in Updates \ {j} : ~Depends(k)'
    BY <1>3, <1>4, JobKinds DEF Depends
  <2>2. BackupOf(j)'
    BY <1>0, <1>3 DEF BackupOf, Saved, Replaced
  <2> QED  BY <2>1, <2>2 DEF BackupOK, BackupOf, Depends
<1>7. Rises'
  BY <1>0, <1>3, JobKinds DEF IInv, Rises, Saved
<1> QED
  BY <1>0, <1>1, <1>2, <1>5, <1>6, <1>7, UpdaterMoves
     DEF BackupGroup, portalVars

\* An update that fails its checks preserves the invariant: it has touched
\* nothing.
LEMMA CheckFailsStep ==
  ASSUME IInv, NEW j \in Lifecycle, CheckFails(j)
  PROVE  IInv'
<1>0. /\ j \in Jobs /\ j \in Updates /\ j \notin Uninstalls
      /\ updater[j] = "launched"
      /\ updater' = [updater EXCEPT ![j] = "recording"]
      /\ backup' = backup \/ (backup = 0 /\ backup' = version)
      /\ UNCHANGED <<portalVars, pc, work, pendingAction, transition, ran,
           linkVars, service, pendingLifecycle, version, registered, source>>
  BY JobKinds DEF CheckFails, Step
<1>1. Moves(j, "recording")
  BY <1>0 DEF Moves, UpdaterStates, Early
<1>2. Besides(j, "recording")
  BY <1>0 DEF Besides, Tells, IInv, TypeOK, portalVars, authorityVars, linkVars
<1>3. /\ updater'[j] = "recording"
      /\ \A k \in Jobs \ {j} : updater'[k] = updater[k]
  BY <1>0 DEF IInv, TypeOK
<1>4. \A k \in Jobs : Untold(k) => Untold(k)'
  BY <1>0 DEF Untold, Tells, linkVars
<1>5. \A k \in Updates : Depends(k)' => k # j /\ Depends(k)
  BY <1>3, JobKinds DEF Depends, Saved, Replaced
<1>6. \A k \in Updates : Depends(k) => backup # 0
  <2>1. \A k \in Updates : Depends(k) => backup > 0
    BY SavedBounds DEF IInv, BackupOK, BackupOf, Depends
  <2> QED  BY <2>1 DEF IInv, TypeOK
<1>7. OneDepends'
  BY <1>5 DEF IInv, OneDepends
<1>8. BackupOK'
  <2>1. ASSUME NEW k \in Updates, Depends(k)'
        PROVE  BackupOf(k)'
    <3>1. k \in Jobs \ {j} /\ backup' = backup /\ BackupOf(k)
      BY <1>0, <1>5, <1>6, <2>1, JobKinds DEF IInv, BackupOK
    <3> QED  BY <1>0, <1>3, <1>4, <3>1 DEF BackupOf, portalVars
  <2> QED  BY <2>1 DEF BackupOK, BackupOf, Depends
<1>9. Rises'
  BY <1>0, <1>3, JobKinds DEF IInv, Rises, Saved
<1> QED
  BY <1>0, <1>1, <1>2, <1>7, <1>8, <1>9, UpdaterMoves
     DEF BackupGroup, portalVars

\* Replacing the binary preserves the invariant: the rollback file still holds
\* the binary it replaces.
LEMMA ReplaceBinaryStep ==
  ASSUME IInv, NEW j \in Lifecycle, ReplaceBinary(j)
  PROVE  IInv'
<1>0. /\ j \in Jobs /\ j \in Updates /\ j \notin Uninstalls
      /\ updater[j] = "stopped"
      /\ updater' = [updater EXCEPT ![j] = "replaced"]
      /\ version' = Version[j]
      /\ UNCHANGED <<portalVars, pc, work, pendingAction, transition, ran,
           linkVars, service, pendingLifecycle, backup, registered, source>>
  BY JobKinds DEF ReplaceBinary, Step
<1>1. Moves(j, "replaced")
  BY <1>0 DEF Moves, UpdaterStates, Early
<1>2. Besides(j, "replaced")
  BY <1>0, VersionAssumption
     DEF Besides, Tells, IInv, TypeOK, portalVars, authorityVars, linkVars
<1>3. /\ updater'[j] = "replaced"
      /\ \A k \in Jobs \ {j} : updater'[k] = updater[k]
  BY <1>0 DEF IInv, TypeOK
<1>4. \A k \in Updates \ {j} : ~Depends(k) /\ ~Depends(k)'
  BY <1>0, <1>3, JobKinds DEF IInv, OneDepends, Depends, Saved
<1>5. OneDepends'
  BY <1>4 DEF OneDepends
<1>6. BackupOK'
  <2>1. backup > 0 /\ backup < Version[j]
    BY <1>0, SavedBounds DEF Saved
  <2>2. backup <= Version[j]
    BY <1>0, <2>1, VersionAssumption DEF IInv, TypeOK
  <2>3. BackupOf(j)'
    BY <1>0, <1>3, <2>1, <2>2 DEF BackupOf, Saved, Replaced
  <2> QED  BY <1>4, <2>3 DEF BackupOK, BackupOf, Depends
<1>7. Rises'
  <2>1. \A k \in Lifecycle \ {j} : ~Active(k)
    BY <1>0, JobKinds
       DEF IInv, EarlyUntold, Early, OneActive, Active, ActiveStatuses
  <2>2. \A k \in Updates \ {j} : ~InHand(k) /\ updater[k] \notin Early
    BY <2>1, JobKinds
       DEF IInv, InHandUntouched, EarlyUntold, Active, ActiveStatuses,
           OfferableStatuses
  <2>3. ~InHand(j)
    BY <1>0 DEF IInv, InHandUntouched, Untouched
  <2> QED  BY <1>0, <1>3, <2>2, <2>3, JobKinds DEF Rises, InHand, Early, Saved
<1> QED
  BY <1>0, <1>1, <1>2, <1>5, <1>6, <1>7, UpdaterMoves
     DEF BackupGroup, portalVars

\* The outcome is told: success before the service is started, failure after
\* the way back.
LEMMA RecordStep ==
  ASSUME IInv, NEW j \in Lifecycle, RecordSuccess(j) \/ RecordFailure(j)
  PROVE  IInv'
<1>0. PICK to \in {"recorded", "restarting"} :
        /\ j \in Jobs
        /\ to = "recorded" => updater[j] = "registered"
        /\ to = "restarting" => updater[j] = "recording"
        /\ updater' = [updater EXCEPT ![j] = to]
        /\ pendingLifecycle' \in {pendingLifecycle} \cup {File(j, r) :
             r \in Finals}
        /\ UNCHANGED <<portalVars, pc, work, pendingAction, transition, ran,
             linkVars, service, version, backup, registered, source>>
  BY JobKinds DEF RecordSuccess, RecordFailure, Step, installVars, Finals
<1>1. Moves(j, to)
  BY <1>0, JobKinds DEF Moves, UpdaterStates, Early, Ended, IInv, UpdaterKinds
<1>2. Besides(j, to)
  <2>1. \A k \in Jobs, r \in Finals : Tells(k, r)' => Tells(k, r) \/ k = j
    BY <1>0, JobKinds DEF Tells, linkVars, File
  <2> QED
    BY <1>0, <2>1
       DEF Besides, Telling, IInv, TypeOK, portalVars, authorityVars,
           linkVars
<1>3. BackupGroup'
  BY <1>0, <1>1, <1>2, BackupKept DEF portalVars, Saved, Replaced
<1> QED
  BY <1>0, <1>1, <1>2, <1>3, UpdaterMoves DEF portalVars

\* An updater that no longer needs the rollback file preserves the invariant:
\* nobody else does.
LEMMA DoneStep ==
  ASSUME IInv, NEW j \in Lifecycle, SeeRunning(j) \/ RestoreBinary(j)
  PROVE  IInv'
<1>0. PICK to \in {"finished", "resetting"} :
        /\ j \in Jobs
        /\ updater[j] \in {"starting", "rolling back"}
        /\ updater' = [updater EXCEPT ![j] = to]
        /\ backup' \in {0, backup}
        /\ version' = version \/
             (updater[j] = "rolling back" /\ version' = backup)
        /\ UNCHANGED <<portalVars, pc, work, pendingAction, transition, ran,
             linkVars, service, pendingLifecycle, registered, source>>
  BY JobKinds DEF SeeRunning, RestoreBinary, Step
<1>1. j \in Updates /\ j \notin Uninstalls
  BY <1>0, JobKinds DEF IInv, UpdaterKinds, Lifecycle, Ended
<1>2. BackupOf(j) /\ version \in Nat /\ backup \in Nat /\ version # 0
  BY <1>1 DEF IInv, BackupOK, TypeOK
<1>3. version' \in Nat \ {0} /\ version' <= version
  <2>1. CASE version' = version
    BY <1>2, <2>1
  <2>2. CASE updater[j] = "rolling back" /\ version' = backup
    <3>1. backup > 0 /\ backup <= version
      BY <1>2, <2>2 DEF BackupOf
    <3>2. backup \in Nat
      BY <1>2
    <3>3. backup \in Nat \ {0} /\ backup <= version
      BY <3>1, <3>2
    <3> QED  BY <2>2, <3>3, Zenon
  <2> QED  BY <1>0, <2>1, <2>2
<1>4. Moves(j, to)
  BY <1>0, <1>1 DEF Moves, UpdaterStates, Early, Ended
<1>5. Besides(j, to)
  <2>0. 0 \in Nat
    OBVIOUS
  <2>1. backup' \in Nat
    BY <1>0, <1>2, <2>0, Zenon
  <2>2. \A k \in Jobs, r \in Finals : Tells(k, r)' => Tells(k, r)
    BY <1>0 DEF Tells, linkVars
  <2> QED
    BY <1>0, <1>3, <2>1, <2>2
       DEF Besides, IInv, TypeOK, portalVars, authorityVars, linkVars
<1>6. /\ updater'[j] = to
      /\ \A k \in Jobs \ {j} : updater'[k] = updater[k]
  BY <1>0 DEF IInv, TypeOK
<1>7. \A k \in Updates : ~Depends(k)'
  BY <1>0, <1>1, <1>6, JobKinds DEF IInv, OneDepends, Depends, Saved, Replaced
<1>8. OneDepends' /\ BackupOK'
  BY <1>7 DEF OneDepends, BackupOK, BackupOf, Depends
<1>9. Rises'
  <2>1. ASSUME NEW k \in Updates, Version[k] > version
        PROVE  Version[k] > version'
    BY <1>2, <1>3, <2>1, VersionAssumption
  <2> QED  BY <1>0, <1>6, <2>1, JobKinds DEF IInv, Rises, Saved
<1> QED
  BY <1>0, <1>4, <1>5, <1>8, <1>9, UpdaterMoves DEF BackupGroup, portalVars

\* A removal tells its outcome over an exchange of its own.
LEMMA ReportStep ==
  ASSUME IInv, NEW j \in Lifecycle, ReportUninstalled(j) \/
         ReportUninstalledFails(j)
  PROVE  IInv'
<1>0. j \in Jobs /\ j \in Uninstalls /\ j \notin Updates
  BY JobKinds
     DEF ReportUninstalled, ReportUninstalledFails, Step, IInv,
         UpdaterKinds, Lifecycle
<1>1. PICK to \in {"finished", "failed"} :
        /\ updater[j] = "removed"
        /\ updater' = [updater EXCEPT ![j] = to]
        /\ \/ job' = job
           \/ job' = [job EXCEPT ![j].status = "succeeded"] /\
                job[j].status = "running"
        /\ late' \in {late, late \cup {Message("result", j, "succeeded")}}
        /\ UNCHANGED <<created, authorityVars, pc, work, pendingAction,
             transition, ran, request, reply, service, pendingLifecycle,
             installVars>>
  BY DEF ReportUninstalled, ReportUninstalledFails, Step, portalVars,
         linkVars, cycleVars, Takes
<1>2. Moves(j, to)
  BY <1>0, <1>1 DEF Moves, UpdaterStates, Early, Ended
<1>3. Besides(j, to)
  <2>1. late' \subseteq Requests
    BY <1>0, <1>1 DEF IInv, TypeOK, Requests, Message, Results, Finals
  <2>2. \A k \in Jobs, r \in Finals : Tells(k, r)' => Tells(k, r) \/ k = j
    BY <1>1 DEF Tells, Message
  <2> QED
    BY <1>1, <2>1, <2>2
       DEF Besides, Telling, Ended, IInv, TypeOK, authorityVars, installVars
<1>4. /\ updater'[j] = to
      /\ \A k \in Jobs \ {j} : updater'[k] = updater[k]
      /\ \A k \in Jobs \ {j} : job'[k] = job[k]
  BY <1>0, <1>1 DEF IInv, TypeOK
<1>5. \A k \in Jobs \ {j} : Untold(k) => Untold(k)'
  BY <1>3 DEF Besides, Untold
<1>6. BackupGroup'
  <2>1. OneDepends'
    BY <1>0, <1>4, JobKinds DEF IInv, OneDepends, Depends
  <2>2. BackupOK'
    BY <1>0, <1>1, <1>4, <1>5, JobKinds
       DEF IInv, BackupOK, BackupOf, installVars
  <2>3. Rises'
    BY <1>0, <1>1, <1>4, JobKinds DEF IInv, Rises, installVars
  <2> QED  BY <2>1, <2>2, <2>3 DEF BackupGroup
<1> QED
  BY <1>0, <1>1, <1>2, <1>3, <1>6, UpdaterMoves DEF Early

\* Every step of an updater preserves the invariant.
LEMMA UpdaterStep ==
  ASSUME IInv, NEW j \in Lifecycle, Updater(j)
  PROVE  IInv'
BY PlainSteps, CheckUpdateStep, CheckFailsStep, ReplaceBinaryStep, RecordStep,
   DoneStep, ReportStep
   DEF Updater

\* A restart of the host ends every process and changes nothing on disk.
LEMMA RestartStep ==
  ASSUME IInv, HostRestarts
  PROVE  IInv'
<1> DEFINE Cut(u) == IF u \in {"none"} \cup Ended THEN u ELSE "killed"
<1>1. /\ updater' = [j \in Jobs |-> Cut(updater[j])]
      /\ service' \in ServiceStates
      /\ request' = NoRequest /\ reply' = NoReply /\
           late' \subseteq late \cup {request}
      /\ late' \subseteq Requests
      /\ pc' = "idle" /\ work' = NoFile /\ transition' = FALSE
      /\ UNCHANGED <<portalVars, pendingLifecycle, pendingAction, ran,
           installVars>>
  BY DEF HostRestarts, ServiceStates, ProcessEnds, GiveUp, EndCycle,
         Abandoned, IInv, TypeOK, NoRequest, Message
<1>2. \A j \in Jobs : updater'[j] = updater[j] \/
        (updater[j] # "none" /\ updater'[j] = "killed" )
  BY <1>1
<1>3. TypeOK'
  <2>1. updater' \in [Jobs -> UpdaterStates]
    BY <1>1 DEF IInv, TypeOK, UpdaterStates, Ended
  <2> QED
    BY <1>1, <2>1
       DEF IInv, TypeOK, portalVars, authorityVars, installVars, Replies,
           Places, Works
<1>4. \A j \in Jobs, r \in Finals : Tells(j, r)' => Tells(j, r)
  BY <1>1, JobKinds DEF Tells, NoRequest, Message, NoFile, File
<1>5. \A j \in Jobs : (Untold(j) => Untold(j)') /\
        (Untouched(j) => Untouched(j)')
  BY <1>1, <1>2, <1>4 DEF Untold, Untouched
<1>6. RunOnce' /\ WaitingUntouched' /\ OneStory' /\ OneActive' /\ FilesOK'
  BY <1>1, <1>4, <1>5, JobKinds
     DEF IInv, RunOnce, WaitingUntouched, OneStory, OneActive, Active,
         FilesOK, portalVars
<1>7. EarlyUntold'
  BY <1>1, <1>2, <1>5, JobKinds DEF IInv, EarlyUntold, Early, portalVars
<1>8. UpdaterKinds'
  BY <1>2, JobKinds DEF IInv, UpdaterKinds, Ended
<1>9. \A j \in Updates : Depends(j)' => updater'[j] = updater[j]
  BY <1>2, JobKinds DEF Depends, Saved, Replaced
<1>10. OneDepends'
  BY <1>9 DEF IInv, OneDepends, Depends
<1>11. BackupOK'
  <2>1. ASSUME NEW j \in Updates, updater'[j] = updater[j]
        PROVE  BackupOf(j)'
    BY <1>1, <1>5, <2>1, JobKinds
       DEF IInv, BackupOK, BackupOf, portalVars, installVars
  <2> QED  BY <1>9, <2>1 DEF BackupOK, BackupOf, Depends
<1>12. CycleOK' /\ AcceptedUntouched' /\ ConfirmingUntold'
  BY <1>1
     DEF CycleOK, AcceptedUntouched, ConfirmingUntold, NoRequest, NoReply,
         Message, Document
<1>13. InHandUntouched'
  BY <1>1, JobKinds DEF InHandUntouched, InHand, NoReply, Document, NoFile, File
<1>14. Rises'
  BY <1>1, <1>2, JobKinds DEF IInv, Rises, Saved, installVars
<1> QED
  BY <1>3, <1>6, <1>7, <1>8, <1>10, <1>11, <1>12, <1>13, <1>14 DEF IInv

=============================================================================
