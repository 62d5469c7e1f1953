---------------------------- MODULE ConsoleInput ----------------------------
(***************************************************************************)
(* The thumbnail console of a virtual machine: sessions and their ordered  *)
(* input queue on the portal (apps/agent_pki/hyperv_console.py), and two   *)
(* workers of the Agent's service.  The frame worker delivers images and   *)
(* switches the input worker on and off; the input worker polls a batch of *)
(* inputs, applies one after the other and returns a receipt               *)
(* (console_input_dispatcher.hpp, console_input_worker.hpp).               *)
(*                                                                         *)
(* A row of the queue carries the number of the input that created it and  *)
(* of the one whose payload it holds.  "open" stands for the statuses      *)
(* requested and active, "lapsed" for the same past lease_expires_at, and  *)
(* "ended" for closed, failed and expired.                                 *)
(***************************************************************************)
EXTENDS Integers, Sequences, FiniteSets

CONSTANTS
  SessionCount,  \* console sessions of one Agent, in the order of creation
  None,          \* no session, answer or receipt
  MaxInputs,     \* bound on what operators enter
  QueueLimit,    \* MAX_INPUT_EVENTS
  BatchLimit,    \* MAX_INPUT_BATCH
  MaxUnrest      \* bound on stops, lost messages, failures, lost permissions

Sessions == 1 .. SessionCount
InputRows ==
  [row : 1 .. MaxInputs, input : 1 .. MaxInputs, move : BOOLEAN,
   delivered : BOOLEAN]
Batches ==
  [session : Sessions \cup {None}, rows : SUBSET InputRows,
   left : SUBSET InputRows, active : BOOLEAN]
Receipts == [session : Sessions, rows : SUBSET (1 .. MaxInputs), failed : BOOLEAN]

ASSUME ConsoleAssumption ==
  /\ SessionCount \in Nat \ {0} /\ None \notin Sessions \cup Batches \cup Receipts
  /\ MaxInputs \in Nat /\ MaxUnrest \in Nat
  /\ QueueLimit \in Nat \ {0} /\ BatchLimit \in Nat \ {0}

VARIABLES
  machine,       \* the machine of each session: the first session on it
  session,       \* HyperVConsoleSession.status
  tenantActive,  \* Tenant.status
  permitted,     \* sessions whose requester has the permission
  queue,         \* HyperVConsoleInputEvent rows per session, in the order of
                 \* their numbers (created_at)
  entry,         \* history: session, row and kind of every input
  unrest

VARIABLES
  enabled,    \* console_input_worker: enabled_ ...
  woken,      \* ... and whether activation_ has changed since its cycle began
  pc,         \* where the input worker's cycle stands
  reply,      \* the answer to its request
  batch,      \* what it applies: session, rows, those left, console_active
  receipt,    \* console_input_dispatcher: pending_
  late,       \* requests whose sender gave up
  framing,    \* where the frame worker stands
  applied,    \* history: inputs that had their effect
  life,       \* history: the inputs applied in this life of the service
  doubt       \* history: applied, not acknowledged, when the service stopped

portalVars == <<machine, session, tenantActive, permitted, queue, entry>>
workerVars == <<pc, reply, batch, receipt, late>>
switchVars == <<enabled, woken>>
effectVars == <<applied, life, doubt>>
vars == <<portalVars, unrest, switchVars, workerVars, framing, effectVars>>

Disturb == unrest < MaxUnrest /\ unrest' = unrest + 1

-----------------------------------------------------------------------------
(* Sessions and their operators (hyperv_console.py, discovery/views.py).   *)

\* ACTIVE_STATUSES, and those of them whose lease is valid
Open == {s \in Sessions : session[s] \in {"open", "lapsed"}}
Live == {s \in Sessions : session[s] = "open"}
Ended(over) == [s \in Sessions |-> IF s \in over THEN "ended" ELSE session[s]]
Rows == UNION {queue[s] : s \in Sessions}
UserStep == UNCHANGED <<unrest, switchVars, workerVars, framing, effectVars>>

\* _expire_stale_sessions
Stale == Open \ Live

Creatable(s) ==
  /\ tenantActive /\ s \in permitted /\ session[s] = "absent"
  /\ \A t \in 1 .. s - 1 : session[t] # "absent"

\* Defect: only a session whose lease is valid occupies its machine.
OpenBeside(s) ==
  /\ Creatable(s)
  /\ \A t \in Live : machine[t] # machine[s]
  /\ session' = [session EXCEPT ![s] = "open"]
  /\ UNCHANGED <<machine, tenantActive, permitted, queue, entry>>
  /\ UserStep

\* create_console_session; stale sessions of the same machine make room
CreateConsoleSession(s) ==
  LET stale == {t \in Stale : machine[t] = machine[s]} IN
  /\ Creatable(s)
  /\ \A t \in Open \ stale : machine[t] # machine[s]
  /\ session' = [Ended(stale) EXCEPT ![s] = "open"]
  /\ UNCHANGED <<machine, tenantActive, permitted, queue, entry>>
  /\ UserStep

\* renew_console_session: a lapsed lease is not revived.
RenewConsoleSession(s) ==
  /\ tenantActive /\ s \in Stale \cap permitted
  /\ session' = Ended({s})
  /\ UNCHANGED <<machine, tenantActive, permitted, queue, entry>>
  /\ UserStep

CloseConsoleSession(s) ==
  /\ tenantActive /\ s \in Open \cap permitted
  /\ session' = Ended({s})
  /\ UNCHANGED <<machine, tenantActive, permitted, queue, entry>>
  /\ UserStep

\* The row an input was entered in last.
Newest(s) == {r \in queue[s] : \A q \in queue[s] : q.row <= r.row}

\* Defect: a position replaces one that is under way to the machine.
CoalescesAnyMove(r, move) == move /\ r.move

\* Only adjacent, undelivered positions.
Coalesces(r, move) == move /\ r.move /\ ~r.delivered

\* queue_console_input
QueueConsoleInput(s) ==
  LET input == Len(entry) + 1
      Enters(move, old, row) ==
        /\ queue' = [queue EXCEPT ![s] =
                       (queue[s] \ old) \cup
                       {[row |-> row, input |-> input, move |-> move,
                         delivered |-> FALSE]}]
        /\ entry' = Append(entry, [session |-> s, move |-> move, row |-> row])
  IN
  /\ input <= MaxInputs
  /\ tenantActive /\ s \in Live \cap permitted
  /\ \E move \in BOOLEAN :
       \/ \E r \in Newest(s) : Coalesces(r, move) /\ Enters(move, {r}, r.row)
       \/ /\ \A r \in Newest(s) : ~Coalesces(r, move)
          /\ Cardinality(queue[s]) < QueueLimit
          /\ Enters(move, {}, input)
  /\ UNCHANGED <<machine, session, tenantActive, permitted>>
  /\ UserStep

\* The browser stops renewing; thirty seconds pass.
LeaseLapses(s) ==
  /\ s \in Live
  /\ session' = [session EXCEPT ![s] = "lapsed"]
  /\ UNCHANGED <<machine, tenantActive, permitted, queue, entry>>
  /\ UserStep

\* A membership ends; withdraw_identity_operations also ends the sessions of
\* the user and deletes their inputs.
WithdrawAuthority(s) ==
  /\ Disturb
  /\ s \in permitted /\ permitted' = permitted \ {s}
  /\ \/ UNCHANGED <<session, queue>>
     \/ /\ s \in Open
        /\ session' = Ended({s})
        /\ queue' = [queue EXCEPT ![s] = {}]
  /\ UNCHANGED <<machine, tenantActive, entry>>
  /\ UNCHANGED <<switchVars, workerVars, framing, effectVars>>

\* apply_tenant_status_change
SuspendTenant ==
  /\ Disturb
  /\ tenantActive /\ tenantActive' = FALSE
  /\ session' = Ended(Open)
  /\ UNCHANGED <<machine, permitted, queue, entry>>
  /\ UNCHANGED <<switchVars, workerVars, framing, effectVars>>

ReactivateTenant ==
  /\ ~tenantActive /\ tenantActive' = TRUE
  /\ UNCHANGED <<machine, session, permitted, queue, entry>>
  /\ UserStep

-----------------------------------------------------------------------------
(* The Agent's two channels at the gateway.                                *)

GatewayKeeps == UNCHANGED <<machine, tenantActive, permitted, entry>>

\* process_console_input_cycle offers from sessions with a valid lease.
\* Defect: the oldest input may be one of a session that has ended.
OldestOfAny(s) ==
  \E r \in queue[s] : \A q \in Rows : r.row <= q.row
OldestPending(s) ==
  /\ s \in Live
  /\ \E r \in queue[s] : \A t \in Live : \A q \in queue[t] : r.row <= q.row

NoBatch == [session |-> None, rows |-> {}, left |-> {}, active |-> FALSE]
FirstOf(s) ==
  {r \in queue[s] : Cardinality({q \in queue[s] : q.row <= r.row}) <= BatchLimit}
Handed(s) == {[r EXCEPT !.delivered = TRUE] : r \in FirstOf(s)}

\* "waited" says whether the sender still waits for the answer.
Answer(waited, answer) == reply' = IF waited THEN answer ELSE reply

\* An empty poll; the gateway looks again for a second, and expires stale
\* sessions only when it looks first.
PollEmpty(over, active, waited) ==
  /\ session' = Ended(over)
  /\ Answer(waited, [NoBatch EXCEPT !.active = active])
  /\ UNCHANGED queue

\* _console_assignment marks what it hands out.
PollBatch(s, over, waited) ==
  /\ session' = Ended(over)
  /\ Answer(waited, [session |-> s, rows |-> Handed(s), left |-> Handed(s),
                     active |-> TRUE])
  /\ queue' = [queue EXCEPT ![s] = (queue[s] \ FirstOf(s)) \cup Handed(s)]

InputPoll(waited) ==
  \E over \in {Stale, {}} :
    \/ /\ \A s \in Live : queue[s] = {}
       /\ PollEmpty(over, Live # {}, waited)
    \/ \E s \in Sessions :
         /\ \E t \in Live : queue[t] # {}
         /\ OldestPending(s)
         /\ CASE s \notin Live -> PollEmpty(over, TRUE, waited)
              [] s \in Live \ permitted ->
                   PollEmpty(over \cup {s}, Live # {s}, waited)
              [] OTHER -> PollBatch(s, over, waited)

\* A receipt: rows go, a failure ends the session, no batch is offered.
InputResult(r, waited) ==
  LET over == Stale \cup (IF r.failed THEN Open \cap {r.session} ELSE {}) IN
  /\ queue' = [queue EXCEPT ![r.session] =
                 {row \in queue[r.session] : row.row \notin r.rows}]
  /\ session' = Ended(over)
  /\ Answer(waited, [NoBatch EXCEPT !.active = Live \ over # {}])

InputExchange(r, waited) ==
  /\ tenantActive
  /\ IF r = None THEN InputPoll(waited) ELSE InputResult(r, waited)
  /\ GatewayKeeps
  /\ UNCHANGED <<unrest, switchVars, pc, batch, receipt, late, framing, effectVars>>

GatewayAnswers ==
  pc \in {"polling", "delivering"} /\ reply = None /\ InputExchange(receipt, TRUE)
GatewayAnswersLate == \E r \in late : InputExchange(r, FALSE)

-----------------------------------------------------------------------------
(* The input worker: console_input_worker, console_input_dispatcher::cycle *)
(* and execute_hyperv_console_inputs.                                      *)

WorkerKeeps == UNCHANGED <<portalVars, framing>>

BeginCycle ==
  /\ pc = "idle" /\ enabled
  /\ pc' = IF receipt = None THEN "polling" ELSE "delivering"
  /\ woken' = FALSE /\ reply' = None
  /\ WorkerKeeps /\ UNCHANGED <<unrest, enabled, batch, receipt, late, effectVars>>

\* A late inactive response must not erase a newer wake-up.
EndCycle(active) ==
  /\ pc' = "idle" /\ reply' = None /\ batch' = NoBatch
  /\ enabled' = (enabled /\ (active \/ woken))
  /\ UNCHANGED woken

Receipt(rows, failed) ==
  [session |-> batch.session, rows |-> rows, failed |-> failed]
RowsDone == {r.row : r \in batch.rows \ batch.left}

\* The receipt of a failure is there before the machine is touched.
ReceiveBatch ==
  /\ pc = "polling" /\ reply # None
  /\ IF reply.session = None \/ ~enabled
     THEN EndCycle(reply.active) /\ UNCHANGED receipt
     ELSE /\ pc' = "applying" /\ batch' = reply /\ reply' = None
          /\ receipt' = [session |-> reply.session, rows |-> {}, failed |-> TRUE]
          /\ UNCHANGED switchVars
  /\ WorkerKeeps /\ UNCHANGED <<unrest, late, effectVars>>

\* The inputs of a batch are applied one after the other.
First == {r \in batch.left : \A q \in batch.left : r.row <= q.row}
Effect(r) ==
  /\ applied' = applied \cup {r.input} /\ life' = Append(life, r.input)
  /\ UNCHANGED doubt

\* Deliver the receipt, unless the worker is to stop: then it is retained.
Conclude(rows, failed) ==
  /\ receipt' = Receipt(rows, failed)
  /\ IF enabled
     THEN pc' = "delivering" /\ reply' = None /\ UNCHANGED <<batch, switchVars>>
     ELSE EndCycle(batch.active)

ApplyInput ==
  /\ pc = "applying" /\ enabled
  /\ \E r \in First : Effect(r) /\ batch' = [batch EXCEPT !.left = @ \ {r}]
  /\ WorkerKeeps
  /\ UNCHANGED <<unrest, switchVars, pc, reply, receipt, late>>

BatchApplied ==
  /\ pc = "applying" /\ batch.left = {}
  /\ Conclude(RowsDone, FALSE)
  /\ WorkerKeeps /\ UNCHANGED <<unrest, late, effectVars>>

\* The worker is switched off in the middle of a batch, or of an input.
BatchCancelled ==
  /\ pc = "applying" /\ ~enabled /\ batch.left # {}
  /\ (\E r \in First : Effect(r)) \/ UNCHANGED effectVars
  /\ Conclude(RowsDone, TRUE)
  /\ WorkerKeeps /\ UNCHANGED <<unrest, late>>

\* An input fails, before or after it had its effect.
InputFails ==
  /\ pc = "applying" /\ batch.left # {}
  /\ Disturb
  /\ (\E r \in First : Effect(r)) \/ UNCHANGED effectVars
  /\ Conclude(RowsDone, TRUE)
  /\ WorkerKeeps /\ UNCHANGED late

ReceiptDelivered ==
  /\ pc = "delivering" /\ reply # None
  /\ receipt' = None
  /\ EndCycle(reply.active)
  /\ WorkerKeeps /\ UNCHANGED <<unrest, late, effectVars>>

\* An exception ends the cycle; what was sent may still arrive.
Abandon ==
  /\ pc # "idle" /\ pc' = "idle" /\ reply' = None /\ batch' = NoBatch
  /\ UNCHANGED receipt
  /\ late' = IF pc = "applying" \/ reply # None THEN late ELSE {receipt}

CycleFails ==
  /\ Disturb /\ Abandon
  /\ WorkerKeeps /\ UNCHANGED <<switchVars, effectVars>>

\* require_active_tenant
ExchangeRefused ==
  /\ ~tenantActive /\ pc \in {"polling", "delivering"} /\ reply = None
  /\ pc' = "idle"
  /\ WorkerKeeps
  /\ UNCHANGED <<unrest, switchVars, reply, batch, receipt, late, effectVars>>

\* The service stops or crashes; the receipt is in memory only.
ServiceRestarts ==
  /\ Disturb
  /\ pc' = "idle" /\ reply' = None /\ batch' = NoBatch /\ receipt' = None
  /\ late' = IF pc \in {"polling", "delivering"} /\ reply = None
             THEN {receipt} ELSE late
  /\ enabled' = FALSE /\ woken' = FALSE
  /\ framing' = "off"
  /\ life' = <<>> /\ doubt' = {i \in applied : \E r \in Rows : r.input = i}
  /\ UNCHANGED <<portalVars, applied>>

-----------------------------------------------------------------------------
(* The frame worker (windows_service.cpp) and process_console_cycle.       *)

FrameKeeps == UNCHANGED <<queue, workerVars, effectVars>> /\ GatewayKeeps

\* Telemetry is answered with a session; a cycle begins with set_active(true).
FrameWakes ==
  /\ framing = "off" /\ tenantActive /\ Open # {}
  /\ framing' = "on" /\ enabled' = TRUE /\ woken' = TRUE
  /\ UNCHANGED <<session, unrest>> /\ FrameKeeps

\* Some session is assigned, if its requester still has the permission.
FramePolled ==
  /\ framing = "on" /\ tenantActive
  /\ \/ Live = {} /\ session' = Ended(Stale) /\ framing' = "ending"
     \/ \E s \in Live :
          IF s \in permitted
          THEN session' = Ended(Stale) /\ UNCHANGED framing
          ELSE session' = Ended(Stale \cup {s}) /\ framing' = "ending"
  /\ UNCHANGED <<unrest, switchVars>> /\ FrameKeeps

\* The image of a session that was assigned, or the failure to capture one,
\* is reported.  The answer assigns a session again, which is not looked at.
FrameReported ==
  /\ framing = "on" /\ tenantActive
  /\ \E shown \in Sessions, fails \in BOOLEAN :
       LET gone == Stale \cup
             {s \in Live \cap {shown} : fails \/ s \notin permitted} IN
       /\ session[shown] # "absent"
       /\ IF fails THEN Disturb ELSE UNCHANGED unrest
       /\ \/ Open \ gone = {} /\ session' = Ended(gone)
          \/ \E s \in Open \ gone : session' = Ended(gone \cup ({s} \ permitted))
  /\ UNCHANGED framing
  /\ enabled' = TRUE /\ woken' = TRUE
  /\ FrameKeeps

FrameFails ==
  /\ framing = "on"
  /\ Disturb \/ (~tenantActive /\ UNCHANGED unrest)
  /\ framing' = "ending"
  /\ UNCHANGED <<session, switchVars>> /\ FrameKeeps

FrameEnds ==
  /\ framing = "ending" /\ framing' = "off"
  /\ enabled' = FALSE /\ woken' = TRUE
  /\ UNCHANGED <<session, unrest>> /\ FrameKeeps

-----------------------------------------------------------------------------
Placements ==
  {f \in [Sessions -> Sessions] : \A s \in Sessions : f[s] <= s /\ f[f[s]] = f[s]}

Init ==
  /\ machine \in Placements
  /\ session = [s \in Sessions |-> "absent"]
  /\ tenantActive = TRUE /\ permitted = Sessions
  /\ queue = [s \in Sessions |-> {}] /\ entry = <<>> /\ unrest = 0
  /\ enabled = FALSE /\ woken = FALSE
  /\ pc = "idle" /\ reply = None /\ batch = NoBatch
  /\ receipt = None /\ late = {}
  /\ framing = "off"
  /\ applied = {} /\ life = <<>> /\ doubt = {}

Operators ==
  \/ \E s \in Sessions :
       \/ CreateConsoleSession(s) \/ RenewConsoleSession(s)
       \/ CloseConsoleSession(s) \/ QueueConsoleInput(s)
       \/ LeaseLapses(s) \/ WithdrawAuthority(s)
  \/ SuspendTenant \/ ReactivateTenant
InputWorker ==
  \/ BeginCycle \/ ReceiveBatch \/ ApplyInput \/ BatchApplied
  \/ BatchCancelled \/ ReceiptDelivered \/ ExchangeRefused
FrameWorker ==
  FrameWakes \/ FramePolled \/ FrameReported \/ FrameEnds

Next ==
  \/ Operators \/ GatewayAnswers \/ GatewayAnswersLate
  \/ InputWorker \/ InputFails \/ CycleFails \/ ServiceRestarts
  \/ FrameWorker \/ FrameFails

Spec == Init /\ [][Next]_vars

\* The workers repeat their cycles and the gateway answers; nothing is
\* assumed of operators, of leases, or of abandoned requests.
FairSpec ==
  /\ Spec
  /\ WF_vars(GatewayAnswers) /\ WF_vars(InputWorker) /\ WF_vars(FrameWorker)

-----------------------------------------------------------------------------
\* Variables are well formed; one session at a time holds a machine, a lapsed
\* one included until it is expired (ADR-0010, "only one requested or active
\* session"); and the worker applies only while a receipt of failure is there.
TypeOK ==
  /\ machine \in Placements
  /\ session \in [Sessions -> {"absent", "open", "lapsed", "ended"}]
  /\ \A s, t \in Open : machine[s] = machine[t] => s = t
  /\ permitted \subseteq Sessions
  /\ tenantActive \in BOOLEAN /\ unrest \in 0 .. MaxUnrest
  /\ queue \in [Sessions -> SUBSET InputRows]
  /\ \A s \in Sessions : Cardinality(queue[s]) <= QueueLimit
  /\ enabled \in BOOLEAN /\ woken \in BOOLEAN
  /\ pc \in {"idle", "polling", "applying", "delivering"}
  /\ receipt = None \/ receipt \in Receipts
  /\ pc = "applying" => receipt = Receipt({}, TRUE)
  /\ framing \in {"off", "on", "ending"}

\* Inputs reach the machine in the order of entry, without gaps and once in
\* every life of the service; a later session's never before an earlier's; and
\* a position an operator has entered last is never lost to coalescing with a
\* row that is under way, nor acknowledged before it is applied.
Stream == INSTANCE InputStream
            WITH Machines <- Sessions,
                 entered <- [i \in DOMAIN entry |->
                               [session |-> entry[i].session,
                                machine |-> machine[entry[i].session],
                                move |-> entry[i].move]],
                 superseded <- {i \in DOMAIN entry :
                                  \E k \in i + 1 .. Len(entry) :
                                    entry[k].row = entry[i].row},
                 kept <- {r.input : r \in Rows},
                 over <- {s \in Sessions : session[s] = "ended"}

ImplementsInputStream == Stream!Spec

\* An input does not wait for ever: it is applied and acknowledged, or its
\* session ends.  Inputs that ended sessions leave behind, receipts that
\* cannot be delivered yet, and the worker's being switched off and on by the
\* frames do not hold it up.
Pending(i) == \E s \in Open : \E r \in queue[s] : r.row = i
QueuedInputsMove == \A i \in 1 .. MaxInputs : Pending(i) ~> ~Pending(i)

=============================================================================
