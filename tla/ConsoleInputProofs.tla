------------------------- MODULE ConsoleInputProofs -------------------------
(***************************************************************************)
(* Theorems about ConsoleInput, for any sessions, inputs and limits: its   *)
(* type invariant, and that it implements InputStream.                     *)
(***************************************************************************)
EXTENDS ConsoleInvariant, FiniteSetTheorems, SequenceTheorems, TLAPS

-----------------------------------------------------------------------------
(* Data. *)

Events == [session : Sessions, move : BOOLEAN, row : 1 .. MaxInputs]

LEMMA EntryFacts ==
  ASSUME IInv
  PROVE  /\ Len(entry) \in Nat
         /\ \A i \in Entries :
              /\ i \in Nat /\ i >= 1 /\ entry[i] \in Events
              /\ entry[i].row \in Nat /\ entry[i].session \in Sessions
         /\ entry \in Seq(Events) /\ DOMAIN entry = Entries
<1>1. entry \in Seq(Events)
  BY DEF IInv, LinkTypes, Events
<1>2. Len(entry) \in Nat /\ entry \in [1 .. Len(entry) -> Events] /\ DOMAIN entry = 1 .. Len(entry)
  BY <1>1, LenProperties
<1>3. MaxInputs \in Nat
  BY ConsoleAssumption
<1> QED
  BY <1>1, <1>2, <1>3 DEF Entries, Events

\* Rows of one session with inputs in order are in order.
LEMMA RowFacts ==
  ASSUME IInv, NEW s \in Sessions, NEW r \in queue[s]
  PROVE  /\ r \in InputRows /\ r.row \in Nat /\ r.input \in Nat
         /\ RowOK(r, s) /\ r.input \in Entries
         /\ entry[r.input].session = s /\ entry[r.input].row = r.row
         /\ entry[r.input].move = r.move
         /\ session[s] # "absent"
<1>1. r \in InputRows /\ RowOK(r, s)
  BY DEF IInv, TypeOK, RowsOK
<1>2. MaxInputs \in Nat
  BY ConsoleAssumption
<1> QED
  BY <1>1, <1>2 DEF InputRows, RowOK, HoldsEntry, IInv, EntryOK

\* Inputs of different sessions are in different rows.
LEMMA SameRow ==
  ASSUME IInv, NEW i \in Entries, NEW k \in Entries, entry[i].row = entry[k].row
  PROVE  entry[i].session = entry[k].session
<1>1. Len(entry) \in Nat /\ i \in Nat /\ k \in Nat
  BY EntryFacts
<1>2. CASE i < k
  <2>1. k \in i + 1 .. Len(entry)
    BY <1>1, <1>2 DEF Entries
  <2> QED
    BY <2>1 DEF IInv, EntryOK
<1>3. CASE k < i
  <2>1. i \in k + 1 .. Len(entry)
    BY <1>1, <1>3 DEF Entries
  <2> QED
    BY <2>1 DEF IInv, EntryOK
<1> QED
  BY <1>1, <1>2, <1>3

-----------------------------------------------------------------------------
(* Sessions end and rows go. *)

\* A row that is still there is the one it was, or has been marked.
From(q, r) ==
  /\ q.row = r.row /\ q.input = r.input /\ q.move = r.move
  /\ r.delivered => q.delivered

\* How the portal's state changes but for what operators enter: sessions are
\* created and end, rows are marked, and go when they were applied or their
\* session ends.
Ages ==
  /\ session' \in [Sessions -> {"absent", "open", "lapsed", "ended"}]
  /\ \A s \in Sessions :
       /\ session'[s] = "absent" => session[s] = "absent"
       /\ session[s] = "ended" => session'[s] = "ended"
Shrinks ==
  /\ queue' \in [Sessions -> SUBSET InputRows]
  /\ \A s \in Sessions :
       /\ IsFiniteSet(queue'[s]) /\ Cardinality(queue'[s]) <= QueueLimit
       /\ \A q \in queue'[s] : \E r \in queue[s] : From(q, r)
       /\ \A p, q \in queue'[s] : p.row = q.row => p = q
       /\ \A r \in queue[s] :
            \/ session'[s] = "ended"
            \/ r.input \in applied
            \/ \E q \in queue'[s] : q.row = r.row
Remains == UNCHANGED <<machine, entry, applied, life, doubt>>

LEMMA ShrinksEntries ==
  ASSUME IInv, Ages, Shrinks, Remains
  PROVE  EntryOK' /\ RowsOK' /\ OrderOK'
<1>1. EntryOK'
  BY EntryFacts DEF IInv, EntryOK, Ages, Remains, Entries
<1>2. \A i : Superseded(i)' <=> Superseded(i)
  BY DEF Superseded, Remains
<1>3. ASSUME NEW s \in Sessions, NEW q \in queue'[s]
      PROVE  RowOK(q, s)'
  <2>1. PICK r \in queue[s] : From(q, r)
    BY <1>3 DEF Shrinks
  <2>2. RowOK(r, s)
    BY <2>1, RowFacts
  <2>3. HoldsEntry(q, s)'
    BY <1>2, <2>1, <2>2 DEF RowOK, HoldsEntry, From, Remains, Entries
  <2>4. q.input \in applied' => q.delivered /\ q.input \in (doubt \cup Recent)'
    BY <2>1, <2>2 DEF RowOK, From, Remains, Recent
  <2>5. \A p \in queue'[s] : p.row = q.row => p = q
    BY <1>3 DEF Shrinks
  <2> QED
    BY <2>3, <2>4, <2>5 DEF RowOK
<1>4. OrderOK'
  <2>1. ASSUME NEW i \in Entries
        PROVE  \/ Over(entry[i].session)'
               \/ \E r \in queue'[entry[i].session] : r.row = entry[i].row
               \/ \E x \in applied : entry[x].row = entry[i].row
    <3> DEFINE s == entry[i].session
    <3>1. s \in Sessions
      BY EntryFacts
    <3>2. ASSUME NEW r \in queue[s], r.row = entry[i].row, r.input \in applied
          PROVE  \E x \in applied : entry[x].row = entry[i].row
      BY <3>1, <3>2, RowFacts
    <3> QED
      BY <3>1, <3>2, EntryFacts DEF IInv, OrderOK, Over, Ages, Shrinks, Remains
  <2> QED
    BY <1>2, <2>1 DEF IInv, OrderOK, Remains, Entries
<1> QED
  BY <1>1, <1>3, <1>4 DEF RowsOK

LEMMA ShrinksAgent ==
  ASSUME IInv, Ages, Shrinks, Remains
  PROVE  /\ \A c \in Receipts \cup {None} : ReceiptOK(c) => ReceiptOK(c)'
         /\ \A b \in Batches :
              b.session # None /\ BatchOK(b) => BatchOK(b)'
         /\ UNCHANGED <<receipt, batch, pc>> => RecentOK'
<1>1. \A i : Superseded(i)' <=> Superseded(i)
  BY DEF Superseded, Remains
<1>2. ASSUME NEW c \in Receipts, ReceiptOK(c)
      PROVE  ReceiptOK(c)'
  <2>1. c.session \in Sessions /\ c # None
    BY <1>2, ConsoleAssumption DEF Receipts, ReceiptOK
  <2>2. ASSUME NEW q \in queue'[c.session], q.row \in c.rows
        PROVE  q.input \in applied
    BY <1>2, <2>1, <2>2 DEF Shrinks, From, ReceiptOK
  <2> QED
    BY <1>2, <2>1, <2>2 DEF ReceiptOK, Ages, Remains, Entries
<1>3. ASSUME NEW b \in Batches, b.session # None, BatchOK(b)
      PROVE  BatchOK(b)'
  <2>1. b.session \in Sessions /\ b.rows \subseteq InputRows
    BY <1>3 DEF Batches
  <2>2. ASSUME NEW r \in b.rows
        PROVE  HoldsEntry(r, b.session)'
    BY <1>1, <1>3, <2>2 DEF BatchOK, HoldsEntry, Remains, Entries
  <2>3. ASSUME NEW r \in b.rows, NEW q \in queue'[b.session], q.row = r.row
        PROVE  q = r
    <3>1. PICK p \in queue[b.session] : From(q, p)
      BY <2>1, <2>3 DEF Shrinks
    <3>2. p = r /\ r.delivered
      BY <1>3, <2>3, <3>1 DEF BatchOK, From
    <3>3. q \in InputRows /\ r \in InputRows
      BY <2>1, <2>3 DEF Shrinks
    <3> QED
      BY <3>1, <3>2, <3>3 DEF From, InputRows
  <2>4. ASSUME NEW r \in b.left
        PROVE  LeftOK(b, r)'
    <3>1. LeftOK(b, r) /\ r \in b.rows
      BY <1>3, <2>4 DEF BatchOK
    <3>2. ASSUME NEW q \in queue'[b.session], q.input < r.input, ~Over(b.session)'
          PROVE  q.input \in Recent \/ q \in b.left
      <4>1. PICK p \in queue[b.session] : From(q, p)
        BY <2>1, <3>2 DEF Shrinks
      <4>2. p.input \in Recent \/ p \in b.left
        BY <2>1, <3>1, <3>2, <4>1 DEF LeftOK, From, Over, Ages
      <4>3. CASE p \in b.left
        BY <1>3, <2>3, <3>2, <4>1, <4>3 DEF BatchOK, From
      <4> QED
        BY <4>1, <4>2, <4>3 DEF From
    <3>3. UNCHANGED Recent
      BY DEF Remains, Recent
    <3> QED
      BY <1>1, <3>1, <3>2, <3>3 DEF LeftOK, Remains
  <2> QED
    BY <1>3, <2>1, <2>2, <2>3, <2>4 DEF BatchOK, Ages, Remains
<1>4. ASSUME UNCHANGED <<receipt, batch, pc>>
      PROVE  RecentOK'
  <2>1. UNCHANGED <<Recent, RowsDone>>
    BY <1>4 DEF Remains, Recent, RowsDone
  <2>2. ASSUME NEW s \in Sessions, NEW q \in queue'[s], ~Over(s)'
        PROVE  /\ q.input \in Recent =>
                    /\ receipt # None /\ receipt.session = s
                    /\ receipt.failed \/ q.row \in receipt.rows
                    /\ pc = "applying" => q.row \in RowsDone
               /\ \A x \in Recent :
                    entry[x].session = s /\ q.input < x => q.input \in Recent
    <3>1. PICK r \in queue[s] : From(q, r)
      BY <2>2 DEF Shrinks
    <3>2. ~Over(s)
      BY <2>2 DEF Over, Ages
    <3> QED
      BY <3>1, <3>2 DEF IInv, RecentOK, From
  <2> QED
    BY <1>4, <2>1, <2>2 DEF RecentOK, Remains
<1> QED
  BY <1>2, <1>3, <1>4 DEF ReceiptOK

-----------------------------------------------------------------------------
(* The invariant after a step that only lets the portal age. *)

\* Of two sessions on a machine the earlier has ended.
LEMMA OneOpens ==
  ASSUME SessionsOK', UNCHANGED machine
  PROVE  (\A s, t \in Open : machine[s] = machine[t] => s = t)'
<1>1. \A s \in Sessions : s \in Int
  BY ConsoleAssumption DEF Sessions
<1>2. ASSUME NEW s \in Open', NEW t \in Open', machine'[s] = machine'[t], s # t
      PROVE  FALSE
  <2>1. s < t \/ t < s
    BY <1>1, <1>2 DEF Open
  <2> QED
    BY <1>2, <2>1 DEF Open, SessionsOK, Over
<1> QED
  BY <1>2

\* No session is created.
LEMMA SessionsStay ==
  ASSUME IInv, Ages, UNCHANGED machine,
         \A s \in Sessions : session[s] = "absent" => session'[s] = "absent"
  PROVE  SessionsOK'
BY DEF IInv, SessionsOK, Ages, Over

Switches ==
  /\ enabled \in BOOLEAN /\ woken \in BOOLEAN
  /\ framing \in {"off", "on", "ending"}

LEMMA PortalTypes ==
  ASSUME IInv, Ages, Shrinks, Remains, SessionsOK', Switches',
         permitted' \subseteq permitted, tenantActive' \in BOOLEAN,
         unrest' \in 0 .. MaxUnrest, UNCHANGED <<pc, batch, receipt>>
  PROVE  TypeOK'
<1>1. (\A s, t \in Open : machine[s] = machine[t] => s = t)'
  BY OneOpens DEF Remains
<1>2. queue' \in [Sessions -> SUBSET InputRows]
      /\ \A s \in Sessions : Cardinality(queue'[s]) <= QueueLimit
  BY DEF Shrinks
<1>3. UNCHANGED Receipt({}, TRUE)
  BY DEF Receipt
<1> QED
  BY <1>1, <1>2, <1>3 DEF IInv, TypeOK, Ages, Remains, Switches

LEMMA Assemble ==
  ASSUME IInv, Ages, Shrinks, Remains,
         TypeOK', SessionsOK', CycleOK', RecentOK',
         reply' \in Batches \cup {None}, batch' \in Batches,
         late' \subseteq late \cup {receipt},
         receipt' \in late \cup {receipt, None} \/ ReceiptOK(receipt)',
         \A b \in AtHand' : b \in AtHand \/ BatchOK(b)'
  PROVE  IInv'
<1>1. EntryOK' /\ RowsOK' /\ OrderOK'
  BY ShrinksEntries
<1>2. late \cup {receipt, None} \subseteq Receipts \cup {None}
  BY DEF IInv, LinkTypes, TypeOK
<1>3. LinkTypes'
  <2>1. \A s \in Sessions : IsFiniteSet(queue'[s])
    BY DEF Shrinks
  <2>2. UNCHANGED Recent /\ UNCHANGED Entries
    BY DEF Remains, Recent, Entries
  <2> QED
    BY <1>2, <2>1, <2>2 DEF IInv, LinkTypes, Remains
<1>4. ReceiptsOK'
  <2>1. ASSUME NEW c \in late \cup {receipt, None}
        PROVE  ReceiptOK(c)'
    <3>1. ReceiptOK(c)
      BY DEF IInv, ReceiptsOK, ReceiptOK
    <3> QED
      BY <1>2, <3>1, ShrinksAgent
  <2>2. ReceiptOK(receipt)'
    BY <2>1
  <2> QED
    BY <2>1, <2>2 DEF ReceiptsOK
<1>5. BatchesOK'
  <2>1. ASSUME NEW b \in AtHand
        PROVE  b \in Batches /\ b.session # None
    BY ConsoleAssumption DEF AtHand, IInv, LinkTypes, CycleOK
  <2>2. ASSUME NEW b \in AtHand
        PROVE  BatchOK(b)'
    BY <2>1, ShrinksAgent DEF IInv, BatchesOK
  <2> QED
    BY <2>2 DEF BatchesOK
<1> QED
  BY <1>1, <1>3, <1>4, <1>5 DEF IInv

\* Steps of the portal that the Agent does not see.
LEMMA PortalKeeps ==
  ASSUME IInv, Ages, Shrinks, Remains, SessionsOK', Switches',
         permitted' \subseteq permitted, tenantActive' \in BOOLEAN,
         unrest' \in 0 .. MaxUnrest, UNCHANGED workerVars
  PROVE  IInv'
<1>1. UNCHANGED <<pc, reply, batch, receipt, late>>
  BY DEF workerVars
<1>2. TypeOK'
  BY <1>1, PortalTypes
<1>3. RecentOK'
  BY <1>1, ShrinksAgent
<1>4. CycleOK'
  <2>1. ASSUME pc = "delivering"
        PROVE  receipt.session \in Sessions
    BY <2>1 DEF IInv, CycleOK, TypeOK, Receipts
  <2>2. ASSUME pc = "delivering", reply # None, NEW q \in queue'[receipt.session]
        PROVE  q.row \notin receipt.rows
    BY <2>1, <2>2 DEF IInv, CycleOK, Shrinks, From
  <2>3. ASSUME pc = "delivering", reply # None, receipt.failed
        PROVE  Over(receipt.session)'
    BY <1>1, <2>1, <2>3 DEF IInv, CycleOK, Ages, Over
  <2> QED
    BY <1>1, <2>1, <2>2, <2>3 DEF IInv, CycleOK
<1>5. \A b \in AtHand' : b \in AtHand
  BY <1>1 DEF AtHand
<1>6. reply' \in Batches \cup {None} /\ batch' \in Batches
  BY <1>1 DEF IInv, LinkTypes
<1> QED
  BY <1>1, <1>2, <1>3, <1>4, <1>5, <1>6, Assemble

-----------------------------------------------------------------------------
(* Sessions and their operators. *)

LEMMA SameQueue ==
  ASSUME IInv, UNCHANGED queue
  PROVE  Shrinks
<1>1. \A s \in Sessions : \A p, q \in queue[s] : p.row = q.row => p = q
  BY DEF IInv, RowsOK, RowOK
<1> QED
  BY <1>1 DEF Shrinks, From, IInv, TypeOK, LinkTypes

LEMMA EndedAges ==
  ASSUME IInv, NEW over \in SUBSET Open, session' = Ended(over)
  PROVE  /\ Ages
         /\ \A s \in Sessions : session[s] = "absent" => session'[s] = "absent"
         /\ \A s \in over : Over(s)'
         /\ \A s \in Sessions \ over : session'[s] = session[s]
BY DEF IInv, TypeOK, Ages, Ended, Open, Over

LEMMA DisturbTypes ==
  ASSUME IInv, Disturb \/ UNCHANGED unrest
  PROVE  unrest' \in 0 .. MaxUnrest
BY ConsoleAssumption DEF IInv, TypeOK, Disturb

\* A step that only ends sessions, for the Agent's part.
LEMMA SessionsEnd ==
  ASSUME IInv, NEW over \in SUBSET Open, session' = Ended(over),
         UNCHANGED <<machine, queue, entry, workerVars, effectVars>>,
         permitted' \subseteq permitted, tenantActive' \in BOOLEAN,
         Disturb \/ UNCHANGED unrest, Switches'
  PROVE  IInv' /\ Ages /\ Shrinks /\ Remains
<1>1. Ages /\ Shrinks
  BY EndedAges, SameQueue
<1>2. Remains
  BY DEF Remains, effectVars
<1>3. SessionsOK'
  BY <1>1, EndedAges, SessionsStay
<1> QED
  BY <1>1, <1>2, <1>3, DisturbTypes, PortalKeeps

LEMMA SwitchesTyped ==
  ASSUME IInv
  PROVE  Switches
BY DEF IInv, TypeOK, Switches

\* "UserStep" for sessions that only end.
LEMMA UserEnds ==
  ASSUME IInv, NEW over \in SUBSET Open, session' = Ended(over),
         UNCHANGED <<machine, tenantActive, permitted, queue, entry>>,
         UNCHANGED <<switchVars, workerVars, framing, effectVars>>,
         Disturb \/ UNCHANGED unrest
  PROVE  IInv' /\ Ages /\ Shrinks /\ Remains
<1>1. Switches'
  BY SwitchesTyped DEF switchVars, Switches
<1>2. tenantActive \in BOOLEAN
  BY DEF IInv, TypeOK
<1> QED
  BY <1>1, <1>2, SessionsEnd

LEMMA RenewConsoleSessionOK ==
  ASSUME IInv, NEW s \in Sessions, RenewConsoleSession(s)
  PROVE  IInv' /\ Ages /\ Shrinks /\ Remains
<1>1. {s} \in SUBSET Open
  BY DEF RenewConsoleSession, Stale
<1> QED
  BY <1>1, UserEnds DEF RenewConsoleSession, UserStep

LEMMA CloseConsoleSessionOK ==
  ASSUME IInv, NEW s \in Sessions, CloseConsoleSession(s)
  PROVE  IInv' /\ Ages /\ Shrinks /\ Remains
<1>1. {s} \in SUBSET Open
  BY DEF CloseConsoleSession
<1> QED
  BY <1>1, UserEnds DEF CloseConsoleSession, UserStep

LEMMA SuspendTenantOK ==
  ASSUME IInv, SuspendTenant
  PROVE  IInv' /\ Ages /\ Shrinks /\ Remains
<1>1. Open \in SUBSET Open /\ tenantActive' \in BOOLEAN /\ permitted' \subseteq permitted
  BY DEF SuspendTenant
<1>2. Switches'
  BY SwitchesTyped DEF SuspendTenant, switchVars, Switches
<1> QED
  BY <1>1, <1>2, SessionsEnd DEF SuspendTenant

LEMMA ReactivateTenantOK ==
  ASSUME IInv, ReactivateTenant
  PROVE  IInv' /\ Ages /\ Shrinks /\ Remains
<1>1. {} \in SUBSET Open /\ session' = Ended({})
  BY DEF ReactivateTenant, Ended, IInv, TypeOK
<1>2. Switches'
  BY SwitchesTyped DEF ReactivateTenant, UserStep, switchVars, Switches
<1> QED
  BY <1>1, <1>2, SessionsEnd DEF ReactivateTenant, UserStep

LEMMA LeaseLapsesOK ==
  ASSUME IInv, NEW s \in Sessions, LeaseLapses(s)
  PROVE  IInv' /\ Ages /\ Shrinks /\ Remains
<1>1. Ages /\ \A t \in Sessions : session[t] = "absent" => session'[t] = "absent"
  BY DEF LeaseLapses, Live, Ages, IInv, TypeOK
<1>2. Shrinks /\ Remains /\ UNCHANGED workerVars
  BY SameQueue DEF LeaseLapses, UserStep, Remains, effectVars
<1>3. SessionsOK'
  BY <1>1, SessionsStay DEF LeaseLapses
<1>4. Switches' /\ tenantActive' \in BOOLEAN /\ permitted' \subseteq permitted
  BY SwitchesTyped DEF LeaseLapses, UserStep, switchVars, Switches, IInv, TypeOK
<1>5. unrest' \in 0 .. MaxUnrest
  BY DisturbTypes DEF LeaseLapses, UserStep
<1> QED
  BY <1>1, <1>2, <1>3, <1>4, <1>5, PortalKeeps

\* Inputs go with their session.
LEMMA WithdrawAuthorityOK ==
  ASSUME IInv, NEW s \in Sessions, WithdrawAuthority(s)
  PROVE  IInv' /\ Ages /\ Shrinks /\ Remains
<1>1. Switches' /\ tenantActive' \in BOOLEAN /\ permitted' \subseteq permitted
  BY SwitchesTyped DEF WithdrawAuthority, switchVars, Switches, IInv, TypeOK
<1>2. CASE UNCHANGED <<session, queue>>
  <2>1. {} \in SUBSET Open /\ session' = Ended({})
    BY <1>2 DEF Ended, IInv, TypeOK
  <2> QED
    BY <1>1, <1>2, <2>1, SessionsEnd DEF WithdrawAuthority
<1>3. CASE s \in Open /\ session' = Ended({s}) /\ queue' = [queue EXCEPT ![s] = {}]
  <2>1. /\ Ages /\ Over(s)'
        /\ \A t \in Sessions : session[t] = "absent" => session'[t] = "absent"
    BY <1>3, EndedAges
  <2>2. Remains /\ UNCHANGED workerVars
    BY DEF WithdrawAuthority, Remains, effectVars
  <2>3. Shrinks
    <3>1. queue \in [Sessions -> SUBSET InputRows] /\ QueueLimit \in Nat
      BY ConsoleAssumption DEF IInv, TypeOK
    <3>2. IsFiniteSet({}) /\ Cardinality({}) = 0
      BY FS_EmptySet
    <3>3. ASSUME NEW t \in Sessions, t # s
          PROVE  queue'[t] = queue[t]
      BY <1>3, <3>1, <3>3
    <3>4. queue'[s] = {} /\ queue' \in [Sessions -> SUBSET InputRows]
      BY <1>3, <3>1
    <3>5. \A t \in Sessions : \A p, q \in queue[t] : p.row = q.row => p = q
      BY DEF IInv, RowsOK, RowOK
    <3>6. \A t \in Sessions : IsFiniteSet(queue[t]) /\ Cardinality(queue[t]) <= QueueLimit
      BY DEF IInv, TypeOK, LinkTypes
    <3> QED
      BY <2>1, <3>1, <3>2, <3>3, <3>4, <3>5, <3>6 DEF Shrinks, From, Over
  <2>4. SessionsOK'
    BY <2>1, SessionsStay DEF WithdrawAuthority
  <2>5. unrest' \in 0 .. MaxUnrest
    BY DisturbTypes DEF WithdrawAuthority
  <2> QED
    BY <1>1, <2>1, <2>2, <2>3, <2>4, <2>5, PortalKeeps
<1> QED
  BY <1>2, <1>3 DEF WithdrawAuthority

\* A session is created where all others have ended.
LEMMA CreateConsoleSessionOK ==
  ASSUME IInv, NEW s \in Sessions, CreateConsoleSession(s)
  PROVE  IInv' /\ Ages /\ Shrinks /\ Remains
<1> DEFINE stale == {t \in Stale : machine[t] = machine[s]}
<1>1. session \in [Sessions -> {"absent", "open", "lapsed", "ended"}]
  BY DEF IInv, TypeOK
<1>2. session' = [Ended(stale) EXCEPT ![s] = "open"] /\ Creatable(s)
      /\ \A t \in Open \ stale : machine[t] # machine[s]
  BY DEF CreateConsoleSession
<1>3. session[s] = "absent" /\ s \notin stale
  BY <1>2 DEF Creatable, Stale, Open
<1>4. Ages
  BY <1>1, <1>2, <1>3 DEF Ages, Ended
<1>5. Shrinks /\ Remains /\ UNCHANGED workerVars
  BY SameQueue DEF CreateConsoleSession, UserStep, Remains, effectVars
<1>6. SessionsOK'
  <2>1. ASSUME NEW t \in Sessions, NEW u \in Sessions, t < u, session'[u] # "absent"
        PROVE  session'[t] # "absent" /\ (machine[t] = machine[u] => Over(t)')
    <3>1. CASE u = s
      <4>1. t # s /\ session[t] # "absent"
        BY <1>2, <2>1, <3>1, ConsoleAssumption DEF Creatable, Sessions
      <4>2. session'[t] = IF t \in stale THEN "ended" ELSE session[t]
        BY <1>1, <1>2, <4>1 DEF Ended
      <4>3. t \in Open /\ machine[t] = machine[s] => t \in stale
        BY <1>2
      <4>4. t \notin Open => session[t] = "ended"
        BY <1>1, <4>1 DEF Open
      <4> QED
        BY <3>1, <4>1, <4>2, <4>3, <4>4 DEF Over
    <3>2. CASE u # s
      <4>1. session[u] # "absent"
        BY <1>1, <1>2, <2>1, <3>2, <1>4 DEF Ages, Ended, Stale, Open
      <4>2. session[t] # "absent" /\ (machine[t] = machine[u] => Over(t))
        BY <2>1, <4>1 DEF IInv, SessionsOK
      <4> QED
        BY <1>4, <4>2 DEF Ages, Over
    <3> QED
      BY <3>1, <3>2
  <2> QED
    BY <2>1 DEF SessionsOK, CreateConsoleSession
<1>7. Switches' /\ tenantActive' \in BOOLEAN /\ permitted' \subseteq permitted
  BY SwitchesTyped DEF CreateConsoleSession, UserStep, switchVars, Switches, IInv, TypeOK
<1>8. unrest' \in 0 .. MaxUnrest
  BY DisturbTypes DEF CreateConsoleSession, UserStep
<1> QED
  BY <1>4, <1>5, <1>6, <1>7, <1>8, PortalKeeps

-----------------------------------------------------------------------------
(* The frame worker. *)

LEMMA FrameEndsSessions ==
  ASSUME IInv, NEW over \in SUBSET Open, session' = Ended(over), FrameKeeps,
         Disturb \/ UNCHANGED unrest, Switches'
  PROVE  IInv' /\ Ages /\ Shrinks /\ Remains
<1>1. tenantActive' \in BOOLEAN /\ permitted' \subseteq permitted
  BY DEF FrameKeeps, GatewayKeeps, IInv, TypeOK
<1> QED
  BY <1>1, SessionsEnd DEF FrameKeeps, GatewayKeeps

LEMMA FrameStays ==
  ASSUME IInv, UNCHANGED session, FrameKeeps,
         Disturb \/ UNCHANGED unrest, Switches'
  PROVE  IInv' /\ Ages /\ Shrinks /\ Remains
<1>1. {} \in SUBSET Open /\ session' = Ended({})
  BY DEF Ended, IInv, TypeOK
<1> QED
  BY <1>1, FrameEndsSessions

LEMMA FramePolledOK ==
  ASSUME IInv, FramePolled
  PROVE  IInv' /\ Ages /\ Shrinks /\ Remains
<1>1. Switches' /\ FrameKeeps /\ UNCHANGED unrest
  BY SwitchesTyped DEF FramePolled, switchVars, Switches
<1>2. CASE session' = Ended(Stale)
  <2>1. Stale \in SUBSET Open
    BY DEF Stale
  <2> QED
    BY <1>1, <1>2, <2>1, FrameEndsSessions
<1>3. ASSUME NEW s \in Live, session' = Ended(Stale \cup {s})
      PROVE  IInv' /\ Ages /\ Shrinks /\ Remains
  <2>1. Stale \cup {s} \in SUBSET Open
    BY <1>3 DEF Stale, Live, Open
  <2> QED
    BY <1>1, <1>3, <2>1, FrameEndsSessions
<1> QED
  BY <1>2, <1>3 DEF FramePolled

LEMMA FrameReportedOK ==
  ASSUME IInv, FrameReported
  PROVE  IInv' /\ Ages /\ Shrinks /\ Remains
<1>1. PICK shown \in Sessions, fails \in BOOLEAN :
        LET gone == Stale \cup
              {s \in Live \cap {shown} : fails \/ s \notin permitted} IN
        /\ IF fails THEN Disturb ELSE UNCHANGED unrest
        /\ \/ Open \ gone = {} /\ session' = Ended(gone)
           \/ \E s \in Open \ gone : session' = Ended(gone \cup ({s} \ permitted))
  BY DEF FrameReported
<1>2. PICK over \in SUBSET Open : session' = Ended(over)
  BY <1>1 DEF Stale, Live, Open
<1>3. Switches' /\ FrameKeeps
  BY SwitchesTyped DEF FrameReported, Switches
<1>4. Disturb \/ UNCHANGED unrest
  BY <1>1
<1> QED
  BY <1>2, <1>3, <1>4, FrameEndsSessions

LEMMA FrameWorkerOK ==
  ASSUME IInv, FrameWorker \/ FrameFails
  PROVE  IInv' /\ Ages /\ Shrinks /\ Remains
<1>1. CASE FrameWakes
  BY <1>1, SwitchesTyped, FrameStays DEF FrameWakes, Switches
<1>2. CASE FrameFails
  BY <1>2, SwitchesTyped, FrameStays DEF FrameFails, Switches, switchVars
<1>3. CASE FrameEnds
  BY <1>3, SwitchesTyped, FrameStays DEF FrameEnds, Switches
<1> QED
  BY <1>1, <1>2, <1>3, FramePolledOK, FrameReportedOK DEF FrameWorker

-----------------------------------------------------------------------------
(* The gateway. *)

LEMMA GatewayStep ==
  ASSUME IInv, Ages, Shrinks, NEW waited \in BOOLEAN, NEW answer \in Batches,
         Answer(waited, answer), GatewayKeeps, UNCHANGED <<effectVars, unrest>>,
         UNCHANGED <<switchVars, pc, batch, receipt, late, framing>>,
         \A s \in Sessions : session[s] = "absent" => session'[s] = "absent",
         waited => pc \in {"polling", "delivering"} /\ reply = None,
         waited /\ answer.session # None => pc = "polling" /\ BatchOK(answer)',
         waited /\ pc = "delivering" =>
           /\ \A r \in queue'[receipt.session] : r.row \notin receipt.rows
           /\ receipt.failed => Over(receipt.session)'
  PROVE  IInv' /\ Remains
<1>1. Remains
  BY DEF GatewayKeeps, effectVars, Remains
<1>2. SessionsOK'
  BY SessionsStay DEF GatewayKeeps
<1>3. Switches'
  BY SwitchesTyped DEF switchVars, Switches
<1>4. TypeOK'
  BY <1>1, <1>2, <1>3, PortalTypes DEF GatewayKeeps, IInv, TypeOK
<1>5. RecentOK'
  BY <1>1, ShrinksAgent
<1>6. reply' = IF waited THEN answer ELSE reply
  BY DEF Answer
<1>7. reply' \in Batches \cup {None} /\ batch' \in Batches
  BY <1>6 DEF IInv, LinkTypes
<1>8. CycleOK'
  <2>1. pc = "applying" => ~waited /\ reply' = reply
    BY <1>6
  <2>2. ASSUME pc = "delivering"
        PROVE  receipt.session \in Sessions
    BY <2>2 DEF IInv, CycleOK, TypeOK, Receipts
  <2>3. ASSUME pc = "delivering", reply' # None
        PROVE  /\ reply'.session = None
               /\ \A q \in queue'[receipt.session] : q.row \notin receipt.rows
               /\ receipt.failed => Over(receipt.session)'
    <3>1. CASE waited
      BY <1>6, <2>3, <3>1
    <3>2. CASE ~waited
      BY <1>6, <2>2, <2>3, <3>2 DEF IInv, CycleOK, Shrinks, From, Ages, Over
    <3> QED
      BY <3>1, <3>2
  <2> QED
    BY <2>1, <2>3 DEF IInv, CycleOK
<1>9. ASSUME NEW b \in AtHand'
      PROVE  b \in AtHand \/ BatchOK(b)'
  BY <1>6, <1>9 DEF AtHand
<1> QED
  BY <1>1, <1>2, <1>4, <1>5, <1>7, <1>8, <1>9, Assemble

LEMMA PollEmptyOK ==
  ASSUME IInv, NEW waited \in BOOLEAN, NEW over \in SUBSET Open,
         NEW active \in BOOLEAN, PollEmpty(over, active, waited),
         GatewayKeeps, UNCHANGED <<effectVars, unrest>>,
         UNCHANGED <<switchVars, pc, batch, receipt, late, framing>>,
         waited => pc = "polling" /\ reply = None
  PROVE  IInv' /\ Ages /\ Shrinks /\ Remains
<1> DEFINE answer == [NoBatch EXCEPT !.active = active]
<1>1. answer \in Batches /\ answer.session = None
  BY DEF NoBatch, Batches
<1>2. Ages /\ Shrinks
      /\ \A s \in Sessions : session[s] = "absent" => session'[s] = "absent"
  BY EndedAges, SameQueue DEF PollEmpty
<1>3. Answer(waited, answer)
  BY DEF PollEmpty
<1> HIDE DEF answer
<1> QED
  BY <1>1, <1>2, <1>3, GatewayStep

\* What is handed out is marked.
Marked(r) == [r EXCEPT !.delivered = TRUE]

LEMMA MarkedFacts ==
  ASSUME NEW r \in InputRows
  PROVE  /\ Marked(r) \in InputRows /\ From(Marked(r), r)
         /\ Marked(r).delivered
BY DEF Marked, InputRows, From

LEMMA FirstFacts ==
  ASSUME IInv, NEW s \in Sessions, NEW r \in FirstOf(s),
         NEW q \in queue[s], q.row <= r.row
  PROVE  q \in FirstOf(s)
<1> DEFINE upTo(n) == {p \in queue[s] : p.row <= n}
<1>1. IsFiniteSet(queue[s]) /\ \A p \in queue[s] : p.row \in Nat
  BY RowFacts DEF IInv, LinkTypes
<1>2. IsFiniteSet(upTo(r.row)) /\ IsFiniteSet(upTo(q.row))
  BY <1>1, FS_Subset
<1>3. upTo(q.row) \in SUBSET upTo(r.row)
  BY <1>1 DEF FirstOf
<1>4. Cardinality(upTo(q.row)) <= Cardinality(upTo(r.row))
  BY <1>2, <1>3, FS_Subset
<1>5. /\ Cardinality(upTo(q.row)) \in Nat /\ Cardinality(upTo(r.row)) \in Nat
      /\ BatchLimit \in Nat
  BY <1>2, FS_CardinalityType, ConsoleAssumption
<1>6. Cardinality(upTo(r.row)) <= BatchLimit
  BY DEF FirstOf
<1>7. Cardinality(upTo(q.row)) <= BatchLimit
  BY <1>4, <1>5, <1>6
<1> QED
  BY <1>7 DEF FirstOf

LEMMA MarksShrink ==
  ASSUME IInv, NEW s \in Sessions,
         queue' = [queue EXCEPT ![s] = (queue[s] \ FirstOf(s)) \cup Handed(s)]
  PROVE  /\ Shrinks
         /\ queue'[s] = (queue[s] \ FirstOf(s)) \cup Handed(s)
         /\ Handed(s) \in SUBSET InputRows
<1> DEFINE f == [r \in queue[s] |-> IF r \in FirstOf(s) THEN Marked(r) ELSE r]
<1>1. queue \in [Sessions -> SUBSET InputRows] /\ FirstOf(s) \subseteq queue[s]
  BY DEF IInv, TypeOK, FirstOf
<1>2. Handed(s) = {Marked(r) : r \in FirstOf(s)}
  BY DEF Handed, Marked
<1>3. Handed(s) \in SUBSET InputRows
  BY <1>1, <1>2, MarkedFacts
<1>4. queue' \in [Sessions -> SUBSET InputRows]
      /\ queue'[s] = (queue[s] \ FirstOf(s)) \cup Handed(s)
      /\ \A t \in Sessions \ {s} : queue'[t] = queue[t]
  BY <1>1, <1>3
<1>5. ASSUME NEW q \in queue'[s]
      PROVE  \E r \in queue[s] : q = f[r]
  BY <1>1, <1>2, <1>4
<1>6. ASSUME NEW r \in queue[s]
      PROVE  f[r] \in queue'[s] /\ From(f[r], r)
  <2>1. f[r] \in queue'[s]
    BY <1>2, <1>4
  <2>2. From(f[r], r)
    BY <1>1, MarkedFacts DEF From
  <2> QED
    BY <2>1, <2>2
<1>7. f \in Surjection(queue[s], queue'[s])
  BY <1>5, <1>6 DEF Surjection
<1>8. \A t \in Sessions : IsFiniteSet(queue[t]) /\ Cardinality(queue[t]) <= QueueLimit
  BY DEF IInv, TypeOK, LinkTypes
<1>9. IsFiniteSet(queue'[s]) /\ Cardinality(queue'[s]) <= QueueLimit
  <2>1. IsFiniteSet(queue'[s]) /\ Cardinality(queue'[s]) <= Cardinality(queue[s])
    BY <1>7, <1>8, FS_Surjection
  <2>2. Cardinality(queue'[s]) \in Nat /\ Cardinality(queue[s]) \in Nat /\ QueueLimit \in Nat
    BY <1>8, <2>1, FS_CardinalityType, ConsoleAssumption
  <2> QED
    BY <1>8, <2>1, <2>2
<1>10. \A t \in Sessions : \A p, q \in queue[t] : p.row = q.row => p = q
  BY DEF IInv, RowsOK, RowOK
<1>11. \A p, q \in queue'[s] : p.row = q.row => p = q
  <2> HIDE DEF f
  <2> QED
    BY <1>5, <1>6, <1>10 DEF From
<1>12. ASSUME NEW t \in Sessions
       PROVE  /\ \A q \in queue'[t] : \E r \in queue[t] : From(q, r)
              /\ \A r \in queue[t] : \E q \in queue'[t] : q.row = r.row
  <2> HIDE DEF f
  <2> QED
    BY <1>4, <1>5, <1>6 DEF From
<1> QED
  BY <1>3, <1>4, <1>8, <1>9, <1>10, <1>11, <1>12 DEF Shrinks

\* Of an open session, whatever was entered before a row was applied, gave
\* way, or is a row of its own.
LEMMA EarlierKnown ==
  ASSUME IInv, NEW s \in Sessions, ~Over(s), NEW r \in queue[s],
         NEW i \in Entries, i < r.input, entry[i].session = s
  PROVE  \/ i \in applied \/ Superseded(i)
         \/ \E q \in queue[s] : q.input = i /\ q.row <= r.row
<1>1. r.input \in Entries /\ entry[r.input].session = s /\ entry[r.input].row = r.row
  BY RowFacts
<1>2. entry[i].row <= r.row
  BY <1>1, EntryFacts DEF IInv, EntryOK, Entries
<1>3. CASE \E x \in applied : entry[x].row = entry[i].row
  <2>1. PICK x \in applied : entry[x].row = entry[i].row
    BY <1>3
  <2>2. x \in Entries /\ ~Superseded(x)
    BY <2>1 DEF IInv, LinkTypes, OrderOK
  <2>3. x < i \/ x = i \/ i < x
    BY <2>2, EntryFacts
  <2> QED
    BY <2>1, <2>2, <2>3, EntryFacts DEF Superseded, Entries
<1>4. CASE \E q \in queue[s] : q.row = entry[i].row
  <2>1. PICK q \in queue[s] : q.row = entry[i].row
    BY <1>4
  <2>2. q.input \in Entries /\ entry[q.input].row = q.row /\ ~Superseded(q.input)
    <3>1. RowOK(q, s) /\ entry[q.input].row = q.row
      BY <2>1, RowFacts
    <3> QED
      BY <3>1 DEF RowOK, HoldsEntry
  <2>3. q.input < i \/ q.input = i \/ i < q.input
    BY <2>2, EntryFacts
  <2> QED
    BY <1>2, <2>1, <2>2, <2>3, EntryFacts DEF Superseded, Entries
<1> QED
  BY <1>3, <1>4 DEF IInv, OrderOK

LEMMA PollBatchOK ==
  ASSUME IInv, NEW waited \in BOOLEAN, NEW s \in Live, NEW over \in {Stale, {}},
         PollBatch(s, over, waited),
         GatewayKeeps, UNCHANGED <<effectVars, unrest>>,
         UNCHANGED <<switchVars, pc, batch, receipt, late, framing>>,
         waited => pc = "polling" /\ reply = None
  PROVE  IInv' /\ Ages /\ Shrinks /\ Remains
<1>1. s \in Sessions /\ session[s] = "open" /\ over \in SUBSET Open /\ s \notin over
  BY DEF Live, Open, Stale
<1>2. Ages /\ session'[s] = "open"
      /\ \A t \in Sessions : session[t] = "absent" => session'[t] = "absent"
  BY <1>1, EndedAges DEF PollBatch
<1>3. /\ Shrinks
      /\ queue'[s] = (queue[s] \ FirstOf(s)) \cup Handed(s)
      /\ Handed(s) \in SUBSET InputRows
  BY <1>1, MarksShrink DEF PollBatch
<1>4. PICK handed \in SUBSET InputRows : handed = Handed(s)
  BY <1>3
<1>5. PICK answer : answer = [session |-> s, rows |-> handed, left |-> handed,
                              active |-> TRUE]
  OBVIOUS
<1>12. answer \in Batches
  BY <1>1, <1>5 DEF Batches
<1>13. Answer(waited, answer)
  BY <1>4, <1>5 DEF PollBatch
<1>6. Remains
  BY DEF GatewayKeeps, effectVars, Remains
<1>7. FirstOf(s) \subseteq queue[s] /\ handed = {Marked(p) : p \in FirstOf(s)}
  BY <1>4 DEF FirstOf, Handed, Marked
<1>8. ~Over(s) /\ ~Over(s)'
  BY <1>1, <1>2 DEF Over
<1>9. ASSUME waited, NEW r \in handed
      PROVE  /\ HoldsEntry(r, s)' /\ r.delivered
             /\ \A q \in queue'[s] : q.row = r.row => q = r
             /\ LeftOK(answer, r)'
  <2>1. PICK p \in FirstOf(s) : r = Marked(p)
    BY <1>7, <1>9
  <2>2. p \in queue[s] /\ From(r, p) /\ r.delivered /\ r \in queue'[s]
    BY <1>1, <1>3, <1>4, <1>7, <1>9, <2>1, MarkedFacts, RowFacts
  <2>3. RowOK(r, s)' /\ HoldsEntry(r, s)'
    BY <1>1, <1>2, <1>3, <1>6, <2>2, ShrinksEntries DEF RowsOK, RowOK
  <2>4. receipt = None
    BY <1>9 DEF IInv, CycleOK
  <2>5. r.input \notin Recent
    BY <1>1, <1>8, <2>2, <2>4 DEF IInv, RecentOK, From
  <2>6. UNCHANGED Recent /\ UNCHANGED Entries /\ \A i : Superseded(i)' <=> Superseded(i)
    BY <1>6 DEF Remains, Recent, Entries, Superseded
  <2>7. r.input = p.input /\ r.input \in Entries /\ entry[r.input].session = s
        /\ entry[r.input].row = p.row
    BY <1>1, <2>2, RowFacts DEF From
  <2>8. ASSUME NEW x \in Recent, machine[entry[x].session] = machine[s]
        PROVE  x < r.input
    <3>1. x \in Entries /\ x # r.input
      BY <2>5, <2>8 DEF IInv, LinkTypes
    <3>2. ASSUME r.input < x
          PROVE  FALSE
      <4>1. s <= entry[x].session /\ entry[x].session \in Sessions
            /\ session[entry[x].session] # "absent"
        BY <2>7, <2>8, <3>1, <3>2, EntryFacts DEF IInv, EntryOK, Entries
      <4>2. CASE entry[x].session = s
        BY <1>1, <1>8, <2>2, <2>5, <2>7, <2>8, <3>2, <4>2 DEF IInv, RecentOK
      <4>3. CASE s < entry[x].session
        BY <1>1, <1>8, <2>8, <4>1, <4>3 DEF IInv, SessionsOK
      <4> QED
        BY <1>1, <4>1, <4>2, <4>3, ConsoleAssumption DEF Sessions
    <3> QED
      BY <2>7, <3>1, <3>2, EntryFacts
  <2>9. ASSUME NEW i \in 1 .. r.input - 1, entry[i].session = s
        PROVE  i \in applied \/ Superseded(i) \/ \E q \in handed : q.input = i
    <3>1. i \in Entries /\ i < p.input
      BY <2>7, EntryFacts DEF Entries
    <3>2. ASSUME NEW q \in queue[s], q.input = i, q.row <= p.row
          PROVE  \E h \in handed : h.input = i
      <4>1. q \in FirstOf(s)
        BY <1>1, <2>1, <3>2, FirstFacts
      <4>2. From(Marked(q), q)
        BY <1>1, <3>2, MarkedFacts, RowFacts
      <4> QED
        BY <1>7, <3>2, <4>1, <4>2 DEF From
    <3> QED
      BY <1>1, <1>8, <2>2, <2>9, <3>1, <3>2, EarlierKnown
  <2>10. ASSUME NEW q \in queue'[s], q.input < r.input
         PROVE  q \in handed
    <3>1. CASE q \in queue[s]
      <4>1. q.input \in Entries /\ entry[q.input].session = s /\ entry[q.input].row = q.row
        BY <1>1, <3>1, RowFacts
      <4>2. q.row <= p.row
        BY <2>7, <2>10, <4>1, EntryFacts DEF IInv, EntryOK, Entries
      <4>3. q \in FirstOf(s)
        BY <1>1, <2>1, <3>1, <4>2, FirstFacts
      <4> QED
        BY <1>3, <1>4, <2>10, <4>3
    <3> QED
      BY <1>3, <1>4, <2>10, <3>1
  <2>11. r.input \in applied => r.input \in doubt
    BY <1>6, <2>3, <2>5, <2>6 DEF RowOK, Remains
  <2>12. LeftOK(answer, r)'
    BY <1>6, <2>5, <2>6, <2>8, <2>9, <2>10, <2>11, <1>5 DEF LeftOK, Remains
  <2>13. \A q \in queue'[s] : q.row = r.row => q = r
    BY <2>3 DEF RowOK
  <2> QED
    BY <2>2, <2>3, <2>12, <2>13
<1>10. waited => BatchOK(answer)'
  BY <1>2, <1>5, <1>9 DEF BatchOK
<1>11. answer.session = s
  BY <1>5
<1> QED
  BY <1>2, <1>3, <1>10, <1>11, <1>12, <1>13, GatewayStep

\* A receipt: what it acknowledges was applied.
LEMMA InputResultOK ==
  ASSUME IInv, NEW waited \in BOOLEAN, NEW c \in Receipts, ReceiptOK(c),
         InputResult(c, waited),
         GatewayKeeps, UNCHANGED <<effectVars, unrest>>,
         UNCHANGED <<switchVars, pc, batch, receipt, late, framing>>,
         waited => pc \in {"polling", "delivering"} /\ reply = None /\ c = receipt
  PROVE  IInv' /\ Ages /\ Shrinks /\ Remains
<1> DEFINE over == Stale \cup (IF c.failed THEN Open \cap {c.session} ELSE {})
           remain == {row \in queue[c.session] : row.row \notin c.rows}
<1>1. c.session \in Sessions /\ c # None
  BY ConsoleAssumption DEF Receipts
<1>2. over \in SUBSET Open /\ session' = Ended(over)
  BY DEF InputResult, Stale
<1>3. Ages /\ \A s \in Sessions : session[s] = "absent" => session'[s] = "absent"
  BY <1>2, EndedAges
<1>4. queue \in [Sessions -> SUBSET InputRows]
  BY DEF IInv, TypeOK
<1>5. queue' = [queue EXCEPT ![c.session] = remain]
  BY DEF InputResult
<1>6. queue' \in [Sessions -> SUBSET InputRows] /\ queue'[c.session] = remain
      /\ \A s \in Sessions \ {c.session} : queue'[s] = queue[s]
  BY <1>1, <1>4, <1>5
<1>7. Shrinks
  <2>1. \A s \in Sessions : \A p, q \in queue[s] : p.row = q.row => p = q
    BY DEF IInv, RowsOK, RowOK
  <2>2. \A s \in Sessions : IsFiniteSet(queue[s]) /\ Cardinality(queue[s]) <= QueueLimit
    BY DEF IInv, TypeOK, LinkTypes
  <2>3. IsFiniteSet(queue'[c.session]) /\ Cardinality(queue'[c.session]) <= QueueLimit
    <3>1. IsFiniteSet(remain) /\ Cardinality(remain) <= Cardinality(queue[c.session])
      BY <1>1, <2>2, FS_Subset
    <3>2. Cardinality(remain) \in Nat /\ Cardinality(queue[c.session]) \in Nat
          /\ QueueLimit \in Nat
      BY <1>1, <2>2, <3>1, FS_CardinalityType, ConsoleAssumption
    <3> HIDE DEF remain
    <3> QED
      BY <1>1, <1>6, <2>2, <3>1, <3>2
  <2>4. \A r \in queue[c.session] : r.row \in c.rows => r.input \in applied
    BY <1>1 DEF ReceiptOK
  <2> QED
    BY <1>6, <2>1, <2>2, <2>3, <2>4 DEF Shrinks, From
<1>8. PICK answer \in Batches : Answer(waited, answer) /\ answer.session = None
  <2> DEFINE a == [NoBatch EXCEPT !.active = Live \ over # {}]
  <2>1. a \in Batches /\ a.session = None
    BY DEF NoBatch, Batches
  <2>2. Answer(waited, a)
    BY DEF InputResult
  <2> HIDE DEF a
  <2> QED
    BY <2>1, <2>2
<1>9. ASSUME waited, pc = "delivering"
      PROVE  /\ \A r \in queue'[receipt.session] : r.row \notin receipt.rows
             /\ receipt.failed => Over(receipt.session)'
  <2>1. c = receipt
    BY <1>9
  <2>2. ASSUME receipt.failed
        PROVE  Over(c.session)'
    <3>1. session[c.session] # "absent"
      BY <1>1 DEF ReceiptOK
    <3>2. c.session \in over \/ Over(c.session)
      BY <1>1, <2>1, <2>2, <3>1 DEF Open, Over, IInv, TypeOK
    <3> QED
      BY <1>1, <1>2, <1>3, <3>2, EndedAges DEF Ages, Over
  <2> QED
    BY <1>6, <2>1, <2>2
<1>10. waited => pc \in {"polling", "delivering"} /\ reply = None
  OBVIOUS
<1> QED
  BY <1>3, <1>7, <1>8, <1>9, <1>10, GatewayStep

LEMMA InputExchangeOK ==
  ASSUME IInv, NEW waited \in BOOLEAN, NEW c \in late \cup {receipt},
         InputExchange(c, waited),
         waited => pc \in {"polling", "delivering"} /\ reply = None /\ c = receipt
  PROVE  IInv' /\ Ages /\ Shrinks /\ Remains
<1>1. /\ GatewayKeeps /\ UNCHANGED <<effectVars, unrest>>
      /\ UNCHANGED <<switchVars, pc, batch, receipt, late, framing>>
  BY DEF InputExchange
<1>2. CASE c # None
  <2>1. c \in Receipts /\ ReceiptOK(c)
    BY <1>2 DEF IInv, LinkTypes, TypeOK, ReceiptsOK
  <2> QED
    BY <1>1, <1>2, <2>1, InputResultOK DEF InputExchange
<1>3. CASE c = None
  <2>1. waited => pc = "polling" /\ reply = None
    BY <1>3 DEF IInv, CycleOK
  <2>2. Stale \subseteq Open /\ {} \subseteq Open
    BY DEF Stale
  <2>3. PICK over \in {Stale, {}} :
          \/ PollEmpty(over, Live # {}, waited)
          \/ \E s \in Sessions :
               /\ OldestPending(s)
               /\ CASE s \notin Live -> PollEmpty(over, TRUE, waited)
                    [] s \in Live \ permitted ->
                         PollEmpty(over \cup {s}, Live # {s}, waited)
                    [] OTHER -> PollBatch(s, over, waited)
    BY <1>3 DEF InputExchange, InputPoll
  <2>4. CASE PollEmpty(over, Live # {}, waited)
    BY <1>1, <2>1, <2>2, <2>4, PollEmptyOK
  <2>5. ASSUME NEW s \in Live, PollEmpty(over \cup {s}, Live # {s}, waited)
        PROVE  IInv' /\ Ages /\ Shrinks /\ Remains
    <3>1. over \cup {s} \in SUBSET Open
      BY <2>2, <2>5 DEF Live, Open
    <3> QED
      BY <1>1, <2>1, <2>5, <3>1, PollEmptyOK
  <2>6. ASSUME NEW s \in Live, PollBatch(s, over, waited)
        PROVE  IInv' /\ Ages /\ Shrinks /\ Remains
    BY <1>1, <2>1, <2>6, PollBatchOK
  <2> QED
    BY <2>3, <2>4, <2>5, <2>6 DEF OldestPending
<1> QED
  BY <1>2, <1>3

LEMMA GatewayOK ==
  ASSUME IInv, GatewayAnswers \/ GatewayAnswersLate
  PROVE  IInv' /\ Ages /\ Shrinks /\ Remains
<1>1. CASE GatewayAnswers
  BY <1>1, InputExchangeOK DEF GatewayAnswers
<1>2. CASE GatewayAnswersLate
  BY <1>2, InputExchangeOK DEF GatewayAnswersLate
<1> QED
  BY <1>1, <1>2

-----------------------------------------------------------------------------
(* Operators' inputs. *)

\* The newest row of an open session, while it waits, has the session's last
\* input: whatever is not in the queue was applied, and in order.
LEMMA NewestLast ==
  ASSUME IInv, NEW s \in Live, NEW r \in Newest(s), ~r.delivered
  PROVE  \A i \in Entries : entry[i].session = s =>
           entry[i].row <= r.row /\ i <= r.input
<1>1. s \in Sessions /\ ~Over(s) /\ r \in queue[s] /\ \A q \in queue[s] : q.row <= r.row
  BY DEF Live, Over, Newest
<1>2. /\ RowOK(r, s) /\ r.input \in Entries /\ r.row \in Nat
      /\ entry[r.input].session = s /\ entry[r.input].row = r.row
  BY <1>1, RowFacts
<1>3. r.input \notin applied /\ ~Superseded(r.input)
  BY <1>2 DEF RowOK, HoldsEntry
<1>4. ASSUME NEW i \in Entries, entry[i].session = s
      PROVE  entry[i].row <= r.row
  <2>1. CASE \E q \in queue[s] : q.row = entry[i].row
    BY <1>1, <2>1
  <2>2. ASSUME NEW x \in applied, entry[x].row = entry[i].row
        PROVE  entry[i].row <= r.row
    <3>1. x \in Entries
      BY <2>2 DEF IInv, LinkTypes
    <3>2. entry[x].session = s
      BY <1>4, <2>2, <3>1, SameRow
    <3>3. ~(r.input < x)
      BY <1>2, <1>3, <2>2, <3>1, <3>2, EntryFacts DEF IInv, OrderOK, Entries
    <3>4. x = r.input \/ x < r.input
      BY <1>2, <3>1, <3>3, EntryFacts
    <3> QED
      BY <1>2, <1>3, <2>2, <3>1, <3>2, <3>4, EntryFacts DEF IInv, EntryOK, Entries
  <2> QED
    BY <1>1, <1>4, <2>1, <2>2 DEF IInv, OrderOK
<1>5. ASSUME NEW i \in Entries, entry[i].session = s, r.input < i
      PROVE  FALSE
  <2>1. entry[r.input].row <= entry[i].row
    BY <1>2, <1>5, EntryFacts DEF IInv, EntryOK, Entries
  <2>2. entry[i].row = r.row
    BY <1>2, <1>4, <1>5, <2>1, EntryFacts
  <2> QED
    BY <1>2, <1>3, <1>5, <2>2, EntryFacts DEF Superseded, Entries
<1> QED
  BY <1>2, <1>4, <1>5, EntryFacts

LEMMA OneMore ==
  ASSUME NEW S, NEW x, NEW T, IsFiniteSet(S), T = S \cup {x}
  PROVE  /\ IsFiniteSet(T) /\ Cardinality(T) \in Nat
         /\ Cardinality(T) <= Cardinality(S) + 1
<1>1. IsFiniteSet(T)
      /\ Cardinality(T) = IF x \in S THEN Cardinality(S) ELSE Cardinality(S) + 1
  BY FS_AddElement, Zenon
<1>2. Cardinality(T) \in Nat /\ Cardinality(S) \in Nat
  BY <1>1, FS_CardinalityType
<1> QED
  BY <1>1, <1>2

\* An input is entered in a row of its own, or in the last row of its session
\* instead of the position that it holds.
Entering(s, new, old) ==
  /\ session[s] = "open"
  /\ new \in InputRows /\ new.input = Len(entry) + 1 /\ ~new.delivered
  /\ old \subseteq queue[s]
  /\ \A r \in old :
       /\ r.row = new.row /\ r.move /\ new.move /\ ~r.delivered
       /\ \A i \in Entries : entry[i].session = s => i <= r.input
  /\ \A i \in Entries :
       /\ entry[i].session = s => entry[i].row <= new.row
       /\ entry[i].row = new.row => \E r \in old : r.row = new.row
  /\ new.row <= new.input /\ (old = {} => new.row = new.input)
  /\ queue' = [queue EXCEPT ![s] = (queue[s] \ old) \cup {new}]
  /\ IsFiniteSet(queue'[s]) /\ Cardinality(queue'[s]) <= QueueLimit
  /\ entry' = Append(entry, [session |-> s, move |-> new.move, row |-> new.row])

LEMMA CoalescingEnters ==
  ASSUME IInv, NEW s \in Live, NEW r \in Newest(s), NEW move \in BOOLEAN,
         Coalesces(r, move), NEW new,
         Len(entry) + 1 <= MaxInputs,
         new = [row |-> r.row, input |-> Len(entry) + 1, move |-> move,
                delivered |-> FALSE],
         queue' = [queue EXCEPT ![s] = (queue[s] \ {r}) \cup {new}],
         entry' = Append(entry, [session |-> s, move |-> move, row |-> r.row])
  PROVE  Entering(s, new, {r})
<1>1. s \in Sessions /\ session[s] = "open" /\ r \in queue[s]
  BY DEF Live, Newest
<1>2. move /\ r.move /\ ~r.delivered
  BY DEF Coalesces
<1>3. /\ r \in InputRows /\ r.row \in Nat /\ r.input \in Entries
      /\ entry[r.input].row = r.row /\ entry[r.input].row <= r.input
  BY <1>1, RowFacts DEF IInv, EntryOK
<1>4. Len(entry) \in Nat /\ MaxInputs \in Nat
  BY EntryFacts, ConsoleAssumption
<1>5. new \in InputRows /\ new.row <= new.input
  BY <1>3, <1>4, EntryFacts DEF InputRows, Entries
<1>6. \A i \in Entries : entry[i].session = s => entry[i].row <= r.row /\ i <= r.input
  BY <1>2, NewestLast
<1>7. queue \in [Sessions -> SUBSET InputRows]
      /\ IsFiniteSet(queue[s]) /\ Cardinality(queue[s]) <= QueueLimit /\ QueueLimit \in Nat
  BY <1>1, ConsoleAssumption DEF IInv, TypeOK, LinkTypes
<1>8. queue'[s] = (queue[s] \ {r}) \cup {new}
  BY <1>1, <1>7
<1>9. IsFiniteSet(queue'[s]) /\ Cardinality(queue'[s]) <= QueueLimit
  <2>1. /\ IsFiniteSet(queue[s] \ {r}) /\ Cardinality(queue[s]) \in Nat
        /\ Cardinality(queue[s] \ {r}) = Cardinality(queue[s]) - 1
    BY <1>1, <1>7, FS_RemoveElement, FS_CardinalityType
  <2>2. /\ IsFiniteSet(queue'[s])
        /\ Cardinality(queue'[s]) \in Nat
        /\ Cardinality(queue'[s]) <= Cardinality(queue[s] \ {r}) + 1
    <3> DEFINE Q == queue[s] \ {r}
    <3>1. queue'[s] = Q \cup {new} /\ IsFiniteSet(Q)
      BY <1>8, <2>1
    <3> HIDE DEF Q
    <3>2. /\ IsFiniteSet(queue'[s]) /\ Cardinality(queue'[s]) \in Nat
          /\ Cardinality(queue'[s]) <= Cardinality(Q) + 1
      BY <3>1, OneMore
    <3> QED
      BY <3>2 DEF Q
  <2> QED
    BY <1>7, <2>1, <2>2
<1> QED
  BY <1>1, <1>2, <1>5, <1>6, <1>9 DEF Entering

LEMMA NewRowEnters ==
  ASSUME IInv, NEW s \in Live, NEW move \in BOOLEAN, NEW new,
         Len(entry) + 1 <= MaxInputs, Cardinality(queue[s]) < QueueLimit,
         new = [row |-> Len(entry) + 1, input |-> Len(entry) + 1, move |-> move,
                delivered |-> FALSE],
         queue' = [queue EXCEPT ![s] = (queue[s] \ {}) \cup {new}],
         entry' = Append(entry,
                         [session |-> s, move |-> move, row |-> Len(entry) + 1])
  PROVE  Entering(s, new, {})
<1>1. s \in Sessions /\ session[s] = "open"
  BY DEF Live
<1>2. Len(entry) \in Nat /\ MaxInputs \in Nat
  BY EntryFacts, ConsoleAssumption
<1>3. new \in InputRows /\ new.row <= new.input
  BY <1>2 DEF InputRows
<1>4. \A i \in Entries : entry[i].row < new.row
  BY <1>2, EntryFacts DEF IInv, EntryOK, Entries
<1>5. queue \in [Sessions -> SUBSET InputRows]
      /\ IsFiniteSet(queue[s]) /\ QueueLimit \in Nat
  BY <1>1, ConsoleAssumption DEF IInv, TypeOK, LinkTypes
<1>6. queue'[s] = queue[s] \cup {new}
  BY <1>1, <1>5
<1>7. IsFiniteSet(queue'[s]) /\ Cardinality(queue'[s]) <= QueueLimit
  <2>1. Cardinality(queue[s]) \in Nat
    BY <1>5, FS_CardinalityType
  <2>2. /\ IsFiniteSet(queue'[s])
        /\ Cardinality(queue'[s]) \in Nat
        /\ Cardinality(queue'[s]) <= Cardinality(queue[s]) + 1
    BY <1>5, <1>6, OneMore
  <2> QED
    BY <1>5, <2>1, <2>2
<1> QED
  BY <1>1, <1>2, <1>3, <1>4, <1>7, EntryFacts DEF Entering

LEMMA QueueEnters ==
  ASSUME IInv, NEW s \in Sessions, QueueConsoleInput(s)
  PROVE  \E new, old : Entering(s, new, old)
<1>1. s \in Live /\ Len(entry) + 1 <= MaxInputs
  BY DEF QueueConsoleInput
<1>2. PICK move \in BOOLEAN :
        \/ \E r \in Newest(s) :
             /\ Coalesces(r, move)
             /\ queue' = [queue EXCEPT ![s] = (queue[s] \ {r}) \cup
                  {[row |-> r.row, input |-> Len(entry) + 1, move |-> move,
                    delivered |-> FALSE]}]
             /\ entry' = Append(entry, [session |-> s, move |-> move, row |-> r.row])
        \/ /\ Cardinality(queue[s]) < QueueLimit
           /\ queue' = [queue EXCEPT ![s] = (queue[s] \ {}) \cup
                {[row |-> Len(entry) + 1, input |-> Len(entry) + 1, move |-> move,
                  delivered |-> FALSE]}]
           /\ entry' = Append(entry, [session |-> s, move |-> move,
                                      row |-> Len(entry) + 1])
  BY DEF QueueConsoleInput
<1> QED
  BY <1>1, <1>2, CoalescingEnters, NewRowEnters

LEMMA EnteredFacts ==
  ASSUME IInv, NEW s \in Sessions, NEW new, NEW old, Entering(s, new, old)
  PROVE  /\ new.input \in Nat /\ new.row \in Nat /\ new.move \in BOOLEAN
         /\ entry' \in Seq(Events) /\ Len(entry') = new.input
         /\ new.input <= MaxInputs
         /\ Entries' = Entries \cup {new.input}
         /\ \A i \in Entries : i < new.input /\ entry'[i] = entry[i]
         /\ entry'[new.input] = [session |-> s, move |-> new.move, row |-> new.row]
         /\ queue' \in [Sessions -> SUBSET InputRows]
         /\ queue'[s] = (queue[s] \ old) \cup {new}
         /\ \A t \in Sessions \ {s} : queue'[t] = queue[t]
<1>1. MaxInputs \in Nat
  BY ConsoleAssumption
<1>2. new.input \in 1 .. MaxInputs /\ new.row \in 1 .. MaxInputs
      /\ new.move \in BOOLEAN /\ new.input = Len(entry) + 1
  BY DEF Entering, InputRows
<1>3. PICK e \in Events : e = [session |-> s, move |-> new.move, row |-> new.row]
  BY <1>2 DEF Events
<1>4. entry' = Append(entry, e) /\ entry \in Seq(Events)
  BY <1>3, EntryFacts DEF Entering
<1>5. /\ entry' \in Seq(Events) /\ Len(entry') = Len(entry) + 1
      /\ \A i \in 1 .. Len(entry) : entry'[i] = entry[i]
      /\ entry'[Len(entry) + 1] = e
  BY <1>4, AppendProperties
<1>6. queue \in [Sessions -> SUBSET InputRows]
      /\ queue' = [queue EXCEPT ![s] = (queue[s] \ old) \cup {new}]
      /\ new \in InputRows
  BY DEF IInv, TypeOK, Entering
<1>7. /\ queue' \in [Sessions -> SUBSET InputRows]
      /\ queue'[s] = (queue[s] \ old) \cup {new}
      /\ \A t \in Sessions \ {s} : queue'[t] = queue[t]
  BY <1>6
<1>8. Len(entry) \in Nat
  BY EntryFacts
<1>9. Entries' = Entries \cup {new.input}
      /\ \A i \in Entries : i < new.input /\ entry'[i] = entry[i]
  BY <1>2, <1>5, <1>8 DEF Entries
<1> QED
  BY <1>1, <1>2, <1>3, <1>5, <1>7, <1>9

\* Only the position that gives way is superseded.
LEMMA EnteringSupersedes ==
  ASSUME IInv, NEW s \in Sessions, NEW new, NEW old, Entering(s, new, old)
  PROVE  /\ ~Superseded(new.input)'
         /\ \A i \in Entries :
              Superseded(i)' <=> Superseded(i) \/ \E r \in old : r.input = i
         /\ \A r \in old : RowOK(r, s) /\ r.input \in Entries /\ r.input \notin applied
<1>1. /\ new.input \in Nat /\ Len(entry') = new.input
      /\ Len(entry) \in Nat /\ new.input = Len(entry) + 1
      /\ \A i \in Entries : i < new.input /\ entry'[i] = entry[i]
      /\ entry'[new.input].row = new.row
  BY EnteredFacts, EntryFacts DEF Entering
<1>2. ~Superseded(new.input)'
  BY <1>1 DEF Superseded
<1>3. ASSUME NEW r \in old
      PROVE  /\ r \in queue[s] /\ RowOK(r, s) /\ r.input \in Entries
             /\ r.input \notin applied /\ r.row = new.row
             /\ entry[r.input].row = r.row /\ entry[r.input].session = s
             /\ \A i \in Entries : entry[i].session = s => i <= r.input
  <2>1. r \in queue[s]
    BY <1>3 DEF Entering
  <2>2. RowOK(r, s) /\ r.input \in Entries /\ entry[r.input].row = r.row
        /\ entry[r.input].session = s
    BY <2>1, RowFacts
  <2> QED
    BY <1>3, <2>1, <2>2 DEF Entering, RowOK
<1>4. ASSUME NEW i \in Entries
      PROVE  Superseded(i)' <=> Superseded(i) \/ entry[i].row = new.row
  <2>1. i \in Nat /\ i >= 1 /\ i <= Len(entry)
    BY <1>4, EntryFacts DEF Entries
  <2>2. ASSUME Superseded(i)'
        PROVE  Superseded(i) \/ entry[i].row = new.row
    <3>1. PICK k \in i + 1 .. new.input : entry'[k].row = entry'[i].row
      BY <1>1, <2>2 DEF Superseded
    <3>2. k = new.input \/ k \in i + 1 .. Len(entry)
      BY <1>1, <2>1, <3>1
    <3>3. k \in Entries \/ k = new.input
      BY <1>1, <2>1, <3>2 DEF Entries
    <3> QED
      BY <1>1, <1>4, <3>1, <3>2, <3>3 DEF Superseded
  <2>3. ASSUME NEW k \in i + 1 .. Len(entry), entry[k].row = entry[i].row
        PROVE  Superseded(i)'
    <3>1. k \in Entries /\ k \in i + 1 .. new.input
      BY <1>1, <2>1, <2>3 DEF Entries
    <3>2. entry'[k].row = entry'[i].row
      BY <1>1, <1>4, <2>3, <3>1
    <3> QED
      BY <1>1, <3>1, <3>2 DEF Superseded
  <2>4. ASSUME entry[i].row = new.row
        PROVE  Superseded(i)'
    <3>1. new.input \in i + 1 .. new.input
      BY <1>1, <2>1
    <3> QED
      BY <1>1, <1>4, <2>4, <3>1 DEF Superseded
  <2> QED
    BY <2>2, <2>3, <2>4 DEF Superseded
<1>5. ASSUME NEW i \in Entries, entry[i].row = new.row, ~Superseded(i)
      PROVE  \E r \in old : r.input = i
  <2>1. PICK r \in old : r.row = new.row
    BY <1>5 DEF Entering
  <2>2. ASSUME i < r.input
        PROVE  FALSE
    BY <1>3, <1>5, <2>1, <2>2, EntryFacts DEF Superseded, Entries
  <2>3. ASSUME r.input < i
        PROVE  FALSE
    <3>1. entry[i].session = s
      BY <1>3, <1>5, <2>1, <2>3, EntryFacts DEF IInv, EntryOK, Entries
    <3> QED
      BY <1>3, <1>5, <2>1, <2>3, <3>1, EntryFacts
  <2> QED
    BY <1>3, <1>5, <2>1, <2>2, <2>3, EntryFacts
<1> QED
  BY <1>2, <1>3, <1>4, <1>5

\* Rows are never marked, nor handed out, and then replaced.
LEMMA RowsApart ==
  ASSUME IInv, NEW s \in Sessions, NEW new, NEW old, Entering(s, new, old),
         NEW t \in Sessions, NEW r, HoldsEntry(r, t),
         t = s => r \notin old /\ \A q \in queue[s] : q.row = r.row => q = r
  PROVE  /\ r.row # new.row /\ HoldsEntry(r, t)'
<1>1. r.input \in Entries /\ entry[r.input].session = t /\ entry[r.input].row = r.row
      /\ ~Superseded(r.input)
  BY DEF HoldsEntry
<1>2. ASSUME r.row = new.row
      PROVE  FALSE
  <2>1. PICK o \in old : o.row = new.row
    BY <1>1, <1>2 DEF Entering
  <2>2. o \in queue[s]
    BY <2>1 DEF Entering
  <2>3. o.input \in Entries /\ entry[o.input].session = s /\ entry[o.input].row = new.row
    BY <2>1, <2>2, RowFacts
  <2>4. t # s
    BY <1>2, <2>1, <2>2
  <2> QED
    BY <1>1, <1>2, <2>3, <2>4, SameRow
<1>3. ASSUME NEW o \in old, o.input = r.input
      PROVE  FALSE
  <2>1. o \in queue[s] /\ o.row = new.row
    BY <1>3 DEF Entering
  <2>2. entry[o.input].row = o.row
    BY <2>1, RowFacts
  <2> QED
    BY <1>1, <1>2, <1>3, <2>1, <2>2
<1>4. ~Superseded(r.input)'
  BY <1>1, <1>3, EnteringSupersedes
<1>5. r.input \in Entries' /\ entry'[r.input] = entry[r.input]
  BY <1>1, EnteredFacts
<1> QED
  BY <1>2, <1>4, <1>5 DEF HoldsEntry

LEMMA EnteringEntries ==
  ASSUME IInv, NEW s \in Sessions, NEW new, NEW old, Entering(s, new, old),
         UNCHANGED <<machine, session, applied, life, doubt>>
  PROVE  EntryOK' /\ RowsOK' /\ OrderOK'
<1> DEFINE n == new.input
<1>0. /\ n \in Nat /\ n = Len(entry) + 1
      /\ \A i \in Entries : i < n /\ i \in Nat
      /\ new.row <= n /\ old \subseteq queue[s] /\ session[s] = "open"
  BY EnteredFacts, EntryFacts DEF Entering
<1>1. /\ n \in Nat /\ n \notin Entries /\ Len(entry') = n /\ n = Len(entry) + 1
      /\ Entries' = Entries \cup {n}
      /\ \A i \in Entries : i < n /\ entry'[i] = entry[i]
      /\ entry'[n] = [session |-> s, move |-> new.move, row |-> new.row]
      /\ queue'[s] = (queue[s] \ old) \cup {new}
      /\ \A t \in Sessions \ {s} : queue'[t] = queue[t]
      /\ new.row <= n /\ old \subseteq queue[s] /\ session[s] = "open"
  BY <1>0, EnteredFacts
<1>2. /\ entry'[n].session = s /\ entry'[n].row = new.row
      /\ n \in Entries' /\ applied \subseteq Entries /\ n \notin applied
  BY <1>1 DEF IInv, LinkTypes
<1> HIDE DEF n
<1>3. EntryOK'
  <2>1. ASSUME NEW i \in Entries, NEW k \in Entries', k > i
        PROVE  /\ entry'[k].session = entry'[i].session => entry'[i].row <= entry'[k].row
               /\ entry'[k].row = entry'[i].row => entry'[k].session = entry'[i].session
               /\ machine[entry'[k].session] = machine[entry'[i].session] =>
                    entry'[i].session <= entry'[k].session
    <3>1. CASE k \in Entries
      <4>1. k \in i + 1 .. Len(entry)
        BY <2>1, <3>1, EntryFacts DEF Entries
      <4> QED
        BY <1>1, <2>1, <3>1, <4>1 DEF IInv, EntryOK
    <3>2. CASE k = n
      <4>1. entry[i].session = s => entry[i].row <= new.row
        BY <2>1 DEF Entering
      <4>2. ASSUME entry[i].row = new.row
            PROVE  entry[i].session = s
        <5>1. PICK r \in old : r.row = new.row
          BY <2>1, <4>2 DEF Entering
        <5>2. r.input \in Entries /\ entry[r.input].session = s /\ entry[r.input].row = r.row
          BY <1>1, <5>1, RowFacts
        <5> QED
          BY <2>1, <4>2, <5>1, <5>2, SameRow
      <4>3. ASSUME machine[entry[i].session] = machine[s]
            PROVE  entry[i].session <= s
        <5>1. entry[i].session \in Sessions /\ session[entry[i].session] # "absent"
          BY <2>1, EntryFacts DEF IInv, EntryOK
        <5>2. ~(s < entry[i].session)
          BY <1>1, <4>3, <5>1 DEF IInv, SessionsOK, Over
        <5> QED
          BY <5>1, <5>2, ConsoleAssumption DEF Sessions
      <4> QED
        BY <1>1, <1>2, <2>1, <3>2, <4>1, <4>2, <4>3
    <3> QED
      BY <1>1, <2>1, <3>1, <3>2
  <2>2. ASSUME NEW i \in Entries', NEW k \in i + 1 .. Len(entry')
        PROVE  i \in Entries /\ k \in Entries' /\ k > i
    BY <1>1, <2>2, EntryFacts DEF Entries
  <2>3. ASSUME NEW i \in Entries'
        PROVE  session[entry'[i].session] # "absent" /\ entry'[i].row <= i
    BY <1>1, <1>2, <2>3 DEF IInv, EntryOK
  <2> QED
    BY <2>1, <2>2, <2>3 DEF EntryOK
<1>4. RowsOK'
  <2>1. RowOK(new, s)'
    <3>1. HoldsEntry(new, s)'
      BY <1>1, <1>2, EnteringSupersedes DEF HoldsEntry, n
    <3>2. ASSUME NEW q \in queue'[s], q.row = new.row
          PROVE  q = new
      <4>1. CASE q \in queue[s] \ old
        <5>1. HoldsEntry(q, s) /\ \A p \in queue[s] : p.row = q.row => p = q
          BY <4>1, RowFacts DEF RowOK
        <5> QED
          BY <3>2, <4>1, <5>1, RowsApart
      <4> QED
        BY <1>1, <3>2, <4>1
    <3> QED
      BY <1>2, <3>1, <3>2 DEF RowOK, n
  <2>2. ASSUME NEW t \in Sessions, NEW r \in queue[t], t = s => r \notin old
        PROVE  RowOK(r, t)'
    <3>1. RowOK(r, t)
      BY <2>2, RowFacts
    <3>2. r.row # new.row /\ HoldsEntry(r, t)'
      BY <2>2, <3>1, RowsApart DEF RowOK
    <3>3. \A q \in queue'[t] : q.row = r.row => q = r
      BY <1>1, <3>1, <3>2 DEF RowOK
    <3> QED
      BY <3>1, <3>2, <3>3 DEF RowOK, Recent
  <2>3. ASSUME NEW t \in Sessions, NEW r \in queue'[t]
        PROVE  RowOK(r, t)'
    <3>1. CASE t = s /\ r = new
      BY <2>1, <3>1
    <3>2. CASE r \in queue[t] /\ (t = s => r \notin old)
      BY <2>2, <3>2
    <3> QED
      BY <1>1, <2>3, <3>1, <3>2
  <2> QED
    BY <2>3 DEF RowsOK
<1>5. OrderOK'
  <2>1. ASSUME NEW x \in applied
        PROVE  ~Superseded(x)'
    BY <1>2, <2>1, EnteringSupersedes DEF IInv, OrderOK
  <2>2. ASSUME NEW x \in applied, NEW i \in 1 .. x - 1,
               entry'[i].session = entry'[x].session
        PROVE  i \in applied \/ Superseded(i)'
    <3>1. x \in Entries /\ i \in Entries
      BY <1>2, <2>2, EntryFacts DEF Entries
    <3> QED
      BY <1>1, <2>2, <3>1, EnteringSupersedes DEF IInv, OrderOK
  <2>3. ASSUME NEW i \in Entries
        PROVE  \/ Over(entry[i].session)
               \/ \E r \in queue'[entry[i].session] : r.row = entry[i].row
               \/ \E x \in applied : entry[x].row = entry[i].row
    <3>1. entry[i].session \in Sessions
      BY <2>3, EntryFacts
    <3>2. ASSUME NEW r \in queue[entry[i].session], r.row = entry[i].row
          PROVE  \E q \in queue'[entry[i].session] : q.row = entry[i].row
      <4>1. CASE entry[i].session = s /\ r \in old
        BY <1>1, <3>2, <4>1 DEF Entering
      <4> QED
        BY <1>1, <3>1, <3>2, <4>1
    <3> QED
      BY <2>3, <3>2 DEF IInv, OrderOK
  <2>4. ASSUME NEW i \in Entries'
        PROVE  \/ session'[entry'[i].session] = "ended"
               \/ \E r \in queue'[entry'[i].session] : r.row = entry'[i].row
               \/ \E x \in applied : entry'[x].row = entry'[i].row
    <3>1. CASE i = n
      <4>1. entry'[i].session = s /\ entry'[i].row = new.row /\ new \in queue'[s]
        BY <1>1, <1>2, <3>1
      <4> QED
        BY <4>1
    <3>2. CASE i \in Entries
      <4>1. entry'[i] = entry[i] /\ \A x \in applied : entry'[x] = entry[x]
        BY <1>1, <1>2, <3>2
      <4> QED
        BY <2>3, <3>2, <4>1 DEF Over
    <3> QED
      BY <1>1, <2>4, <3>1, <3>2
  <2> QED
    BY <2>1, <2>2, <2>4 DEF OrderOK, Over
<1> QED
  BY <1>3, <1>4, <1>5

LEMMA EnteringAgent ==
  ASSUME IInv, NEW s \in Sessions, NEW new, NEW old, Entering(s, new, old),
         UNCHANGED <<machine, session, applied, life, doubt>>,
         UNCHANGED <<pc, reply, batch, receipt, late>>
  PROVE  CycleOK' /\ ReceiptsOK' /\ RecentOK' /\ BatchesOK'
<1>1. /\ new.input \in Nat /\ Entries' = Entries \cup {new.input}
      /\ \A i \in Entries : i < new.input /\ i \in Nat /\ entry'[i] = entry[i]
      /\ queue'[s] = (queue[s] \ old) \cup {new}
      /\ \A t \in Sessions \ {s} : queue'[t] = queue[t]
      /\ old \subseteq queue[s] /\ session[s] = "open"
  <2>1. /\ old \subseteq queue[s] /\ session[s] = "open"
        /\ \A i \in Entries : i \in Nat
    BY EntryFacts DEF Entering
  <2>2. /\ new.input \in Nat /\ Entries' = Entries \cup {new.input}
        /\ \A i \in Entries : i < new.input /\ entry'[i] = entry[i]
        /\ queue'[s] = (queue[s] \ old) \cup {new}
        /\ \A t \in Sessions \ {s} : queue'[t] = queue[t]
        /\ entry'[new.input] = [session |-> s, move |-> new.move, row |-> new.row]
    BY EnteredFacts
  <2> QED
    BY <2>1, <2>2
<1>2. new.input \notin Entries /\ applied \subseteq Entries /\ Recent \subseteq applied
  BY <1>1 DEF IInv, LinkTypes
<1>3. UNCHANGED <<pc, reply, batch, receipt, late>> /\ UNCHANGED Recent /\ UNCHANGED RowsDone
  BY DEF Recent, RowsDone
\* A row that a receipt acknowledges is never replaced, and a new one is not
\* acknowledged yet.
<1>4. ASSUME NEW c, c # None, ReceiptOK(c), c.session = s
      PROVE  new.row \notin c.rows
  <2>1. CASE old = {}
    BY <1>2, <1>4, <2>1 DEF ReceiptOK, Entering
  <2>2. ASSUME NEW r \in old
        PROVE  new.row \notin c.rows
    <3>1. r \in queue[c.session] /\ r.row = new.row /\ r.input \notin applied
      BY <1>1, <1>4, <2>2, EnteringSupersedes DEF Entering
    <3> QED
      BY <1>4, <3>1 DEF ReceiptOK
  <2> QED
    BY <2>1, <2>2
<1>5. ASSUME NEW c, c # None, ReceiptOK(c), c.session \in Sessions,
             NEW q \in queue'[c.session], q.row \in c.rows
      PROVE  q \in queue[c.session]
  BY <1>1, <1>4, <1>5
<1>6. ASSUME NEW c, ReceiptOK(c), c = None \/ c.session \in Sessions
      PROVE  ReceiptOK(c)'
  BY <1>1, <1>5, <1>6 DEF ReceiptOK
<1>7. /\ ReceiptOK(receipt) /\ (receipt = None \/ receipt.session \in Sessions)
      /\ \A c \in late : ReceiptOK(c) /\ (c = None \/ c.session \in Sessions)
  BY DEF IInv, ReceiptsOK, LinkTypes, TypeOK, Receipts
<1>8. ReceiptsOK'
  BY <1>3, <1>6, <1>7 DEF ReceiptsOK
<1>9. CycleOK'
  <2>1. ASSUME pc = "delivering", reply # None, NEW q \in queue'[receipt.session]
        PROVE  q.row \notin receipt.rows
    BY <1>5, <1>7, <2>1 DEF IInv, CycleOK
  <2> QED
    BY <1>3, <2>1 DEF IInv, CycleOK, Over
<1>10. RecentOK'
  <2>1. ASSUME NEW t \in Sessions, NEW q \in queue'[t], ~Over(t)
        PROVE  /\ q.input \in Recent =>
                    /\ receipt # None /\ receipt.session = t
                    /\ receipt.failed \/ q.row \in receipt.rows
                    /\ pc = "applying" => q.row \in RowsDone
               /\ \A x \in Recent :
                    entry[x].session = t /\ q.input < x => q.input \in Recent
    <3>1. CASE q = new
      BY <1>1, <1>2, <3>1
    <3>2. CASE q \in queue[t]
      BY <2>1, <3>2 DEF IInv, RecentOK
    <3> QED
      BY <1>1, <2>1, <3>1, <3>2
  <2>2. \A x \in Recent : entry'[x] = entry[x]
    BY <1>1, <1>2
  <2> QED
    BY <1>3, <2>1, <2>2 DEF RecentOK, Over
<1>11. ASSUME NEW b \in Batches, b.session \in Sessions, BatchOK(b)
       PROVE  BatchOK(b)'
  <2>1. ASSUME NEW r \in b.rows
        PROVE  /\ r.row # new.row /\ HoldsEntry(r, b.session)'
               /\ HoldsEntry(r, b.session) /\ r.delivered
               /\ \A q \in queue[b.session] : q.row = r.row => q = r
    <3>1. /\ HoldsEntry(r, b.session) /\ r.delivered
          /\ \A q \in queue[b.session] : q.row = r.row => q = r
      BY <1>11, <2>1 DEF BatchOK
    <3>2. r \notin old
      BY <3>1 DEF Entering
    <3> QED
      BY <1>11, <3>1, <3>2, RowsApart
  <2>2. ASSUME NEW r \in b.rows, NEW q \in queue'[b.session], q.row = r.row
        PROVE  q = r
    BY <1>1, <1>11, <2>1, <2>2
  <2>3. ASSUME NEW r \in b.left
        PROVE  LeftOK(b, r)'
    <3>1. LeftOK(b, r) /\ r.input \in Entries /\ entry[r.input].session = b.session
      <4>1. LeftOK(b, r) /\ r \in b.rows
        BY <1>11, <2>3 DEF BatchOK
      <4>2. HoldsEntry(r, b.session)
        BY <2>1, <4>1
      <4> QED
        BY <4>1, <4>2 DEF HoldsEntry
    <3>2. \A x \in Recent : entry'[x] = entry[x]
      BY <1>1, <1>2
    <3>3. ASSUME NEW i \in 1 .. r.input - 1, entry'[i].session = b.session
          PROVE  i \in applied \/ Superseded(i)' \/ \E q \in b.left : q.input = i
      <4>1. i \in Entries
        BY <3>1, EntryFacts DEF Entries
      <4> QED
        BY <1>1, <3>1, <3>3, <4>1, EnteringSupersedes DEF LeftOK
    <3>4. ASSUME ~Over(b.session), NEW q \in queue'[b.session], q.input < r.input
          PROVE  q.input \in Recent \/ q \in b.left
      <4>1. q # new
        BY <1>1, <3>1, <3>4
      <4> QED
        BY <1>1, <1>11, <3>1, <3>4, <4>1 DEF LeftOK
    <3> QED
      BY <1>3, <3>1, <3>2, <3>3, <3>4 DEF LeftOK, Over
  <2> QED
    BY <1>11, <2>1, <2>2, <2>3 DEF BatchOK
<1>12. ASSUME NEW b \in AtHand
       PROVE  b \in Batches /\ b.session \in Sessions
  BY <1>12 DEF AtHand, IInv, LinkTypes, CycleOK, Batches
<1>13. BatchesOK'
  <2>1. AtHand' = AtHand
    BY <1>3 DEF AtHand
  <2> QED
    BY <1>11, <1>12, <2>1 DEF BatchesOK, IInv
<1> QED
  BY <1>8, <1>9, <1>10, <1>13

LEMMA QueueConsoleInputOK ==
  ASSUME IInv, NEW s \in Sessions, QueueConsoleInput(s)
  PROVE  IInv'
<1>1. PICK new, old : Entering(s, new, old)
  BY QueueEnters
<1>2. /\ UNCHANGED <<machine, session, tenantActive, permitted>>
      /\ UNCHANGED <<unrest, switchVars, workerVars, framing, effectVars>>
  BY DEF QueueConsoleInput, UserStep
<1>3. UNCHANGED <<applied, life, doubt, pc, reply, batch, receipt, late, enabled, woken>>
  BY <1>2 DEF effectVars, workerVars, switchVars
<1>4. EntryOK' /\ RowsOK' /\ OrderOK'
  BY <1>1, <1>2, <1>3, EnteringEntries
<1>5. CycleOK' /\ ReceiptsOK' /\ RecentOK' /\ BatchesOK'
  BY <1>1, <1>2, <1>3, EnteringAgent
<1>6. SessionsOK'
  BY <1>2 DEF IInv, SessionsOK, Over
<1>7. \A t \in Sessions : IsFiniteSet(queue'[t]) /\ Cardinality(queue'[t]) <= QueueLimit
  <2>1. \A t \in Sessions : IsFiniteSet(queue[t]) /\ Cardinality(queue[t]) <= QueueLimit
    BY DEF IInv, TypeOK, LinkTypes
  <2>2. IsFiniteSet(queue'[s]) /\ Cardinality(queue'[s]) <= QueueLimit
    BY <1>1 DEF Entering
  <2>3. \A t \in Sessions \ {s} : queue'[t] = queue[t]
    BY <1>1, EnteredFacts
  <2> QED
    BY <2>1, <2>2, <2>3
<1>8. TypeOK'
  <2>1. queue' \in [Sessions -> SUBSET InputRows]
    BY <1>1, EnteredFacts
  <2>2. UNCHANGED Open /\ UNCHANGED Receipt({}, TRUE)
    BY <1>2, <1>3 DEF Open, Receipt
  <2> QED
    BY <1>2, <1>3, <1>7, <2>1, <2>2 DEF IInv, TypeOK
<1>9. LinkTypes'
  <2>1. entry' \in Seq(Events) /\ Len(entry') <= MaxInputs /\ Entries \subseteq Entries'
    BY <1>1, EnteredFacts
  <2>2. UNCHANGED Recent
    BY <1>3 DEF Recent
  <2> QED
    BY <1>3, <1>7, <2>1, <2>2 DEF IInv, LinkTypes, Events
<1> QED
  BY <1>4, <1>5, <1>6, <1>8, <1>9 DEF IInv

-----------------------------------------------------------------------------
(* The input worker. *)

\* What the portal keeps, and what is known of the inputs that were applied.
History ==
  /\ SessionsOK /\ EntryOK /\ RowsOK /\ OrderOK
  /\ applied \subseteq Entries /\ life \in Seq(Nat) /\ Recent \subseteq applied

LEMMA NoEffect ==
  ASSUME IInv, WorkerKeeps, UNCHANGED effectVars
  PROVE  History' /\ applied \subseteq applied' /\ Ages /\ Shrinks /\ Remains
<1>1. UNCHANGED <<machine, session, queue, entry, applied, life, doubt>>
  BY DEF WorkerKeeps, portalVars, effectVars
<1>2. Ages /\ Shrinks /\ Remains
  BY <1>1, SameQueue DEF Ages, Remains, IInv, TypeOK
<1>3. EntryOK' /\ RowsOK' /\ OrderOK'
  BY <1>2, ShrinksEntries
<1>4. SessionsOK'
  BY <1>1, <1>2, SessionsStay
<1>5. UNCHANGED Recent /\ UNCHANGED Entries
  BY <1>1 DEF Recent, Entries
<1> QED
  BY <1>1, <1>2, <1>3, <1>4, <1>5 DEF History, IInv, LinkTypes

LEMMA BatchFacts ==
  ASSUME IInv, pc = "applying", NEW r \in batch.rows
  PROVE  /\ batch.session \in Sessions /\ r \in InputRows /\ r.row \in Nat
         /\ r.delivered /\ r.input \in Entries /\ ~Superseded(r.input)
         /\ entry[r.input].session = batch.session /\ entry[r.input].row = r.row
         /\ entry[r.input].move = r.move
         /\ \A q \in queue[batch.session] : q.row = r.row => q = r
         /\ r \in batch.left => LeftOK(batch, r)
         /\ r \notin batch.left => r.input \in applied
<1>1. BatchOK(batch) /\ batch.session \in Sessions
  BY DEF IInv, BatchesOK, AtHand, CycleOK
<1>2. batch.rows \subseteq InputRows
  BY DEF IInv, LinkTypes, Batches
<1>3. HoldsEntry(r, batch.session) /\ r.delivered
      /\ \A q \in queue[batch.session] : q.row = r.row => q = r
  BY <1>1 DEF BatchOK
<1>4. /\ r \in batch.left => LeftOK(batch, r)
      /\ r \notin batch.left => r.input \in applied
  BY <1>1 DEF BatchOK
<1>5. r \in InputRows /\ r.row \in Nat
  BY <1>2, ConsoleAssumption DEF InputRows
<1>6. /\ r.input \in Entries /\ ~Superseded(r.input)
      /\ entry[r.input].session = batch.session /\ entry[r.input].row = r.row
      /\ entry[r.input].move = r.move
  BY <1>3 DEF HoldsEntry
<1> QED
  BY <1>1, <1>3, <1>4, <1>5, <1>6

\* The inputs of a batch are applied in their order.
LEMMA FirstLeast ==
  ASSUME IInv, pc = "applying", NEW r \in First, NEW q \in batch.left, q # r
  PROVE  r.input < q.input
<1>1. r \in batch.left /\ r.row <= q.row
  BY DEF First
<1>2. batch.left \subseteq batch.rows
  BY DEF IInv, BatchesOK, AtHand, BatchOK
<1>3. /\ r \in InputRows /\ q \in InputRows /\ r.delivered /\ q.delivered
      /\ r.row \in Nat /\ q.row \in Nat
      /\ r.input \in Entries /\ q.input \in Entries /\ ~Superseded(q.input)
      /\ entry[r.input].session = entry[q.input].session
      /\ entry[r.input].row = r.row /\ entry[r.input].move = r.move
      /\ entry[q.input].row = q.row /\ entry[q.input].move = q.move
  BY <1>1, <1>2, BatchFacts
<1>4. ASSUME r.input = q.input
      PROVE  FALSE
  BY <1>3, <1>4 DEF InputRows
<1>5. ASSUME q.input < r.input
      PROVE  FALSE
  <2>1. r.input \in q.input + 1 .. Len(entry)
    BY <1>3, <1>5, EntryFacts DEF Entries
  <2>2. q.row <= r.row
    BY <1>3, <2>1 DEF IInv, EntryOK
  <2>3. q.row = r.row
    BY <1>1, <1>3, <2>2
  <2> QED
    BY <1>3, <2>1, <2>3 DEF Superseded
<1> QED
  BY <1>3, <1>4, <1>5, EntryFacts

LEMMA Effects ==
  ASSUME IInv, pc = "applying", NEW r \in First, Effect(r), WorkerKeeps
  PROVE  /\ History' /\ applied' = applied \cup {r.input}
         /\ Recent' = Recent \cup {r.input}
<1>1. UNCHANGED <<machine, session, queue, entry, doubt>>
      /\ applied' = applied \cup {r.input} /\ life' = Append(life, r.input)
  BY DEF WorkerKeeps, portalVars, Effect
<1>2. r \in batch.left /\ r \in batch.rows
  BY DEF First, IInv, BatchesOK, AtHand, BatchOK
<1>3. /\ r.input \in Entries /\ r.delivered /\ ~Superseded(r.input)
      /\ entry[r.input].session = batch.session /\ entry[r.input].row = r.row
      /\ \A q \in queue[batch.session] : q.row = r.row => q = r
      /\ LeftOK(batch, r)
  BY <1>2, BatchFacts
<1>4. r.input \in Nat /\ UNCHANGED Entries /\ \A i : Superseded(i)' <=> Superseded(i)
  BY <1>1, <1>3, EntryFacts DEF Entries, Superseded
<1>5. life' \in Seq(Nat) /\ Recent' = Recent \cup {r.input}
  <2>1. life \in Seq(Nat)
    BY DEF IInv, LinkTypes
  <2>2. /\ life' \in Seq(Nat) /\ Len(life') = Len(life) + 1
        /\ \A n \in 1 .. Len(life) : life'[n] = life[n]
        /\ life'[Len(life) + 1] = r.input
    BY <1>1, <1>4, <2>1, AppendProperties
  <2>3. DOMAIN life = 1 .. Len(life) /\ DOMAIN life' = 1 .. Len(life) + 1
        /\ Len(life) \in Nat
    BY <2>1, <2>2, LenProperties
  <2> QED
    BY <2>2, <2>3 DEF Recent
<1>6. EntryOK' /\ SessionsOK'
  BY <1>1, <1>4 DEF IInv, EntryOK, SessionsOK, Over
<1>7. RowsOK'
  <2>1. ASSUME NEW t \in Sessions, NEW q \in queue[t]
        PROVE  RowOK(q, t)'
    <3>1. RowOK(q, t) /\ entry[q.input].session = t /\ entry[q.input].row = q.row
      BY <2>1, RowFacts
    <3>2. HoldsEntry(q, t)'
      BY <1>1, <1>4, <3>1 DEF RowOK, HoldsEntry
    <3>3. q.input = r.input => q.delivered
      BY <1>3, <2>1, <3>1
    <3> QED
      BY <1>1, <1>5, <3>1, <3>2, <3>3 DEF RowOK
  <2> QED
    BY <1>1, <2>1 DEF RowsOK
<1>8. ASSUME NEW i \in 1 .. r.input - 1, entry[i].session = batch.session
      PROVE  i \in applied \/ Superseded(i)
  <2>1. ASSUME NEW q \in batch.left, q.input = i
        PROVE  FALSE
    <3>1. q # r
      BY <1>4, <2>1, <1>8
    <3> QED
      BY <1>4, <1>8, <2>1, <3>1, FirstLeast
  <2> QED
    BY <1>3, <1>8, <2>1 DEF LeftOK
<1>9. OrderOK'
  <2>1. ASSUME NEW x \in applied'
        PROVE  ~Superseded(x) /\ \A i \in 1 .. x - 1 :
                 entry[i].session = entry[x].session => i \in applied \/ Superseded(i)
    <3>1. CASE x \in applied
      BY <3>1 DEF IInv, OrderOK
    <3>2. CASE x = r.input
      BY <1>3, <1>8, <3>2
    <3> QED
      BY <1>1, <2>1, <3>1, <3>2
  <2>2. ASSUME NEW i \in Entries
        PROVE  \/ Over(entry[i].session)
               \/ \E q \in queue[entry[i].session] : q.row = entry[i].row
               \/ \E x \in applied' : entry[x].row = entry[i].row
    BY <1>1, <2>2 DEF IInv, OrderOK
  <2> QED
    BY <1>1, <1>4, <2>1, <2>2 DEF OrderOK, Over
<1>10. applied' \subseteq Entries' /\ Recent' \subseteq applied'
  BY <1>1, <1>3, <1>4, <1>5 DEF IInv, LinkTypes
<1> QED
  BY <1>1, <1>5, <1>6, <1>7, <1>9, <1>10 DEF History

\* What a batch's input tells about its session's rows.
LEMMA EffectsRecent ==
  ASSUME IInv, pc = "applying", NEW r \in First,
         NEW t \in Sessions, NEW q \in queue[t], ~Over(t)
  PROVE  /\ q.input = r.input => t = batch.session /\ q.row = r.row
         /\ \A x \in Recent \cup {r.input} :
              entry[x].session = t /\ q.input < x => q.input \in Recent
<1>1. r \in batch.left /\ r \in batch.rows
  BY DEF First, IInv, BatchesOK, AtHand, BatchOK
<1>2. /\ entry[r.input].session = batch.session /\ entry[r.input].row = r.row
      /\ LeftOK(batch, r) /\ r.input \in Entries
  BY <1>1, BatchFacts
<1>3. entry[q.input].session = t /\ entry[q.input].row = q.row /\ q.input \in Entries
  BY RowFacts
<1>4. ASSUME entry[r.input].session = t, q.input < r.input
      PROVE  q.input \in Recent
  <2>1. q.input \in Recent \/ q \in batch.left
    BY <1>2, <1>4 DEF LeftOK
  <2>2. ASSUME q \in batch.left
        PROVE  FALSE
    <3>1. q # r
      BY <1>2, <1>3, <1>4, EntryFacts
    <3> QED
      BY <1>2, <1>3, <1>4, <2>2, <3>1, FirstLeast, EntryFacts
  <2> QED
    BY <2>1, <2>2
<1>5. \A x \in Recent : entry[x].session = t /\ q.input < x => q.input \in Recent
  BY DEF IInv, RecentOK
<1> QED
  BY <1>2, <1>3, <1>4, <1>5

LEMMA ReceiptsStay ==
  ASSUME IInv, UNCHANGED <<session, queue, entry>>, applied \subseteq applied'
  PROVE  /\ \A c : ReceiptOK(c) => ReceiptOK(c)'
         /\ ReceiptOK(None)'
         /\ late \cup {receipt} \subseteq Receipts \cup {None}
         /\ \A c \in late \cup {receipt} : ReceiptOK(c)'
<1>1. \A c : ReceiptOK(c) => ReceiptOK(c)'
  BY DEF ReceiptOK, Entries
<1> QED
  BY <1>1 DEF IInv, ReceiptsOK, LinkTypes, TypeOK, ReceiptOK

\* The worker's typing, and the portal's that it keeps.
WorkerTyped ==
  /\ enabled \in BOOLEAN /\ woken \in BOOLEAN
  /\ pc \in {"idle", "polling", "applying", "delivering"}
  /\ receipt = None \/ receipt \in Receipts
  /\ pc = "applying" => receipt = Receipt({}, TRUE)
  /\ reply \in Batches \cup {None} /\ batch \in Batches

LEMMA WorkerAssemble ==
  ASSUME IInv, WorkerKeeps, Disturb \/ UNCHANGED unrest,
         History', applied \subseteq applied', WorkerTyped',
         late' \subseteq late \cup {receipt}, ReceiptOK(receipt)',
         CycleOK', RecentOK', BatchesOK'
  PROVE  IInv'
<1>1. UNCHANGED <<machine, session, tenantActive, permitted, queue, entry, framing>>
  BY DEF WorkerKeeps, portalVars
<1>2. unrest' \in 0 .. MaxUnrest
  BY DisturbTypes
<1>3. TypeOK'
  <2>1. UNCHANGED Open
    BY <1>1 DEF Open
  <2> QED
    BY <1>1, <1>2, <2>1 DEF IInv, TypeOK, WorkerTyped
<1>4. LinkTypes' /\ ReceiptsOK'
  <2>1. late' \subseteq Receipts \cup {None} /\ \A c \in late' : ReceiptOK(c)'
    BY <1>1, ReceiptsStay
  <2>2. LinkTypes'
    BY <1>1, <2>1 DEF IInv, LinkTypes, History, WorkerTyped
  <2>3. ReceiptsOK'
    BY <2>1 DEF ReceiptsOK
  <2> QED
    BY <2>2, <2>3
<1> QED
  BY <1>3, <1>4 DEF IInv, History

\* The worker has no batch, or gives it up.
LEMMA Rests ==
  ASSUME IInv, WorkerKeeps, Disturb \/ UNCHANGED unrest,
         History', applied \subseteq applied',
         enabled' \in BOOLEAN, woken' \in BOOLEAN,
         pc' \in {"idle", "polling", "delivering"},
         receipt' = None \/ receipt' \in Receipts,
         reply' = None, batch' \in Batches,
         late' \subseteq late \cup {receipt}, ReceiptOK(receipt)', RecentOK',
         pc' = "polling" => receipt' = None,
         pc' = "delivering" => receipt' # None
  PROVE  IInv'
<1>1. WorkerTyped'
  BY DEF WorkerTyped
<1>2. CycleOK'
  BY DEF CycleOK
<1>3. BatchesOK'
  BY DEF BatchesOK, AtHand
<1> QED
  BY <1>1, <1>2, <1>3, WorkerAssemble

\* The same, where no input has its effect and the receipt is kept.
LEMMA RestsIdly ==
  ASSUME IInv, WorkerKeeps, Disturb \/ UNCHANGED unrest, UNCHANGED effectVars,
         enabled' \in BOOLEAN, woken' \in BOOLEAN,
         pc' \in {"idle", "polling", "delivering"},
         UNCHANGED receipt, reply' = None, batch' \in Batches,
         late' \subseteq late \cup {receipt},
         pc' = "polling" => receipt = None,
         pc' = "delivering" => receipt # None
  PROVE  IInv' /\ Ages /\ Shrinks /\ Remains
<1>1. History' /\ applied \subseteq applied' /\ Ages /\ Shrinks /\ Remains
  BY NoEffect
<1>2. UNCHANGED <<session, queue, entry, applied>> /\ UNCHANGED Recent
  BY DEF WorkerKeeps, portalVars, effectVars, Recent
<1>3. ReceiptOK(receipt)' /\ receipt' \in Receipts \cup {None}
  BY <1>2, ReceiptsStay DEF ReceiptOK
<1>4. RecentOK'
  BY <1>2 DEF IInv, RecentOK, Over
<1> QED
  BY <1>1, <1>3, <1>4, Rests

LEMMA SwitchTypes ==
  ASSUME IInv
  PROVE  enabled \in BOOLEAN /\ woken \in BOOLEAN /\ batch \in Batches
         /\ NoBatch \in Batches
BY DEF IInv, TypeOK, LinkTypes, NoBatch, Batches

LEMMA BeginCycleOK ==
  ASSUME IInv, BeginCycle
  PROVE  IInv' /\ Ages /\ Shrinks /\ Remains
<1>1. pc' \in {"idle", "polling", "delivering"}
      /\ (pc' = "polling" => receipt = None) /\ (pc' = "delivering" => receipt # None)
  BY DEF BeginCycle
<1>2. enabled' \in BOOLEAN /\ woken' \in BOOLEAN /\ batch' \in Batches
  BY SwitchTypes DEF BeginCycle
<1> QED
  BY <1>1, <1>2, RestsIdly DEF BeginCycle

LEMMA CycleFailsOK ==
  ASSUME IInv, CycleFails
  PROVE  IInv' /\ Ages /\ Shrinks /\ Remains
<1>1. enabled' \in BOOLEAN /\ woken' \in BOOLEAN /\ batch' \in Batches
  BY SwitchTypes DEF CycleFails, Abandon, switchVars
<1>2. late' \subseteq late \cup {receipt}
  BY DEF CycleFails, Abandon
<1> QED
  BY <1>1, <1>2, RestsIdly DEF CycleFails, Abandon

LEMMA ExchangeRefusedOK ==
  ASSUME IInv, ExchangeRefused
  PROVE  IInv' /\ Ages /\ Shrinks /\ Remains
<1>1. enabled' \in BOOLEAN /\ woken' \in BOOLEAN /\ batch' \in Batches
  BY SwitchTypes DEF ExchangeRefused, switchVars
<1> QED
  BY <1>1, RestsIdly DEF ExchangeRefused

\* A receipt is gone once its rows are, or their session has ended.
LEMMA ReceiptDeliveredOK ==
  ASSUME IInv, ReceiptDelivered
  PROVE  IInv' /\ Ages /\ Shrinks /\ Remains
<1>1. /\ pc = "delivering" /\ reply # None /\ receipt' = None
      /\ EndCycle(reply.active)
      /\ WorkerKeeps /\ UNCHANGED <<unrest, late, effectVars>>
  BY DEF ReceiptDelivered
<1>2. /\ pc' = "idle" /\ reply' = None /\ batch' = NoBatch
      /\ enabled' \in BOOLEAN /\ woken' \in BOOLEAN
  BY <1>1, SwitchTypes DEF EndCycle
<1>3. History' /\ applied \subseteq applied' /\ Ages /\ Shrinks /\ Remains
  BY <1>1, NoEffect
<1>4. UNCHANGED <<session, queue, entry, applied>> /\ UNCHANGED Recent
  BY <1>1 DEF WorkerKeeps, portalVars, effectVars, Recent
<1>5. ReceiptOK(receipt)'
  BY <1>1, <1>3, <1>4, ReceiptsStay DEF ReceiptOK
<1>6. RecentOK'
  <2>1. ASSUME NEW s \in Sessions, NEW r \in queue[s], ~Over(s)
        PROVE  /\ r.input \notin Recent
               /\ \A x \in Recent : entry[x].session = s /\ r.input < x => r.input \in Recent
    BY <1>1, <2>1 DEF IInv, RecentOK, CycleOK
  <2> QED
    BY <1>4, <2>1 DEF RecentOK, Over
<1> QED
  BY <1>1, <1>2, <1>3, <1>5, <1>6, Rests, SwitchTypes

LEMMA NotNone ==
  \A c \in Receipts : c # None
BY ConsoleAssumption

\* While a batch is applied, the receipt of its failure is there.
LEMMA FailureThere ==
  ASSUME IInv, pc = "applying"
  PROVE  /\ receipt \in Receipts /\ receipt # None
         /\ receipt.session = batch.session /\ receipt.failed
<1>1. receipt = Receipt({}, TRUE) /\ batch.session \in Sessions
  BY DEF IInv, TypeOK, CycleOK
<1>2. receipt \in Receipts /\ receipt.session = batch.session /\ receipt.failed
  BY <1>1 DEF Receipt, Receipts
<1> QED
  BY <1>2, NotNone

\* A batch is taken over when nothing of its session was applied in this life.
LEMMA ReceiveBatchOK ==
  ASSUME IInv, ReceiveBatch
  PROVE  IInv' /\ Ages /\ Shrinks /\ Remains
<1>1. /\ pc = "polling" /\ reply # None /\ receipt = None
      /\ WorkerKeeps /\ UNCHANGED <<unrest, late, effectVars>>
  BY DEF ReceiveBatch, IInv, CycleOK
<1>2. CASE EndCycle(reply.active) /\ UNCHANGED receipt
  <2>1. /\ pc' = "idle" /\ reply' = None /\ batch' = NoBatch
        /\ enabled' \in BOOLEAN /\ woken' \in BOOLEAN
    <3>1. reply.active \in BOOLEAN
      BY <1>1 DEF IInv, LinkTypes, Batches
    <3> QED
      BY <1>2, <3>1, SwitchTypes DEF EndCycle
  <2> QED
    BY <1>1, <1>2, <2>1, RestsIdly, SwitchTypes
<1>3. CASE /\ reply.session # None /\ pc' = "applying" /\ batch' = reply /\ reply' = None
           /\ receipt' = [session |-> reply.session, rows |-> {}, failed |-> TRUE]
           /\ UNCHANGED switchVars
  <2>1. reply \in Batches /\ reply.session \in Sessions /\ reply \in AtHand
    BY <1>1, <1>3 DEF IInv, LinkTypes, Batches, AtHand
  <2>2. History' /\ applied \subseteq applied' /\ Ages /\ Shrinks /\ Remains
    BY <1>1, NoEffect
  <2>3. UNCHANGED <<session, queue, entry, applied>> /\ UNCHANGED Recent
    BY <1>1 DEF WorkerKeeps, portalVars, effectVars, Recent
  <2>4. BatchOK(reply) /\ session[reply.session] # "absent"
    BY <2>1 DEF IInv, BatchesOK, BatchOK
  <2>5. ReceiptOK(receipt)'
    BY <1>3, <2>3, <2>4 DEF ReceiptOK
  <2>6. WorkerTyped'
    BY <1>3, <2>1, SwitchTypes DEF WorkerTyped, Receipt, Receipts, switchVars
  <2>7. receipt' # None
    <3>1. receipt' \in Receipts
      BY <1>3, <2>1 DEF Receipts
    <3> QED
      BY <3>1, NotNone
  <2>8. CycleOK'
    BY <1>3, <2>1 DEF CycleOK
  <2>9. RecentOK'
    <3>1. ASSUME NEW s \in Sessions, NEW r \in queue[s], ~Over(s)
          PROVE  /\ r.input \notin Recent
                 /\ \A x \in Recent : entry[x].session = s /\ r.input < x => r.input \in Recent
      BY <1>1, <3>1 DEF IInv, RecentOK
    <3> QED
      BY <2>3, <3>1 DEF RecentOK, Over
  <2>10. BatchesOK'
    <3>1. AtHand' = {reply}
      BY <1>3 DEF AtHand
    <3>2. \A b \in Batches : b.session # None /\ BatchOK(b) => BatchOK(b)'
      BY <2>2, ShrinksAgent
    <3>3. \A b \in AtHand' : BatchOK(b)'
      BY <1>3, <2>1, <2>4, <3>1, <3>2
    <3> QED
      BY <3>3 DEF BatchesOK
  <2> QED
    BY <1>1, <2>2, <2>5, <2>6, <2>8, <2>9, <2>10, WorkerAssemble
<1> QED
  BY <1>2, <1>3 DEF ReceiveBatch

LEMMA ApplyInputOK ==
  ASSUME IInv, ApplyInput
  PROVE  IInv'
<1>1. PICK r \in First :
        Effect(r) /\ batch' = [batch EXCEPT !.left = batch.left \ {r}]
  BY DEF ApplyInput
<1>2. /\ pc = "applying" /\ reply = None /\ batch.session \in Sessions
      /\ receipt = Receipt({}, TRUE) /\ WorkerKeeps
      /\ UNCHANGED <<unrest, switchVars, pc, reply, receipt, late>>
  BY DEF ApplyInput, IInv, CycleOK, TypeOK
<1>3. /\ History' /\ applied' = applied \cup {r.input}
      /\ Recent' = Recent \cup {r.input}
  BY <1>1, <1>2, Effects
<1>4. UNCHANGED <<machine, session, queue, entry, doubt>>
  BY <1>1, <1>2 DEF WorkerKeeps, portalVars, Effect
<1>5. r \in batch.left /\ batch \in Batches /\ BatchOK(batch)
      /\ batch.left \subseteq batch.rows
  BY <1>2 DEF First, IInv, LinkTypes, BatchesOK, AtHand, BatchOK
<1>6. /\ batch' \in Batches /\ batch'.session = batch.session
      /\ batch'.rows = batch.rows /\ batch'.left = batch.left \ {r}
  BY <1>1, <1>5 DEF Batches
<1>7. WorkerTyped'
  <2>1. Receipt({}, TRUE)' = Receipt({}, TRUE)
    BY <1>6 DEF Receipt
  <2>2. enabled' \in BOOLEAN /\ woken' \in BOOLEAN /\ receipt' \in Receipts
    BY <1>2, SwitchTypes DEF switchVars, Receipt, Receipts
  <2> QED
    BY <1>2, <1>6, <2>1, <2>2 DEF WorkerTyped, IInv, LinkTypes
<1>8. CycleOK'
  BY <1>2, <1>6 DEF CycleOK
<1>9. ReceiptOK(receipt)'
  BY <1>2, <1>3, <1>4, ReceiptsStay
<1>10. RowsDone' = RowsDone \cup {r.row}
  BY <1>5, <1>6 DEF RowsDone
<1>11. RecentOK'
  <2>1. receipt # None /\ receipt.session = batch.session /\ receipt.failed
    BY <1>2, FailureThere
  <2>2. ASSUME NEW t \in Sessions, NEW q \in queue[t], ~Over(t)
        PROVE  /\ q.input \in Recent' => t = batch.session /\ q.row \in RowsDone'
               /\ \A x \in Recent' :
                    entry[x].session = t /\ q.input < x => q.input \in Recent'
    <3>1. /\ q.input = r.input => t = batch.session /\ q.row = r.row
          /\ \A x \in Recent \cup {r.input} :
               entry[x].session = t /\ q.input < x => q.input \in Recent
      BY <1>2, <2>2, EffectsRecent
    <3>2. q.input \in Recent => t = batch.session /\ q.row \in RowsDone
      BY <1>2, <2>1, <2>2 DEF IInv, RecentOK
    <3> QED
      BY <1>3, <1>10, <3>1, <3>2
  <2> QED
    BY <1>2, <1>4, <2>1, <2>2 DEF RecentOK, Over
<1>12. PICK b \in Batches : b = batch'
  BY <1>6
<1>13. BatchOK(b)'
  <2>1. \A i : Superseded(i)' <=> Superseded(i)
    BY <1>4 DEF Superseded
  <2>2. ASSUME NEW q \in b.rows
        PROVE  /\ HoldsEntry(q, b.session)' /\ q.delivered
               /\ \A p \in queue'[b.session] : p.row = q.row => p = q
    BY <1>4, <1>5, <1>6, <1>12, <2>1, <2>2 DEF BatchOK, HoldsEntry, Entries
  <2>3. ASSUME NEW q \in b.rows \ b.left
        PROVE  q.input \in applied'
    BY <1>3, <1>5, <1>6, <1>12, <2>3 DEF BatchOK
  <2>4. ASSUME NEW q \in b.left
        PROVE  LeftOK(b, q)'
    <3>1. q \in batch.left /\ q # r /\ q \in batch.rows
      BY <1>5, <1>6, <1>12, <2>4
    <3>2. LeftOK(batch, q) /\ r.input < q.input
      BY <1>1, <1>2, <3>1, FirstLeast, BatchFacts
    <3>3. q.input \notin Recent' /\ (q.input \in applied' => q.input \in doubt)
      <4>1. q.input # r.input
        <5>1. q.input \in Nat /\ r.input \in Nat
          BY <1>2, <1>5, <3>1, BatchFacts, EntryFacts
        <5> QED
          BY <3>2, <5>1
      <4> QED
        BY <1>3, <3>2, <4>1 DEF LeftOK
    <3>4. \A x \in Recent' :
            machine[entry[x].session] = machine[b.session] => x < q.input
      BY <1>3, <1>6, <1>12, <3>2 DEF LeftOK
    <3>5. ASSUME NEW i \in 1 .. q.input - 1, entry[i].session = b.session
          PROVE  i \in applied' \/ Superseded(i) \/ \E p \in b.left : p.input = i
      BY <1>3, <1>6, <1>12, <3>2, <3>5 DEF LeftOK
    <3>6. ASSUME ~Over(b.session), NEW p \in queue[b.session], p.input < q.input
          PROVE  p.input \in Recent' \/ p \in b.left
      BY <1>3, <1>6, <1>12, <3>2, <3>6 DEF LeftOK
    <3> QED
      BY <1>4, <2>1, <3>3, <3>4, <3>5, <3>6 DEF LeftOK, Over
  <2>5. session'[b.session] # "absent" /\ b.left \subseteq b.rows
    BY <1>4, <1>5, <1>6, <1>12 DEF BatchOK
  <2> QED
    BY <2>2, <2>3, <2>4, <2>5 DEF BatchOK
<1>14. BatchesOK'
  <2>1. AtHand' = {b}
    BY <1>2, <1>12 DEF AtHand
  <2> QED
    BY <1>13, <2>1 DEF BatchesOK
<1> QED
  BY <1>2, <1>3, <1>7, <1>8, <1>9, <1>11, <1>14, WorkerAssemble

\* The receipt at the end of a batch names what was applied; a failure also
\* covers the input that failed.
LEMMA Concludes ==
  ASSUME IInv, pc = "applying", WorkerKeeps, UNCHANGED late,
         Disturb \/ UNCHANGED unrest, NEW failed \in BOOLEAN,
         Conclude(RowsDone, failed),
         \/ UNCHANGED effectVars
         \/ failed /\ \E r \in First : Effect(r)
  PROVE  IInv'
<1>1. /\ batch.session \in Sessions /\ batch \in Batches /\ BatchOK(batch)
      /\ receipt # None /\ receipt.session = batch.session
  BY FailureThere DEF IInv, CycleOK, LinkTypes, BatchesOK, AtHand
<1>2. UNCHANGED <<session, queue, entry, machine>>
  BY DEF WorkerKeeps, portalVars
<1>3. receipt' = [session |-> batch.session, rows |-> RowsDone, failed |-> failed]
  BY DEF Conclude, Receipt
<1>4. pc' \in {"idle", "delivering"} /\ reply' = None /\ batch' \in Batches
      /\ enabled' \in BOOLEAN /\ woken' \in BOOLEAN
  <2>1. CASE enabled
    BY <1>1, <2>1, SwitchTypes DEF Conclude, switchVars
  <2>2. CASE ~enabled
    BY <2>2, SwitchTypes DEF Conclude, EndCycle
  <2> QED
    BY <2>1, <2>2
<1>5. ASSUME NEW r \in batch.rows
      PROVE  r.row \in 1 .. MaxInputs /\ r.row \in Entries
  <2>1. r \in InputRows /\ r.input \in Entries /\ entry[r.input].row = r.row
    BY <1>5, BatchFacts
  <2>2. r.row \in 1 .. MaxInputs /\ r.row <= r.input
    BY <2>1 DEF InputRows, IInv, EntryOK
  <2> QED
    BY <2>1, <2>2, ConsoleAssumption, EntryFacts DEF Entries
<1>6. receipt' \in Receipts
  BY <1>1, <1>3, <1>5 DEF Receipts, RowsDone
<1>7. receipt' # None
  BY <1>6, NotNone
<1>8. ReceiptOK(receipt)
  BY DEF IInv, ReceiptsOK
<1>9. ASSUME NEW q \in queue[batch.session], q.row \in RowsDone
      PROVE  q.input \in applied
  <2>1. PICK r \in batch.rows \ batch.left : r.row = q.row
    BY <1>9 DEF RowsDone
  <2>2. q = r /\ r.input \in applied
    BY <1>9, <2>1, BatchFacts
  <2> QED
    BY <2>2
<1>10. ASSUME applied \subseteq applied'
       PROVE  ReceiptOK(receipt)'
  <2>1. session[batch.session] # "absent"
    BY <1>1 DEF BatchOK
  <2>2. RowsDone \subseteq Entries
    BY <1>5 DEF RowsDone
  <2> QED
    BY <1>2, <1>3, <1>9, <1>10, <2>1, <2>2 DEF ReceiptOK, Entries
<1>11. ASSUME NEW t \in Sessions, NEW q \in queue[t], ~Over(t)
       PROVE  /\ q.input \in Recent => t = batch.session /\ q.row \in RowsDone
              /\ \A x \in Recent :
                   entry[x].session = t /\ q.input < x => q.input \in Recent
  BY <1>1, <1>11 DEF IInv, RecentOK
<1>12. CASE UNCHANGED effectVars
  <2>1. History' /\ applied \subseteq applied'
    BY <1>12, NoEffect
  <2>2. UNCHANGED Recent
    BY <1>12 DEF effectVars, Recent
  <2>3. RecentOK'
    BY <1>2, <1>3, <1>4, <1>7, <1>11, <2>2 DEF RecentOK, Over
  <2> QED
    BY <1>4, <1>6, <1>7, <1>10, <2>1, <2>3, Rests
<1>13. ASSUME failed, NEW r \in First, Effect(r)
       PROVE  IInv'
  <2>1. /\ History' /\ applied \subseteq applied' /\ Recent' = Recent \cup {r.input}
    BY <1>13, Effects
  <2>2. ASSUME NEW t \in Sessions, NEW q \in queue[t], ~Over(t)
        PROVE  /\ q.input \in Recent' => t = batch.session
               /\ \A x \in Recent' :
                    entry[x].session = t /\ q.input < x => q.input \in Recent'
    <3>1. /\ q.input = r.input => t = batch.session
          /\ \A x \in Recent \cup {r.input} :
               entry[x].session = t /\ q.input < x => q.input \in Recent
      BY <2>2, EffectsRecent
    <3> QED
      BY <1>11, <2>1, <2>2, <3>1
  <2>3. RecentOK'
    BY <1>2, <1>3, <1>4, <1>7, <1>13, <2>2 DEF RecentOK, Over
  <2> QED
    BY <1>4, <1>6, <1>7, <1>10, <2>1, <2>3, Rests
<1> QED
  BY <1>12, <1>13

LEMMA BatchAppliedOK ==
  ASSUME IInv, BatchApplied
  PROVE  IInv'
BY Concludes DEF BatchApplied

LEMMA BatchCancelledOK ==
  ASSUME IInv, BatchCancelled
  PROVE  IInv'
BY Concludes DEF BatchCancelled

LEMMA InputFailsOK ==
  ASSUME IInv, InputFails
  PROVE  IInv'
BY Concludes DEF InputFails

\* Nothing is recent after a restart; what the portal keeps is in doubt.
LEMMA ServiceRestartsOK ==
  ASSUME IInv, ServiceRestarts
  PROVE  IInv'
<1>1. /\ pc' = "idle" /\ reply' = None /\ batch' = NoBatch /\ receipt' = None
      /\ enabled' = FALSE /\ woken' = FALSE /\ framing' = "off"
      /\ life' = <<>> /\ doubt' = {i \in applied : \E r \in Rows : r.input = i}
      /\ UNCHANGED <<machine, session, tenantActive, permitted, queue, entry, applied>>
      /\ late' \subseteq late \cup {receipt}
  BY DEF ServiceRestarts, portalVars
<1>2. Recent' = {} /\ life' \in Seq(Nat)
  BY <1>1, EmptySeq DEF Recent
<1>3. UNCHANGED Entries /\ \A i : Superseded(i)' <=> Superseded(i)
  BY <1>1 DEF Entries, Superseded
<1>4. TypeOK'
  <2>1. unrest' \in 0 .. MaxUnrest
    BY DisturbTypes DEF ServiceRestarts
  <2>2. UNCHANGED Open
    BY <1>1 DEF Open
  <2> QED
    BY <1>1, <2>1, <2>2 DEF IInv, TypeOK
<1>5. ReceiptsOK' /\ late' \subseteq Receipts \cup {None}
  <2>1. \A c \in late' : ReceiptOK(c)'
    BY <1>1, ReceiptsStay
  <2>2. late' \subseteq Receipts \cup {None}
    BY <1>1, ReceiptsStay
  <2> QED
    BY <1>1, <2>1, <2>2 DEF ReceiptsOK, ReceiptOK
<1>6. LinkTypes'
  BY <1>1, <1>2, <1>3, <1>5, SwitchTypes DEF IInv, LinkTypes
<1>7. SessionsOK' /\ EntryOK' /\ OrderOK'
  BY <1>1, <1>3 DEF IInv, SessionsOK, EntryOK, OrderOK, Over
<1>8. RowsOK'
  <2>1. ASSUME NEW s \in Sessions, NEW r \in queue[s]
        PROVE  RowOK(r, s)'
    <3>1. RowOK(r, s) /\ r \in Rows
      BY <2>1, RowFacts DEF Rows
    <3> QED
      BY <1>1, <1>3, <3>1 DEF RowOK, HoldsEntry
  <2> QED
    BY <1>1, <2>1 DEF RowsOK
<1>9. CycleOK' /\ BatchesOK'
  BY <1>1 DEF CycleOK, BatchesOK, AtHand
<1>10. RecentOK'
  BY <1>2 DEF RecentOK
<1> QED
  BY <1>4, <1>5, <1>6, <1>7, <1>8, <1>9, <1>10 DEF IInv

-----------------------------------------------------------------------------
(* The invariant. *)

LEMMA InitOK ==
  ASSUME Init
  PROVE  IInv
<1>1. \A s \in Sessions : s \in Int
  BY ConsoleAssumption DEF Sessions
<1>2. Len(entry) = 0 /\ entry \in Seq(Events) /\ life \in Seq(Nat)
      /\ Entries = {} /\ Recent = {}
  <2>1. Len(<<>>) = 0 /\ <<>> \in Seq(Events) /\ <<>> \in Seq(Nat)
    BY EmptySeq
  <2> QED
    BY <2>1 DEF Init, Entries, Recent
<1>3. IsFiniteSet({}) /\ Cardinality({}) = 0
  BY FS_EmptySet
<1>4. NoBatch \in Batches
  BY DEF NoBatch, Batches
<1>5. TypeOK
  <2>1. /\ queue \in [Sessions -> SUBSET InputRows]
        /\ \A s \in Sessions : queue[s] = {}
    BY DEF Init
  <2>2. \A s \in Sessions : Cardinality(queue[s]) <= QueueLimit
    BY <1>3, <2>1, ConsoleAssumption
  <2>3. /\ session \in [Sessions -> {"absent", "open", "lapsed", "ended"}]
        /\ Open = {}
    BY DEF Init, Open
  <2>4. unrest \in 0 .. MaxUnrest
    BY ConsoleAssumption DEF Init
  <2> QED
    BY <2>1, <2>2, <2>3, <2>4 DEF Init, TypeOK
<1>6. LinkTypes
  BY <1>2, <1>3, <1>4, ConsoleAssumption DEF Init, LinkTypes, Events
<1>7. SessionsOK /\ EntryOK /\ RowsOK /\ OrderOK
  BY <1>2 DEF Init, SessionsOK, EntryOK, RowsOK, OrderOK
<1>8. CycleOK /\ ReceiptsOK /\ RecentOK /\ BatchesOK
  BY DEF Init, CycleOK, ReceiptsOK, ReceiptOK, RecentOK, BatchesOK, AtHand
<1> QED
  BY <1>5, <1>6, <1>7, <1>8 DEF IInv

LEMMA StutterOK ==
  ASSUME IInv, UNCHANGED vars
  PROVE  IInv'
<1>1. UNCHANGED <<machine, session, tenantActive, permitted, queue, entry, unrest>>
      /\ UNCHANGED <<enabled, woken, pc, reply, batch, receipt, late, framing>>
      /\ UNCHANGED <<applied, life, doubt>>
  BY DEF vars, portalVars, switchVars, workerVars, effectVars
<1>2. Switches' /\ UNCHANGED workerVars
  BY <1>1, SwitchesTyped DEF Switches, workerVars
<1>3. Ages /\ Shrinks /\ Remains
  BY <1>1, SameQueue DEF Ages, Remains, IInv, TypeOK
<1>4. SessionsOK'
  BY <1>1, <1>3, SessionsStay
<1>5. tenantActive' \in BOOLEAN /\ unrest' \in 0 .. MaxUnrest /\ permitted' \subseteq permitted
  BY <1>1 DEF IInv, TypeOK
<1> QED
  BY <1>2, <1>3, <1>4, <1>5, PortalKeeps

LEMMA StepOK ==
  ASSUME IInv, [Next]_vars
  PROVE  IInv'
<1>1. CASE Operators
  <2>1. ASSUME NEW s \in Sessions,
               \/ CreateConsoleSession(s) \/ RenewConsoleSession(s)
               \/ CloseConsoleSession(s) \/ QueueConsoleInput(s)
               \/ LeaseLapses(s) \/ WithdrawAuthority(s)
        PROVE  IInv'
    BY <2>1, CreateConsoleSessionOK, RenewConsoleSessionOK, CloseConsoleSessionOK,
       QueueConsoleInputOK, LeaseLapsesOK, WithdrawAuthorityOK
  <2> QED
    BY <1>1, <2>1, SuspendTenantOK, ReactivateTenantOK DEF Operators
<1>2. CASE GatewayAnswers \/ GatewayAnswersLate
  BY <1>2, GatewayOK
<1>3. CASE InputWorker
  BY <1>3, BeginCycleOK, ReceiveBatchOK, ApplyInputOK, BatchAppliedOK,
     BatchCancelledOK, ReceiptDeliveredOK, ExchangeRefusedOK DEF InputWorker
<1>4. CASE FrameWorker \/ FrameFails
  BY <1>4, FrameWorkerOK
<1>5. CASE InputFails \/ CycleFails \/ ServiceRestarts
  BY <1>5, InputFailsOK, CycleFailsOK, ServiceRestartsOK
<1>6. CASE UNCHANGED vars
  BY <1>6, StutterOK
<1> QED
  BY <1>1, <1>2, <1>3, <1>4, <1>5, <1>6 DEF Next

\* What the queue, the batch, the receipts and the history of the inputs tell of
\* each other is so in every reachable state.
THEOREM ConsoleInvariantHolds == Spec => []IInv
<1>1. Init => IInv
  BY InitOK
<1>2. IInv /\ [Next]_vars => IInv'
  BY StepOK
<1> QED
  BY <1>1, <1>2, PTL DEF Spec

\* Variables are well formed, one session at a time holds a machine, no
\* queue grows beyond its limit, and no input is applied before the receipt
\* of the batch's failure is there.
THEOREM ConsoleTyped == Spec => []TypeOK
<1>1. IInv => TypeOK
  BY DEF IInv
<1> QED
  BY <1>1, ConsoleInvariantHolds, PTL

-----------------------------------------------------------------------------
(* ConsoleInput implements InputStream. *)

Kept == {r.input : r \in Rows}
Entered == [i \in DOMAIN entry |-> [session |-> entry[i].session,
                                    machine |-> machine[entry[i].session],
                                    move |-> entry[i].move]]
GaveWay == {i \in DOMAIN entry :
              \E k \in i + 1 .. Len(entry) : entry[k].row = entry[i].row}
Gone == {s \in Sessions : session[s] = "ended"}

LEMMA AbstractFacts ==
  ASSUME IInv
  PROVE  /\ DOMAIN Entered = Entries /\ DOMAIN entry = Entries
         /\ \A i \in Entries :
              /\ Entered[i].session = entry[i].session
              /\ Entered[i].machine = machine[entry[i].session]
              /\ Entered[i].move = entry[i].move
              /\ i \in GaveWay <=> Superseded(i)
         /\ GaveWay \subseteq Entries
         /\ Entered \in Seq(Stream!Inputs) /\ Len(Entered) = Len(entry)
<1>1. DOMAIN entry = Entries /\ Len(entry) \in Nat /\ Entries = 1 .. Len(entry)
      /\ \A i \in Entries : entry[i] \in Events
  BY EntryFacts DEF Entries
<1>2. machine \in [Sessions -> Sessions]
  BY DEF IInv, TypeOK, Placements
<1>3. \A i \in Entries : Entered[i] \in Stream!Inputs
  BY <1>1, <1>2 DEF Entered, Stream!Inputs, Events
<1>4. Entered \in [1 .. Len(entry) -> Stream!Inputs]
  BY <1>1, <1>3 DEF Entered
<1>5. Entered \in Seq(Stream!Inputs) /\ Len(Entered) = Len(entry)
  BY <1>1, <1>4
<1> QED
  BY <1>1, <1>5 DEF Entered, GaveWay, Superseded

\* Sessions end, rows are marked, and go.
LEMMA AgingForgets ==
  ASSUME IInv, IInv', Ages, Shrinks, Remains
  PROVE  Stream!Forget
<1>1. UNCHANGED <<machine, entry, applied, life, doubt>>
  BY DEF Remains
<1>2. Gone \subseteq Gone' /\ Gone' \subseteq Sessions
  BY DEF Gone, Ages
<1>3. Kept' \subseteq Kept
  <2>1. ASSUME NEW g \in Kept'
        PROVE  g \in Kept
    <3>1. PICK s \in Sessions : \E q \in queue'[s] : q.input = g
      BY <2>1 DEF Kept, Rows
    <3>2. PICK q \in queue'[s] : q.input = g
      BY <3>1
    <3>3. PICK r \in queue[s] : From(q, r)
      BY <3>2 DEF Shrinks
    <3> QED
      BY <3>2, <3>3 DEF Kept, Rows, From
  <2> QED
    BY <2>1
<1>4. ASSUME NEW g \in Kept \ Kept'
      PROVE  g \in applied \/ Entered[g].session \in Gone'
  <2>1. PICK s \in Sessions : \E r \in queue[s] : r.input = g
    BY <1>4 DEF Kept, Rows
  <2>2. PICK r \in queue[s] : r.input = g
    BY <2>1
  <2>3. g \in Entries /\ Entered[g].session = s
    BY <2>2, RowFacts, AbstractFacts
  <2>4. ASSUME NEW q \in queue'[s], q.row = r.row
        PROVE  FALSE
    <3>1. PICK p \in queue[s] : From(q, p)
      BY <2>4 DEF Shrinks
    <3>2. p = r
      <4>1. RowOK(r, s)
        BY <2>2, RowFacts
      <4> QED
        BY <2>4, <3>1, <4>1 DEF From, RowOK
    <3>3. q.input = g
      BY <2>2, <3>1, <3>2 DEF From
    <3> QED
      BY <1>4, <2>4, <3>3 DEF Kept, Rows
  <2> QED
    BY <2>2, <2>3, <2>4 DEF Shrinks, Gone
<1>5. UNCHANGED <<Entered, GaveWay>>
  BY <1>1 DEF Entered, GaveWay
<1> QED
  BY <1>1, <1>2, <1>3, <1>4, <1>5 DEF Stream!Forget, Kept, Entered, GaveWay, Gone

\* An input of a batch has its effect.
LEMMA EffectApplies ==
  ASSUME IInv, pc = "applying", NEW r \in First, Effect(r), WorkerKeeps
  PROVE  r.input \in DOMAIN Entered /\ Stream!Apply(r.input)
<1> DEFINE g == r.input
<1>1. r \in batch.left /\ r \in batch.rows
  BY DEF First, IInv, BatchesOK, AtHand, BatchOK
<1>2. /\ g \in Entries /\ ~Superseded(g) /\ entry[g].session = batch.session
      /\ LeftOK(batch, r)
  BY <1>1, BatchFacts
<1>3. UNCHANGED <<machine, session, queue, entry, doubt>>
      /\ applied' = applied \cup {g} /\ life' = Append(life, g)
  BY DEF WorkerKeeps, portalVars, Effect
<1>4. g \in DOMAIN Entered \ GaveWay
  BY <1>2, AbstractFacts
<1>5. g \in applied => g \in doubt
  BY <1>2 DEF LeftOK
<1>6. ASSUME NEW n \in DOMAIN life, Entered[life[n]].machine = Entered[g].machine
      PROVE  life[n] < g
  <2>1. life[n] \in Recent /\ life[n] \in Entries
    BY <1>6 DEF Recent, IInv, LinkTypes
  <2>2. machine[entry[life[n]].session] = machine[batch.session]
    BY <1>2, <1>6, <2>1, AbstractFacts
  <2> QED
    BY <1>2, <2>1, <2>2 DEF LeftOK
<1>7. ASSUME NEW i \in 1 .. g - 1, Entered[i].session = Entered[g].session
      PROVE  i \in applied \cup GaveWay
  <2>1. i \in Entries /\ i < g
    BY <1>2, <1>7, EntryFacts DEF Entries
  <2>2. entry[i].session = batch.session
    BY <1>2, <1>7, <2>1, AbstractFacts
  <2>3. ASSUME NEW q \in batch.left, q.input = i
        PROVE  FALSE
    <3>1. q # r
      BY <1>2, <2>1, <2>3, EntryFacts
    <3> QED
      BY <1>2, <2>1, <2>3, <3>1, FirstLeast, EntryFacts
  <2> QED
    BY <1>2, <1>7, <2>1, <2>2, <2>3, AbstractFacts DEF LeftOK
<1>8. UNCHANGED <<Entered, GaveWay, Kept, Gone>>
  BY <1>3 DEF Entered, GaveWay, Kept, Rows, Gone
<1> QED
  BY <1>3, <1>4, <1>5, <1>6, <1>7, <1>8
     DEF Stream!Apply, Kept, Entered, GaveWay, Gone

LEMMA RestartInterrupts ==
  ASSUME IInv, ServiceRestarts
  PROVE  Stream!Interrupt
<1>1. UNCHANGED <<machine, session, queue, entry, applied>> /\ life' = <<>>
      /\ doubt' = {i \in applied : \E r \in Rows : r.input = i}
  BY DEF ServiceRestarts, portalVars
<1>2. doubt' = applied \cap Kept
  BY <1>1 DEF Kept
<1>3. UNCHANGED <<Entered, GaveWay, Kept, Gone>>
  BY <1>1 DEF Entered, GaveWay, Kept, Rows, Gone
<1> QED
  BY <1>1, <1>2, <1>3 DEF Stream!Interrupt, Kept, Entered, GaveWay, Gone

\* The position at g gives way to e.
GivesWayTo(g, e) ==
  /\ g \in Kept \ applied
  /\ Entered[g].session = e.session
  /\ Entered[g].move /\ e.move
  /\ \A i \in g + 1 .. Len(Entered) : Entered[i].session # e.session

LEMMA EnteringAppends ==
  ASSUME IInv, NEW s \in Sessions, NEW new, NEW old, Entering(s, new, old),
         UNCHANGED machine,
         NEW e, e = [session |-> s, machine |-> machine[s], move |-> new.move]
  PROVE  e \in Stream!Inputs /\ Entered' = Append(Entered, e)
<1>1. /\ new.input \in Nat /\ new.move \in BOOLEAN
      /\ entry' \in Seq(Events) /\ Len(entry') = new.input
      /\ Entries' = Entries \cup {new.input}
      /\ \A i \in Entries : i < new.input /\ entry'[i] = entry[i]
      /\ entry'[new.input] = [session |-> s, move |-> new.move, row |-> new.row]
  BY EnteredFacts
<1>2. machine \in [Sessions -> Sessions]
  BY DEF IInv, TypeOK, Placements
<1>3. e \in Stream!Inputs
  BY <1>1, <1>2 DEF Stream!Inputs
<1>4. DOMAIN entry' = 1 .. new.input /\ Entries' = 1 .. new.input
  BY <1>1, LenProperties DEF Entries
<1>5. Len(entry) \in Nat /\ new.input = Len(entry) + 1 /\ Entries = 1 .. Len(entry)
  BY EntryFacts DEF Entering, Entries
<1>6. /\ Entered \in Seq(Stream!Inputs) /\ Len(Entered) = Len(entry)
      /\ DOMAIN Entered = Entries /\ DOMAIN entry = Entries
  BY AbstractFacts
<1>7. /\ Append(Entered, e) \in Seq(Stream!Inputs)
      /\ Len(Append(Entered, e)) = new.input
      /\ \A i \in Entries : Append(Entered, e)[i] = Entered[i]
      /\ Append(Entered, e)[new.input] = e
  <2>1. /\ Append(Entered, e) \in Seq(Stream!Inputs)
        /\ Len(Append(Entered, e)) = Len(Entered) + 1
        /\ \A i \in 1 .. Len(Entered) : Append(Entered, e)[i] = Entered[i]
        /\ Append(Entered, e)[Len(Entered) + 1] = e
    BY <1>3, <1>6, AppendProperties
  <2> QED
    BY <1>5, <1>6, <2>1
<1>8. ASSUME NEW i \in 1 .. new.input
      PROVE  Entered'[i] = Append(Entered, e)[i]
  <2>1. CASE i = new.input
    <3>1. Entered'[i] = [session |-> s, machine |-> machine[s], move |-> new.move]
      BY <1>1, <1>4, <2>1 DEF Entered
    <3> QED
      BY <1>7, <2>1, <3>1
  <2>2. CASE i \in Entries
    <3>1. Entered'[i] = Entered[i]
      BY <1>1, <1>4, <1>6, <2>2 DEF Entered
    <3> QED
      BY <1>7, <2>2, <3>1
  <2> QED
    BY <1>1, <1>4, <2>1, <2>2
<1>9. Entered' \in Seq(Stream!Inputs) /\ Len(Entered') = new.input
  <2>1. \A i \in 1 .. new.input : Append(Entered, e)[i] \in Stream!Inputs
    BY <1>7, ElementOfSeq
  <2>2. Entered' \in [1 .. new.input -> Stream!Inputs]
    BY <1>4, <1>8, <2>1 DEF Entered
  <2> QED
    BY <1>1, <2>2
<1>10. Entered' = Append(Entered, e)
  <2>1. \A i \in 1 .. Len(Entered') : Entered'[i] = Append(Entered, e)[i]
    BY <1>8, <1>9
  <2> QED
    BY <1>7, <1>9, <2>1, SeqEqual
<1> QED
  BY <1>3, <1>10

\* An input is entered; a position may give way to it.
LEMMA EnteringEnters ==
  ASSUME IInv, NEW s \in Sessions, NEW new, NEW old, Entering(s, new, old),
         UNCHANGED <<machine, session, applied, life, doubt>>
  PROVE  \E e \in Stream!Inputs : Stream!Enter(e)
<1> DEFINE gone == {r.input : r \in old}
<1>1. PICK e : e = [session |-> s, machine |-> machine[s], move |-> new.move]
  OBVIOUS
<1>2. e \in Stream!Inputs /\ Entered' = Append(Entered, e)
  BY <1>1, EnteringAppends
<1>3. e.session = s /\ e.machine = machine[s] /\ e.move = new.move
  BY <1>1
<1>4. /\ new.input \in Nat /\ entry' \in Seq(Events) /\ Len(entry') = new.input
      /\ Entries' = Entries \cup {new.input}
      /\ \A i \in Entries : i < new.input /\ entry'[i] = entry[i]
      /\ queue'[s] = (queue[s] \ old) \cup {new}
      /\ \A t \in Sessions \ {s} : queue'[t] = queue[t]
      /\ entry'[new.input] = [session |-> s, move |-> new.move, row |-> new.row]
  BY EnteredFacts
<1>5. session[s] = "open" /\ old \subseteq queue[s] /\ new.input = Len(entry) + 1
  BY DEF Entering
<1>6. ASSUME NEW r \in old
      PROVE  /\ r \in queue[s] /\ r.input \in Entries /\ r.input \notin applied
             /\ r.move /\ new.move /\ r.row = new.row
             /\ entry[r.input].session = s /\ entry[r.input].row = r.row
             /\ entry[r.input].move = r.move
             /\ \A q \in queue[s] : q.row = r.row => q = r
             /\ \A i \in Entries : entry[i].session = s => i <= r.input
  <2>1. r \in queue[s]
    BY <1>5, <1>6
  <2>2. r.input \notin applied /\ RowOK(r, s)
    BY <1>6, EnteringSupersedes
  <2>3. /\ r.move /\ new.move /\ r.row = new.row
        /\ \A i \in Entries : entry[i].session = s => i <= r.input
    BY <1>6 DEF Entering
  <2>4. \A q \in queue[s] : q.row = r.row => q = r
    BY <2>2 DEF RowOK
  <2>5. /\ r.input \in Entries /\ entry[r.input].session = s
        /\ entry[r.input].row = r.row /\ entry[r.input].move = r.move
    BY <2>1, RowFacts
  <2> QED
    BY <2>1, <2>2, <2>3, <2>4, <2>5
<1>7. \E g : gone \in {{}, {g}}
  <2>1. CASE old = {}
    BY <2>1
  <2>2. ASSUME NEW r \in old
        PROVE  gone = {r.input}
    BY <1>6, <2>2
  <2> QED
    BY <2>1, <2>2
<1>8. ASSUME NEW g \in gone
      PROVE  /\ g \in Kept \ applied
             /\ Entered[g].session = s /\ Entered[g].move /\ new.move
             /\ \A i \in g + 1 .. Len(Entered) : Entered[i].session # s
  <2>1. PICK r \in old : g = r.input
    BY <1>8
  <2>2. g \in Entries /\ g \in Kept \ applied
    BY <1>6, <2>1 DEF Kept, Rows
  <2>3. Entered[g].session = s /\ Entered[g].move /\ new.move
    BY <1>6, <2>1, <2>2, AbstractFacts
  <2>4. ASSUME NEW i \in g + 1 .. Len(Entered)
        PROVE  Entered[i].session # s
    <3>1. i \in Entries /\ g < i
      BY <2>2, <2>4, AbstractFacts, EntryFacts DEF Entries
    <3> QED
      BY <1>6, <2>1, <2>2, <3>1, AbstractFacts, EntryFacts
  <2> QED
    BY <2>2, <2>3, <2>4
<1>9. GaveWay' = GaveWay \cup gone
  <2>1. DOMAIN entry' = Entries'
    BY <1>4, LenProperties DEF Entries
  <2>2. \A i : i \in GaveWay' <=> i \in Entries' /\ Superseded(i)'
    BY <2>1 DEF GaveWay, Superseded
  <2>3. \A i : i \in GaveWay <=> i \in Entries /\ Superseded(i)
    BY AbstractFacts
  <2>4. /\ ~Superseded(new.input)'
        /\ \A i \in Entries : Superseded(i)' <=> Superseded(i) \/ \E r \in old : r.input = i
    BY EnteringSupersedes
  <2> QED
    BY <1>4, <1>6, <2>2, <2>3, <2>4
<1>10. Kept' = (Kept \ gone) \cup {Len(Entered')}
  <2>1. Len(Entered') = new.input
    <3>1. Entered \in Seq(Stream!Inputs) /\ Len(Entered) = Len(entry)
      BY AbstractFacts
    <3> QED
      BY <1>2, <1>5, <3>1, AppendProperties
  <2>2. ASSUME NEW g \in Kept'
        PROVE  g \in (Kept \ gone) \cup {new.input}
    <3>1. PICK t \in Sessions : \E q \in queue'[t] : q.input = g
      BY <2>2 DEF Kept, Rows
    <3>2. PICK q \in queue'[t] : q.input = g
      BY <3>1
    <3>3. CASE t = s /\ q = new
      BY <3>2, <3>3
    <3>4. CASE q \in queue[t] /\ (t = s => q \notin old)
      <4>1. entry[g].session = t /\ entry[g].row = q.row /\ g \in Kept
        BY <3>2, <3>4, RowFacts DEF Kept, Rows
      <4>2. ASSUME NEW r \in old, r.input = g
            PROVE  FALSE
        <5>1. t = s /\ q.row = r.row
          BY <1>6, <4>1, <4>2
        <5> QED
          BY <1>6, <3>4, <4>2, <5>1
      <4> QED
        BY <4>1, <4>2
    <3> QED
      BY <1>4, <3>2, <3>3, <3>4
  <2>3. new.input \in Kept'
    BY <1>4 DEF Kept, Rows
  <2>4. ASSUME NEW g \in Kept \ gone
        PROVE  g \in Kept'
    <3>1. PICK t \in Sessions : \E q \in queue[t] : q.input = g
      BY <2>4 DEF Kept, Rows
    <3>2. PICK q \in queue[t] : q.input = g
      BY <3>1
    <3>3. q \notin old
      BY <2>4, <3>2
    <3>4. q \in queue'[t]
      BY <1>4, <3>2, <3>3
    <3> QED
      BY <3>2, <3>4 DEF Kept, Rows
  <2> QED
    BY <2>1, <2>2, <2>3, <2>4
<1>11. s \notin Gone
  BY <1>5 DEF Gone
<1>12. ASSUME NEW i \in DOMAIN Entered,
              Entered[i].machine = machine[s], Entered[i].session # s
       PROVE  Entered[i].session \in Gone
  <2>1. i \in Entries
    BY <1>12, AbstractFacts
  <2>2. PICK t \in Sessions : t = entry[i].session
    BY <2>1, EntryFacts
  <2>3. machine[t] = machine[s] /\ t # s /\ session[t] # "absent" /\ Entered[i].session = t
    BY <1>12, <2>1, <2>2, AbstractFacts DEF IInv, EntryOK
  <2>4. ~(s < t)
    BY <1>5, <2>3 DEF IInv, SessionsOK, Over
  <2>5. t < s
    BY <2>3, <2>4, ConsoleAssumption DEF Sessions
  <2>6. Over(t)
    BY <1>5, <2>3, <2>5 DEF IInv, SessionsOK
  <2> QED
    BY <2>3, <2>6 DEF Over, Gone
<1>13. UNCHANGED Gone
  BY DEF Gone
<1>14. gone \in {{}} \cup {{g} : g \in {i \in Kept : GivesWayTo(i, e)}}
  <2>1. \A g \in gone : g \in Kept /\ GivesWayTo(g, e)
    BY <1>3, <1>8 DEF GivesWayTo
  <2> HIDE DEF gone
  <2> QED
    BY <1>7, <2>1
<1> HIDE DEF gone
<1>15. /\ e.session \notin Gone
       /\ \A i \in DOMAIN Entered :
            Entered[i].machine = e.machine /\ Entered[i].session # e.session =>
              Entered[i].session \in Gone
       /\ \E o \in {{}} \cup {{g} : g \in {i \in Kept : GivesWayTo(i, e)}} :
            GaveWay' = GaveWay \cup o /\ Kept' = (Kept \ o) \cup {Len(Entered')}
  BY <1>3, <1>9, <1>10, <1>11, <1>12, <1>14
<1>16. Stream!Enter(e)
  BY <1>2, <1>13, <1>15
     DEF Stream!Enter, Stream!GivesWay, GivesWayTo, Kept, Entered, GaveWay, Gone
<1> QED
  BY <1>2, <1>16

\* A step of the worker applies an input or leaves the stream alone.
LEMMA WorkerImplements ==
  ASSUME IInv, IInv', InputWorker \/ InputFails \/ CycleFails
  PROVE  Stream!Next
<1>1. ASSUME WorkerKeeps, UNCHANGED effectVars
      PROVE  Stream!Next
  <2>1. Stream!Forget
    BY <1>1, NoEffect, AgingForgets
  <2> QED
    BY <2>1 DEF Stream!Next
<1>2. ASSUME WorkerKeeps, pc = "applying", NEW r \in First, Effect(r)
      PROVE  Stream!Next
  <2>1. r.input \in DOMAIN Entered /\ Stream!Apply(r.input)
    BY <1>2, EffectApplies
  <2> QED
    BY <2>1 DEF Stream!Next, Entered
<1>3. CASE BeginCycle \/ ReceiveBatch \/ BatchApplied \/ ReceiptDelivered
           \/ ExchangeRefused \/ CycleFails
  <2>1. WorkerKeeps /\ UNCHANGED effectVars
    BY <1>3 DEF BeginCycle, ReceiveBatch, BatchApplied, ReceiptDelivered,
                ExchangeRefused, CycleFails
  <2> QED
    BY <1>1, <2>1
<1>4. CASE ApplyInput \/ BatchCancelled \/ InputFails
  <2>1. /\ WorkerKeeps /\ pc = "applying"
        /\ (\E r \in First : Effect(r)) \/ UNCHANGED effectVars
    BY <1>4 DEF ApplyInput, BatchCancelled, InputFails
  <2> QED
    BY <1>1, <1>2, <2>1
<1> QED
  BY <1>3, <1>4 DEF InputWorker

LEMMA StepImplements ==
  ASSUME IInv, IInv', [Next]_vars
  PROVE  [Stream!Next]_(Stream!streamVars)
<1>1. ASSUME Ages /\ Shrinks /\ Remains
      PROVE  Stream!Next
  BY <1>1, AgingForgets DEF Stream!Next
<1>2. ASSUME NEW s \in Sessions, QueueConsoleInput(s)
      PROVE  Stream!Next
  <2>1. PICK new, old : Entering(s, new, old)
    BY <1>2, QueueEnters
  <2>2. UNCHANGED <<machine, session, applied, life, doubt>>
    BY <1>2 DEF QueueConsoleInput, UserStep, effectVars
  <2> QED
    BY <2>1, <2>2, EnteringEnters DEF Stream!Next
<1>3. CASE Operators
  <2>1. ASSUME NEW s \in Sessions,
               \/ CreateConsoleSession(s) \/ RenewConsoleSession(s)
               \/ CloseConsoleSession(s) \/ LeaseLapses(s) \/ WithdrawAuthority(s)
        PROVE  Stream!Next
    BY <1>1, <2>1, CreateConsoleSessionOK, RenewConsoleSessionOK,
       CloseConsoleSessionOK, LeaseLapsesOK, WithdrawAuthorityOK
  <2>2. CASE SuspendTenant \/ ReactivateTenant
    BY <1>1, <2>2, SuspendTenantOK, ReactivateTenantOK
  <2> QED
    BY <1>2, <1>3, <2>1, <2>2 DEF Operators
<1>4. CASE GatewayAnswers \/ GatewayAnswersLate
  BY <1>1, <1>4, GatewayOK
<1>5. CASE FrameWorker \/ FrameFails
  BY <1>1, <1>5, FrameWorkerOK
<1>6. CASE InputWorker \/ InputFails \/ CycleFails
  BY <1>6, WorkerImplements
<1>7. CASE ServiceRestarts
  BY <1>7, RestartInterrupts DEF Stream!Next
<1>8. CASE UNCHANGED vars
  <2>1. UNCHANGED <<machine, session, queue, entry, applied, life, doubt>>
    BY <1>8 DEF vars, portalVars, effectVars
  <2> QED
    BY <2>1 DEF Stream!streamVars, Rows
<1> QED
  BY <1>3, <1>4, <1>5, <1>6, <1>7, <1>8 DEF Next

\* Inputs reach the machine as InputStream promises: in order, without gaps,
\* once in a life of the service, and none gives way that is under way.
THEOREM ConsoleImplements == Spec => ImplementsInputStream
<1>1. Init => Stream!Init
  <2>1. ASSUME Init
        PROVE  DOMAIN entry = {} /\ Rows = {} /\ applied = {} /\ life = <<>> /\ doubt = {}
               /\ Entered = <<>> /\ Gone = {}
    <3>1. entry = <<>> /\ DOMAIN entry = {}
      BY <2>1 DEF Init
    <3>2. Rows = {} /\ Gone = {}
      BY <2>1 DEF Init, Rows, Gone
    <3>3. Entered = <<>>
      BY <3>1 DEF Entered
    <3> QED
      BY <2>1, <3>1, <3>2, <3>3 DEF Init
  <2> QED
    BY <2>1 DEF Stream!Init, Entered, Gone
<1>2. IInv /\ IInv' /\ [Next]_vars => [Stream!Next]_(Stream!streamVars)
  BY StepImplements
<1> QED
  BY <1>1, <1>2, ConsoleInvariantHolds, PTL DEF Spec, ImplementsInputStream, Stream!Spec

=============================================================================
