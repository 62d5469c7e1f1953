-------------------------- MODULE ConsoleInvariant --------------------------
(***************************************************************************)
(* The inductive invariant of ConsoleInput: what the rows of the queue,    *)
(* the batch and the receipts tell about the inputs that were applied.     *)
(***************************************************************************)
EXTENDS ConsoleInput

Entries == 1 .. Len(entry)
Over(s) == session[s] = "ended"
Superseded(i) == \E k \in i + 1 .. Len(entry) : entry[k].row = entry[i].row

\* The inputs applied in this life of the service.
Recent == {life[n] : n \in DOMAIN life}

LinkTypes ==
  /\ entry \in Seq([session : Sessions, move : BOOLEAN, row : 1 .. MaxInputs])
  /\ Len(entry) <= MaxInputs
  /\ \A s \in Sessions : IsFiniteSet(queue[s])
  /\ reply \in Batches \cup {None} /\ batch \in Batches
  /\ late \subseteq Receipts \cup {None}
  /\ applied \subseteq Entries /\ life \in Seq(Nat) /\ Recent \subseteq applied

-----------------------------------------------------------------------------
(* The portal. *)

\* Sessions are created in their order, and one on a machine after the other.
SessionsOK ==
  \A t, s \in Sessions :
     t < s /\ session[s] # "absent" =>
       /\ session[t] # "absent"
       /\ machine[t] = machine[s] => Over(t)

\* Rows follow each other as the inputs do, within a session and on a machine.
EntryOK ==
  \A i \in Entries :
     /\ session[entry[i].session] # "absent"
     /\ entry[i].row <= i
     /\ \A k \in i + 1 .. Len(entry) :
          /\ entry[k].session = entry[i].session => entry[i].row <= entry[k].row
          /\ entry[k].row = entry[i].row => entry[k].session = entry[i].session
          /\ machine[entry[k].session] = machine[entry[i].session] =>
               entry[i].session <= entry[k].session

\* A row holds the last of its inputs.
HoldsEntry(r, s) ==
  /\ r.input \in Entries
  /\ entry[r.input] = [session |-> s, move |-> r.move, row |-> r.row]
  /\ ~Superseded(r.input)

\* What is under way to the machine is marked; what was applied is known to
\* be, or was in an earlier life.
RowOK(r, s) ==
  /\ HoldsEntry(r, s)
  /\ r.input \in applied => r.delivered
  /\ r.input \in applied => r.input \in doubt \cup Recent
  /\ \A q \in queue[s] : q.row = r.row => q = r

RowsOK == \A s \in Sessions : \A r \in queue[s] : RowOK(r, s)

\* Inputs were applied in order; what is not in the queue was applied.
OrderOK ==
  /\ \A x \in applied :
       /\ ~Superseded(x)
       /\ \A i \in 1 .. x - 1 :
            entry[i].session = entry[x].session => i \in applied \/ Superseded(i)
  /\ \A i \in Entries :
       \/ Over(entry[i].session)
       \/ \E r \in queue[entry[i].session] : r.row = entry[i].row
       \/ \E x \in applied : entry[x].row = entry[i].row

-----------------------------------------------------------------------------
(* The Agent. *)

CycleOK ==
  /\ pc = "polling" => receipt = None
  /\ pc = "applying" => reply = None /\ batch.session \in Sessions
  /\ pc = "delivering" =>
       /\ receipt # None
       /\ reply # None => reply.session = None
  /\ pc = "delivering" /\ reply # None =>
       /\ \A r \in queue[receipt.session] : r.row \notin receipt.rows
       /\ receipt.failed => Over(receipt.session)

\* What a receipt acknowledges was applied, however late it arrives.
ReceiptOK(c) ==
  c # None =>
    /\ session[c.session] # "absent"
    /\ c.rows \subseteq Entries
    /\ \A r \in queue[c.session] : r.row \in c.rows => r.input \in applied

ReceiptsOK == \A c \in late \cup {receipt} : ReceiptOK(c)

\* Of an open session's rows, those applied in this life are the receipt's.
RecentOK ==
  \A s \in Sessions : \A r \in queue[s] :
     ~Over(s) =>
       /\ r.input \in Recent =>
            /\ receipt # None /\ receipt.session = s
            /\ receipt.failed \/ r.row \in receipt.rows
            /\ pc = "applying" => r.row \in RowsDone
       /\ \A x \in Recent :
            entry[x].session = s /\ r.input < x => r.input \in Recent

\* What is left of a batch may be applied, one after the other.
LeftOK(b, r) ==
  /\ r.input \notin Recent
  /\ r.input \in applied => r.input \in doubt
  /\ \A x \in Recent :
       machine[entry[x].session] = machine[b.session] => x < r.input
  /\ \A i \in 1 .. r.input - 1 :
       entry[i].session = b.session =>
         i \in applied \/ Superseded(i) \/ \E q \in b.left : q.input = i
  /\ Over(b.session) \/
       \A q \in queue[b.session] :
          q.input < r.input => q.input \in Recent \/ q \in b.left

\* The batch that is applied, and one that is offered.
AtHand ==
  (IF pc = "applying" THEN {batch} ELSE {}) \cup
  {b \in {reply} \ {None} : b.session # None}

BatchOK(b) ==
  /\ session[b.session] # "absent"
  /\ b.left \subseteq b.rows
  /\ \A r \in b.rows :
       /\ HoldsEntry(r, b.session) /\ r.delivered
       /\ \A q \in queue[b.session] : q.row = r.row => q = r
  /\ \A r \in b.rows \ b.left : r.input \in applied
  /\ \A r \in b.left : LeftOK(b, r)

BatchesOK == \A b \in AtHand : BatchOK(b)

-----------------------------------------------------------------------------
IInv ==
  /\ TypeOK
  /\ LinkTypes
  /\ SessionsOK
  /\ EntryOK
  /\ RowsOK
  /\ OrderOK
  /\ CycleOK
  /\ ReceiptsOK
  /\ RecentOK
  /\ BatchesOK

=============================================================================
