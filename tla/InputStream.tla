---------------------------- MODULE InputStream ----------------------------
(***************************************************************************)
(* What the console promises about an operator's input, without saying how *)
(* (ADR-0010): one session controls a machine at a time, inputs reach the  *)
(* machine in the order of entry and without gaps, a pointer position may  *)
(* give way to the next one, and nothing is applied twice unless the       *)
(* service was interrupted before the portal knew that it was applied.     *)
(***************************************************************************)
EXTENDS Naturals, Sequences

CONSTANTS
  Sessions,   \* console sessions
  Machines    \* virtual machines

VARIABLES
  entered,     \* the inputs in the order of entry: their session and machine,
               \* and whether they are pointer positions
  superseded,  \* positions that gave way
  kept,        \* inputs the portal still keeps
  applied,     \* inputs that had their effect
  life,        \* what is applied, in order, in this life of the service
  doubt,       \* applied before the service was interrupted, and kept since
  over         \* sessions that have ended

streamVars == <<entered, superseded, kept, applied, life, doubt, over>>

Inputs == [session : Sessions, machine : Machines, move : BOOLEAN]

Init ==
  /\ entered = <<>>
  /\ superseded = {} /\ kept = {} /\ applied = {} /\ life = <<>> /\ doubt = {}
  /\ over = {}

\* The last input of the same session gives way, if both are positions.
GivesWay(g, e) ==
  /\ g \in kept \ applied
  /\ entered[g].session = e.session
  /\ entered[g].move /\ e.move
  /\ \A i \in g + 1 .. Len(entered) : entered[i].session # e.session

Enter(e) ==
  /\ e.session \notin over
  /\ \A i \in DOMAIN entered :
       entered[i].machine = e.machine /\ entered[i].session # e.session =>
         entered[i].session \in over
  /\ entered' = Append(entered, e)
  /\ \E old \in {{}} \cup {{g} : g \in {i \in kept : GivesWay(i, e)}} :
       /\ superseded' = superseded \cup old
       /\ kept' = (kept \ old) \cup {Len(entered')}
  /\ UNCHANGED <<applied, life, doubt, over>>

Apply(g) ==
  /\ g \in DOMAIN entered \ superseded
  /\ g \in applied => g \in doubt
  /\ \A n \in DOMAIN life : entered[life[n]].machine = entered[g].machine => life[n] < g
  /\ \A i \in 1 .. g - 1 :
       entered[i].session = entered[g].session => i \in applied \cup superseded
  /\ applied' = applied \cup {g}
  /\ life' = Append(life, g)
  /\ UNCHANGED <<entered, superseded, kept, doubt, over>>

\* Sessions end; what was applied, or belongs to an ended session, goes.
Forget ==
  /\ UNCHANGED <<applied, life, doubt, entered, superseded>>
  /\ over \subseteq over' /\ over' \subseteq Sessions
  /\ kept' \subseteq kept
  /\ \A g \in kept \ kept' : g \in applied \/ entered[g].session \in over'

Interrupt ==
  /\ life' = <<>>
  /\ doubt' = applied \cap kept
  /\ UNCHANGED <<entered, superseded, kept, applied, over>>

Next ==
  \/ Forget
  \/ Interrupt
  \/ \E g \in DOMAIN entered : Apply(g)
  \/ \E e \in Inputs : Enter(e)

Spec == Init /\ [][Next]_streamVars

=============================================================================
