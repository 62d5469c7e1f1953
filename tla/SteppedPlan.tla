---------------------------- MODULE SteppedPlan ----------------------------
(***************************************************************************)
(* What a provisioning plan promises about its steps, without saying how   *)
(* (ADR-0019, "Approval, sequencing and recovery"): a step is granted only *)
(* after all before it are proven, a granted step is attempted at most     *)
(* once, and never again once it is proven.                                *)
(***************************************************************************)
EXTENDS Naturals

CONSTANTS
  Steps,       \* the steps of the plan
  Before(_)    \* the steps that come before a step

VARIABLES
  granted,    \* steps the portal has granted
  attempts,   \* how often the machine was changed for each step
  proven      \* steps whose effect is proven

planVars == <<granted, attempts, proven>>

Init ==
  /\ granted = {}
  /\ attempts = [k \in Steps |-> 0]
  /\ proven = {}

Grant(k) ==
  /\ k \notin granted
  /\ proven = Before(k)
  /\ granted' = granted \cup {k}
  /\ UNCHANGED <<attempts, proven>>

Attempt(k) ==
  /\ attempts[k] = 0
  /\ k \in granted \ proven
  /\ attempts' = [attempts EXCEPT ![k] = 1]
  /\ UNCHANGED <<granted, proven>>

Prove(k) ==
  /\ k \in granted \ proven
  /\ proven' = proven \cup {k}
  /\ UNCHANGED <<granted, attempts>>

Next == \E k \in Steps : Grant(k) \/ Attempt(k) \/ Prove(k)

Spec == Init /\ [][Next]_planVars

=============================================================================
