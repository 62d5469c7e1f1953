--------------------------- MODULE ManagedOperation ---------------------------
(***************************************************************************)
(* What the management channel promises about each job, without saying how *)
(* (ADR-0013, "Durable operation boundary"): a job is granted at most      *)
(* once, its provider method is executed at most once and only while the   *)
(* grant is not in doubt, withdrawn work was never executed, and a settled *)
(* job stays as it is.                                                     *)
(***************************************************************************)
EXTENDS Naturals

CONSTANT Jobs

VARIABLES
  stage,    \* where the portal says the job is
  executed  \* how often its provider method was executed

opVars == <<stage, executed>>

Init ==
  /\ stage = [j \in Jobs |-> "absent"]
  /\ executed = [j \in Jobs |-> 0]

Move(j, from, to) ==
  /\ stage[j] \in from
  /\ stage' = [stage EXCEPT ![j] = to]
  /\ UNCHANGED executed

Request(j) == Move(j, {"absent"}, "waiting")
Grant(j) == Move(j, {"waiting"}, "granted")
Doubt(j) == Move(j, {"granted"}, "doubtful")
Settle(j) == Move(j, {"granted", "doubtful"}, "settled")

\* Any set of waiting jobs may be withdrawn together.
Withdraw(set) ==
  /\ \A j \in set : stage[j] = "waiting"
  /\ stage' = [j \in Jobs |-> IF j \in set THEN "withdrawn" ELSE stage[j]]
  /\ UNCHANGED executed

Execute(j) ==
  /\ stage[j] = "granted"
  /\ executed[j] = 0
  /\ executed' = [executed EXCEPT ![j] = 1]
  /\ UNCHANGED stage

Next ==
  \/ \E j \in Jobs :
       Request(j) \/ Grant(j) \/ Doubt(j) \/ Settle(j) \/ Execute(j)
  \/ \E set \in SUBSET Jobs : Withdraw(set)

Spec == Init /\ [][Next]_opVars

=============================================================================
