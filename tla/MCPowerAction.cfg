\* Two power actions on two machines of one host.
SPECIFICATION FairSpec
CONSTANTS
  a1 = a1
  a2 = a2
  u1 = u1
  u2 = u2
  x1 = x1
  v1 = v1
  v2 = v2
  o1 = o1
  NoJob = NoJob
  Jobs = {a1, a2}
  Updates = {}
  Uninstalls = {}
  VMs = {v1, v2}
  Actors = {o1}
  Target <- TwoMachines
  Requester <- OneOperator
  Version <- Rising
  FirstVersion = 1
  LateBound = 1
INVARIANTS
  StoredOutcomeConsistent
PROPERTIES
  ImplementsManagedOperation
  NotOfferedAfterWithdrawal
  StoredOutcomesSettle
  QueuedActionsMove
