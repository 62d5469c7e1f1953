\* Two writes on one machine: the second is bound to what the first left, and
\* so is the stored snapshot.
SPECIFICATION Spec
CONSTANTS
  w1 = w1
  w2 = w2
  r1 = r1
  v1 = v1
  v2 = v2
  u1 = u1
  NoJob = NoJob
  Jobs = {w1, w2}
  Mutations = {w1, w2}
  VMs = {v1}
  Actors = {u1}
  Target <- OneMachine
  Requester <- OneUser
  LeaseTicks = 1
  FreshTicks = 1
  LateBound = 1
  MaxClock = 1
INVARIANTS
  TypeOK
  ExecutedAtMostOnce
  TruthfulOutcome
  NoReportRefused
  NeverReassigned
  SnapshotConservative
PROPERTIES
  ExecutionOnConfirmedRevision
  ExecutionWithinGrant
  ExecutionSoonAfterWithdrawal
  ImplementsManagedOperation
  SnapshotsAdvance
