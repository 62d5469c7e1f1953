\* One node, from its inspection to its second restart, and what becomes of its
\* offers.
SPECIFICATION PunctualSpec
CONSTANTS
  m1 = m1
  Managers = {m1}
  Nobody = Nobody
  NoJob = NoJob
  NoDoc = NoDoc
  NodeCount = 1
  StepsPerNode = 4
  Rounds = 2
  MaxBoot = 1
  MaxUnrest = 1
INVARIANTS
  TypeOK
  ProvenOnTheMachine
  FailedStepsTouchNothing
  NoReportRefused
  OffersTaken
PROPERTIES
  ImplementsSteppedPlan
  SettledPlansAreQuiet
  UncertainStepsFence
