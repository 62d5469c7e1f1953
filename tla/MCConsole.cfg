\* Two sessions, on one machine or on two.
CHECK_DEADLOCK FALSE
SPECIFICATION FairSpec
CONSTANTS
  SessionCount = 2
  None = None
  MaxInputs = 2
  QueueLimit = 2
  BatchLimit = 2
  MaxUnrest = 1
INVARIANT TypeOK
PROPERTIES
  ImplementsInputStream
  QueuedInputsMove
