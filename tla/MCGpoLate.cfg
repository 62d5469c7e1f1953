SPECIFICATION Spec
CONSTANTS
  d1 = d1
  i1 = i1
  c1 = c1
  p1 = p1
  Agents = {d1}
  Inspections = {i1}
  Changes = {c1}
  Pilots = {}
  Executor <- OneController
  Users = {u1, u2}
  Nobody = Nobody
  NoJob = NoJob
  NoDoc = NoDoc
  Exists = FALSE
  Rounds = 1
  MaxUnrest = 1
SYMMETRY AnyUser
INVARIANTS
  LateReceiptsTaken
