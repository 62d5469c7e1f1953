\* A read and a write on two machines of one Agent: what must eventually happen.
SPECIFICATION FairSpec
CONSTANTS
  w1 = w1
  w2 = w2
  r1 = r1
  v1 = v1
  v2 = v2
  u1 = u1
  NoJob = NoJob
  Jobs = {r1, w2}
  Mutations = {w2}
  VMs = {v1, v2}
  Actors = {u1}
  Target <- TwoMachines
  Requester <- OneUser
  LeaseTicks = 1
  FreshTicks = 1
  LateBound = 1
  MaxClock = 0
PROPERTIES
  GrantedWorkSettles
  AcceptedWorkMoves
