SPECIFICATION FairSpec
CONSTANTS
  Clients = {c1, c2}
  Ops = {o1, o2}
  Requests = {r1, r2, r3}
  Kinds = {"wait"}
  MayTimeout = TRUE
  NoOp = NoOp
  NoReq = NoReq
INVARIANTS
  TypeOK
  FreeOpsUnused
  NoOpLost
  RefCountExact
  PutNeverFails
  OwnResult
PROPERTIES
  ServesInOrder
  EveryCallReturns
