SPECIFICATION Spec
CONSTANTS
  Clients = {c1, c2}
  Ops = {o1}
  Requests = {r1, r2}
  Kinds = {"wait", "send"}
  MayTimeout = FALSE
  NoOp = NoOp
  NoReq = NoReq
SYMMETRY Symmetry
INVARIANTS
  QueuedNotFreed
