CONSTANTS
  pd = pd
  hd = hd
  fast = fast
  slow = slow
  Types = {pd, hd}
  PerfTypes = {hd}
  Perfs = {fast, slow}
  Ops = {o1, o2}
  Reqs = {r1, r2}
  None = None
  Pending = Pending
  Reconciling = Reconciling
  Uuid = Uuid
  Invalid = Invalid
  Nodes = {}
  Excl = Excl
  Classes <- PerfClasses
  Rejected <- Fast
  Doomed <- Slow
  MaxRunners = 1
SYMMETRY Names
SPECIFICATION Spec
INVARIANTS
  TypeOK
  RecordedRequestIsTheOneSent
  OnlyInfeasibleRequestsAreOnRecord
