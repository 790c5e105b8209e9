CONSTANTS
  pd = pd
  hd = hd
  fast = fast
  slow = slow
  Types = {pd, hd}
  PerfTypes = {}
  Perfs = {}
  Ops = {o1, o2}
  Reqs = {r1, r2}
  None = None
  Pending = Pending
  Reconciling = Reconciling
  Uuid = Uuid
  Invalid = Invalid
  Nodes = {n1, n2}
  Excl = Excl
  Classes <- HalfClasses
  Rejected = {}
  Doomed = {}
  MaxRunners = 1
SYMMETRY Names
SPECIFICATION Spec
INVARIANTS
  NeverAttachedWhileConverting
  NoUseWhileConverting
