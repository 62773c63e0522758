SPECIFICATION Spec
CONSTANTS
  Clients = {c1, c2}
  Watchers = {w1, w2}
  Leavers = {w1, w2}
  Keys = {k1, k2}
  Kinds = {pods, nodes}
  Objects = {o1}
  ReadErrors = FALSE
  Cap = 1
  MaxCalls = 3
  MaxCrashes = 0
  KindOf <- TwoKinds
  c1 = c1
  c2 = c2
  k1 = k1
  k2 = k2
  pods = pods
  nodes = nodes
  w1 = w1
  w2 = w2
  o1 = o1
  NoObj = NoObj
  Malformed = Malformed
  None = None
  Torn = Torn
  Unknown = Unknown
SYMMETRY Symmetry
INVARIANT Inv
INVARIANT StreamExact
INVARIANT CaughtUp
PROPERTY ImplementsFeed
CHECK_DEADLOCK FALSE
