SPECIFICATION FairSpec
CONSTANTS
  Clients = {c1, c2}
  Watchers = {w1}
  Leavers = {}
  Keys = {k1, k2}
  Kinds = {pods, nodes}
  Objects = {o1}
  ReadErrors = TRUE
  Cap = 1
  MaxCalls = 2
  MaxCrashes = 2
  KindOf <- TwoKinds
  c1 = c1
  c2 = c2
  k1 = k1
  k2 = k2
  pods = pods
  nodes = nodes
  w1 = w1
  o1 = o1
  NoObj = NoObj
  Malformed = Malformed
  None = None
  Torn = Torn
  Unknown = Unknown
INVARIANT TypeOK
INVARIANT AckedKept
PROPERTY ImplementsRegistry
CHECK_DEADLOCK FALSE
PROPERTY RequestsReturn
PROPERTY EventsReachWatchers
