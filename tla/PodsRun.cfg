SPECIFICATION FairSpec
CONSTANTS
  Nodes = {n1, n2}
  Schedulers = {s1}
  Pods = {p1}
  Containers = {c1}
  Probed = {p1}
  IPs = {i1}
  LocalPorts <- Somewhere
  MaxChanges = 3
  MaxErrors = 2
  Absent = Absent
  None = None
  n1 = n1
  n2 = n2
  s1 = s1
  p1 = p1
  c1 = c1
  i1 = i1
INVARIANT TypeOK
INVARIANT OneHome
INVARIANT CleansUpGone
PROPERTY PodsBound
PROPERTY EngineSettles
PROPERTY StatusSettles
