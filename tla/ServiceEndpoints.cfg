SPECIFICATION FairSpec
CONSTANTS
  Services = {a, b}
  Pods = {p, q}
  Backs <- SharedPod
  Home <- TwoNodes
  IPs = {1, 2}
  NodePorts = {}
  Managers = {m1, m2}
  Conns = {}
  MaxChanges = 2
  MaxErrors = 1
  Absent = Absent
  None = None
  a = a
  b = b
  p = p
  q = q
  n1 = n1
  n2 = n2
  m1 = m1
  m2 = m2
PROPERTY EndpointsSettle
PROPERTY OnlyTiedRewritten
