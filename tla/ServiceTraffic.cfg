SPECIFICATION FairSpec
CONSTANTS
  Services = {a, b}
  Pods = {p, q}
  Backs <- SharedPod
  Home <- OneNode
  IPs = {1, 2}
  NodePorts = {x}
  Managers = {m1}
  Conns = {c1}
  MaxChanges = 2
  MaxErrors = 1
  Absent = Absent
  None = None
  a = a
  b = b
  p = p
  q = q
  n1 = n1
  n2 = n2
  x = x
  m1 = m1
  c1 = c1
INVARIANT TypeOK
INVARIANT RightBackend
PROPERTY TrafficSettles
