SPECIFICATION FairSpec
CONSTANTS
  Nodes = {n1}
  Schedulers = {s1}
  Pods = {p1, p2}
  Containers = {c1}
  Probed = {p1, p2}
  IPs = {i1, i2}
  LocalPorts = {}
  MaxChanges = 2
  MaxErrors = 1
  Absent = Absent
  None = None
  n1 = n1
  s1 = s1
  p1 = p1
  p2 = p2
  c1 = c1
  i1 = i1
  i2 = i2
PROPERTY ExitedRestarted
