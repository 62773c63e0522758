SPECIFICATION FairSpec
CONSTANTS
  Managers = {k1}
  Deployments = {d1}
  Templates = {t1, t2}
  Singles = {}
  Suffixes = {f1, f2, f3}
  UserReplicas = {2}
  MaxChanges = 2
  MaxErrors = 0
  Unset = Unset
  Absent = Absent
  Nothing = Nothing
  k1 = k1
  d1 = d1
  t1 = t1
  t2 = t2
  f1 = f1
  f2 = f2
  f3 = f3
PROPERTY PodsSettle
