SPECIFICATION FairSpec
CONSTANTS
  Managers = {k1}
  Deployments = {d1}
  Templates = {t1, t2}
  Singles = {}
  Suffixes = {f1}
  UserReplicas = {2}
  MaxChanges = 3
  MaxErrors = 1
  Unset = Unset
  Absent = Absent
  Nothing = Nothing
  k1 = k1
  d1 = d1
  t1 = t1
  t2 = t2
  f1 = f1
PROPERTY CapacityKept
PROPERTY RolloutSettles
