SPECIFICATION FairSpec
CONSTANTS
  Managers = {k1, k2}
  Deployments = {}
  Templates = {}
  Singles = {s1}
  Suffixes = {f1, f2, f3, f4}
  UserReplicas = {Unset, 0, 1}
  MaxChanges = 2
  MaxErrors = 1
  Unset = Unset
  Absent = Absent
  Nothing = Nothing
  k1 = k1
  k2 = k2
  s1 = s1
  f1 = f1
  f2 = f2
  f3 = f3
  f4 = f4
INVARIANT TypeOK
INVARIANT NoOvershoot
PROPERTY ReplicasSettle
