SPECIFICATION FairSpec
CONSTANTS
  Electors = {p1, p2, p3}
  LeaseDuration = 6
  RetryPeriod = 2
  MaxLatency = 1
  MaxErrors = 3
  NoLease = NoLease
  NoCall = NoCall
  p1 = p1
  p2 = p2
  p3 = p3
INVARIANT TypeOK
INVARIANT FirstLeaderAlone
INVARIANT DeposedStops
PROPERTY NoTakeoverFromLeader
PROPERTY SomeoneLeads
