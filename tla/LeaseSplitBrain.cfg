SPECIFICATION Spec
CONSTANTS
  Electors = {p1, p2}
  LeaseDuration = 6
  RetryPeriod = 2
  MaxLatency = 1
  MaxErrors = 3
  NoLease = NoLease
  NoCall = NoCall
  p1 = p1
  p2 = p2
SYMMETRY Symmetry
INVARIANT AtMostOneLeader
