SPECIFICATION Spec
CONSTANTS
  s1 = s1
  s2 = s2
  s3 = s3
  Session = {s1, s2, s3}
  Tp = 2
  Setups <- StaleSetups
INVARIANTS
  PoolSeesLedger
CHECK_DEADLOCK FALSE
