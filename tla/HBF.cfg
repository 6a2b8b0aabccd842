SPECIFICATION FairSpec
CONSTANTS
  s1 = s1
  s2 = s2
  s3 = s3
  Session = {s1, s2, s3}
  Tp = 2
  Setups <- MCSetups
INVARIANTS
  HbfBooksExact
  LpddrBooksExact
  JobsFollowSessions
  NeverRaises
PROPERTIES
  EveryTurnServed
  ServesSessions
CHECK_DEADLOCK FALSE
