SPECIFICATION Spec
CONSTANTS
  s3 = s3
  p2 = p2
  p1 = p1
  s1 = s1
  s2 = s2
  Publications = {p1}
  Subscribers = {s1, s2}
  SyncForm = {}
  Exiting = {s2}
INVARIANT ExitReachesPublisher
CHECK_DEADLOCK FALSE
