SPECIFICATION FairSpec
CONSTANTS
  p1 = p1
  p2 = p2
  s1 = s1
  s2 = s2
  s3 = s3
  Publications = {p1, p2}
  Subscribers = {s1, s2, s3}
  SyncForm = {s2}
  Exiting = {s3}
INVARIANT ReturnMeansDelivered
PROPERTY EveryPublicationEnds
CHECK_DEADLOCK FALSE
