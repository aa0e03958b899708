SPECIFICATION Spec
CONSTANTS
  p1 = p1
  p2 = p2
  s1 = s1
  s2 = s2
  s3 = s3
  Publications = {p1, p2}
  Subscribers = {s1, s2, s3}
  SyncForm = {}
  Exiting = {s3}
SYMMETRY PublicationSymmetry
INVARIANT TypeOK
INVARIANT DeliveryIsWhole
PROPERTY ImplementsDelivery
CHECK_DEADLOCK FALSE
