SPECIFICATION Spec
CONSTANTS
  q1 = q1
  q2 = q2
  Order = Order
  Rush = Rush
  Logging = Logging
  Retry = Retry
  Audit = Audit
  Impostor = Impostor
  Request = Request
  Handler = Handler
  None = None
  Sends = {q1, q2}
  RequestTypes = {Order, Rush}
  IsA <- MCIsA
  Entries = {Logging, Retry, Audit, Impostor}
  Behaviors = {Logging, Retry, Audit}
  MatchType <- MCMatchType
  ExactOnly = {Audit}
  MaxListed = 3
  MaxNext = 2
SYMMETRY SendSymmetry
INVARIANT TypeOK
INVARIANT OnionOrder
CHECK_DEADLOCK FALSE
