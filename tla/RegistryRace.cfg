CONSTANTS
  None = None
  NotFound = NotFound
  Place = Place
  Bare = Bare
  PlaceHandler = PlaceHandler
  PlaceStreamer = PlaceStreamer
  WrongStreamer = WrongStreamer
  BareHandler = BareHandler
  Email = Email
  Audit = Audit
  Broken = Broken
  Placed = Placed
  Reply = Reply
  Tick = Tick
  t1 = t1
  t2 = t2
  t3 = t3
  Threads = {t1, t2, t3}
  RequestTypes = {Place, Bare}
  StreamTypes = {Place}
  HandlerClasses = {PlaceHandler, PlaceStreamer, WrongStreamer, BareHandler}
  StreamHandlerClasses = {PlaceStreamer, WrongStreamer}
  SubscriberClasses = {Email, Audit}
  NotificationTypes = {Placed}
  ResponseTypes = {Reply, Tick}
  Declared <- MCDeclared
  Handles <- MCHandles
  Returns <- MCReturns
  Subscribes <- MCSubscribes
  IllFormed = {}
  Utilities = {"clr_h_lock", "all_r_lock", "st_r_lock"}
  MaxCalls = 2
SPECIFICATION Spec
SYMMETRY ThreadSymmetry
CHECK_DEADLOCK FALSE
INVARIANTS
  TypeOK
  NoDeadlock
  RegistrationsSurvive
  RegisteredHandlersFit
  StatsConsistent
  LooksFailOnlyOverClear
PROPERTIES
  HandlerNeverReplaced
  SubscriptionsAppendOnly
