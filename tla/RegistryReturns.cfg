CONSTANTS
  None = None
  NotFound = NotFound
  Place = Place
  Bare = Bare
  PlaceHandler = PlaceHandler
  PlaceStreamer = PlaceStreamer
  WrongStreamer = WrongStreamer
  BareHandler = BareHandler
  Email = Email
  Audit = Audit
  Broken = Broken
  Placed = Placed
  Reply = Reply
  Tick = Tick
  t1 = t1
  t2 = t2
  Threads = {t1, t2}
  RequestTypes = {Place, Bare}
  StreamTypes = {Place}
  HandlerClasses = {PlaceHandler, PlaceStreamer}
  StreamHandlerClasses = {PlaceStreamer}
  SubscriberClasses = {Email, Broken}
  NotificationTypes = {Placed}
  ResponseTypes = {Reply, Tick}
  Declared <- MCDeclared
  Handles <- MCHandles
  Returns <- MCReturns
  Subscribes <- MCSubscribes
  IllFormed = {Broken}
  Utilities = {"clr_h_lock", "all_r_lock", "st_r_lock"}
  MaxCalls = 2
SPECIFICATION FairSpec
CHECK_DEADLOCK FALSE
PROPERTY EveryCallReturns
