SPECIFICATION MCSpec
CONSTANTS
  Purchases = {"o1", "o2", "o3"}
  Sku <- MCSku
  Quantity <- MCQuantity
  InitialStock <- MCStock
  Declined = {"o3"}
  Reactors = {"mail", "stats"}
  BoardSends = {"r1", "r3", "r4", "r5", "r6", "r7", "r8", "r9"}
  Kind <- MCKind
  Target <- MCTarget
  MayWrite = {"r1", "r2", "r3"}
  WantsCache = {"r4", "r5", "r6", "r7"}
  NoEntry = NoEntry
  Calls = {"c1", "c2", "c3", "c4", "c5", "c6", "c7", "c8", "c9"}
  Op <- MCOp
  Document <- MCDocument
  Token <- MCToken
  Bearer = {"c1", "c2", "c3", "c4", "c8"}
  Cli = {"c5", "c6", "c7"}
  Documents = {"d1", "d2"}
  Owner <- MCOwner
  Nobody = Nobody
  Contexts = {"root", "child"}
  Root = "root"
  MaxDispatch = 4
  Operations = {"place1", "place2", "cancel1", "refund1", "export1", "plase1"}
  Action <- MCAction
  OrderNo <- MCOrderNo
  Signups = {"u1", "u2", "u3"}
  Lookups = {"g1", "g2"}
  Posts = {"p1", "p2", "p3", "p4", "p5", "s1", "s2"}
  Route <- MCRoute
  SchemaOK = {"p1", "p2", "p3", "p4", "s1", "s2"}
  BrokenRules <- MCBrokenRules
  Quota = 2
  MaxAdds = 5
  LookedFor <- MCLookedFor
CHECK_DEADLOCK FALSE
INVARIANTS ExamplesTypeOK OrdersAddUp VaultIsGuarded RecordsTellWhatHappened StoresAddUp
PROPERTIES OrdersSettle MirrorsSyncBoard MirrorsAsyncVault
