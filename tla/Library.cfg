SPECIFICATION MCSpec
CONSTANTS
  Consumers = {"a", "b", "s"}
  AsyncConsumers = {"a", "b"}
  Completion = 2
  MaxClasses = 2
  Types = {"base", "derived", "other"}
  Subclass <- MCSubclass
  Instances = {"x", "y", "z"}
  TypeOf <- MCTypeOf
  Container <- MCContainer
  Composition = {"composer"}
  Sources = {"makesBase", "makesDerived", "annotatedBase", "opaque", "coroutine"}
  Declares <- MCDeclares
  Makes <- MCMakes
  OwnSource <- MCOwnSource
  StandIns <- MCStandIns
  Factories = {"base", "other"}
  MaxCollections = 3
  Unknown = Unknown
  Awaitable = Awaitable
  CommitKinds = {"fix", "feat", "tooling", "marked", "drop", "restore", "resign"}
  MaxCommits = 2
  MaxCuts = 2
  MaxTag = 2
  Attempts = 2
  MaxReruns = 1
  Names <- MCNames
  Position <- MCPosition
  AsyncName <- MCAsyncName
  ContractOrder <- MCContractOrder
  Checkouts <- MCCheckouts
  MaxEdits = 1
  UvVersions = {"0.11.26", "0.11.30", "0.12.0", "0.12.1rc1", "latest"}
  UvNumeric = {"0.11.26", "0.11.30", "0.12.0"}
  MinorOf <- MCMinorOf
  NoPin = NoPin
CHECK_DEADLOCK FALSE
INVARIANTS LibraryTypeOK StreamsFollowTheirConsumers ProvidersAreFaithful 
  ReleasesAreSound ScriptsAreHonest
PROPERTIES JobsEnd
