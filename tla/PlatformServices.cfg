SPECIFICATION ServicesSpec
CONSTANTS
  a1 = a1
  a2 = a2
  a3 = a3
  b1 = b1
  b2 = b2
  bundle = bundle
  thing = thing
  admin = admin
  q1 = q1
  q2 = q2
  c1 = c1
  c2 = c2
  d1 = d1
  None = None
  Nobody = Nobody
  DraftIds <- MCTasks
  Bundles = {bundle}
  Digests <- MCNames
  Tools = {thing}
  Approvers = {admin}
  Times <- MCTimes
  Messages <- MCMessages
  Readers <- MCReaders
  Coordinators <- MCCoordinators
  Home <- MCHome
  Limit <- MCLimit
  Handlers <- MCTasks
  Callers <- MCNames
  Effects = {b1}
  Actors = {b1}
  Arguments = {thing}
  MaxEntries = 2
  MaxFailures = 1
  TTL = 1
  Window = 1
  RateLimit = 2
  MaxCodes = 2
  MaxChanges = 1
  Requests <- MCTasks
  UserOf <- MCUserOf
  MaxActive = 1
  MaxPending = 1
  MaxPerUser = 2
  PendingTTL = 3
  ActiveTTL = 4
  Poll = 1
  Heartbeat = 1
  CooldownTTL = 1
  Slowest = 1
  RoundTools <- MCRoundTools
  Graphs <- MCGraphs
  Workers = 3
  Called <- MCCalled
  RouteOf <- MCRouteOf
  MaxRounds = 2
  MaxTries = 2
  MaxRepeats = 2
  Asks <- MCTasks
  Profiles <- MCProfiles
  ToolNames <- MCToolNames
  Search = "w"
  ProtocolTools = {"p"}
  ForSuperusers = {}
  Inventories <- MCInventories
  Selectors <- MCSelectors
  MaxCatalogs = 2
  MaxPatches = 1
  MaxRecords = 1
  MaxRecordTools = 3
  MaxRows = 5
  Selections <- MCSelections
  Settings <- MCSettings
  Askers <- MCTasks
  KeptFor = 1
  MaxFlights = 2
  MaxSessions = 2
  MaxHours = 1
  Chats = {d1}
  Models <- MCModels
  About <- MCAbout
  Lists <- MCLists
  Files <- MCFiles
  MaxSteps = 2
  Runs <- MCRuns
  Loads <- MCLoads
  MaxWaiting = 1
SYMMETRY MCSymmetry
INVARIANTS
  WellFormed
  ReviewedProvenance
  TypeOK
  ServicesTypeOK
  OffersWhatItMay
  AnswersShared
  FitModel
  ToolsContained
PROPERTIES
  DecidedDraftsFrozen
  ArchivedIsFinal
  ServesTheLog
  NothingTwice
  LeasesExclude
  ToldAsTraced
  AnsweredOnce
CHECK_DEADLOCK FALSE
