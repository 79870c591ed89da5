SPECIFICATION MCSpec
CONSTANTS
  RootTurns = {"t1", "t2"}
  ChildTurns = {"c"}
  Items = {"a", "b"}
  Slots = {"draft", "activity"}
  MaxNotifications = 3
  NoteSessions = {"s"}
  NoteTurns <- MCNoteTurns
  Unnumbered = {"old"}
  Oversized = {}
  MaxNoteCrashes = 1
  MaxNoteRequests = 3
  MaxPublished = 4
  ApprovalIds = {"p", "q"}
  Contents = {"x", "y"}
  MaxAnnouncements = 2
  MaxDecisions = 2
  MaxAwaited = 1
  Shells = {"s", "r"}
  Texts = {"a"}
  MaxStarts = 2
  PlanTokens = {"a", "a2", "b"}
  TitleOf <- MCTitleOf
  Near <- MCNear
  MaxPlanLength = 2
  MaxRevisions = 2
  TurnDeeds <- MCTurnDeeds
  LegacyProviders = {"p", "q"}
  MaxOverlays = 2
  PromptStatus = TRUE
  Planners = {1, 2}
  MaxItems = 2
  MaxPlanBreaks = 1
  MaxPlanReads = 1
  FlowTurns = {1, 2}
  FlowSteps = {"x", "y"}
  MaxFlowRecords = 4
  MaxSyncFailures = 1
  SettingsClients = {1, 2}
  Selections = {"a", "b"}
  ClientKinds = {"workbench", "router"}
  MaxChoices = 3
  MaxSettingsCrashes = 1
  PayloadLengths = {10, 3317, 3318}
  RootLengths = {4, 50}
  RunnerLengths = {18, 44}
  CwdLengths = {60, 61, 1702}
  MaxWooRefreshes = 11
  MaxViewRequests = 3
  MaxViewTurns = 2
  MaxLostAnswers = 1
  ShortlistLimit = 1
  DetailLimit = 2
  ReviewNotes = {"n"}
  MaxReviewSteps = 3
  MaxSends = 2
  MaxReviewFaults = 1
  StoreProviders = {"anthropic", "zai"}
  UsageProviders = {"anthropic"}
  Cached = {"anthropic"}
  Accounts = {"A"}
  MaxUsageTime = 1
  MaxCredentialOps = 3
  MaxRefreshes = 2
INVARIANTS
  WorkbenchTypeOK
  ScreenFitsTheTurns
  OneNotePerQuestion
  UndrawnIsScheduled
  DecisionFitsWhatWasShown
  DraftKept
  WantedSelectionKept
  PlannedIsKept
  FlowToldTruly
  NoChoiceOverwritten
  EvidenceFitsTheTurn
  ReviewTellsWhatHappened
  NoteHasItsQuestion
  ReviewsOnRecord
  LoginsAndQuotasAgree
PROPERTIES
  WorkToldOnce
CHECK_DEADLOCK FALSE
