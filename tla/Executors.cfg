SPECIFICATION MCSpec
CONSTANTS
  MaxRequests = 1
  MaxAsked = 1
  MaxAnswers = 2
  MaxGarbage = 1
  MaxPiTurns = 2
  MaxPiText = 2
  AgentRounds = 2
  CallsPerRound = 2
  MaxSubmissions = 2
  MaxRestarts = 1
  MaxStoreFaults = 1
  Turns = {"t1", "t2"}
  Models = {"a", "b"}
  MaxTotal = 2
  MaxReports = 3
  MaxDetached = 1
  Resumed = {TRUE, FALSE}
  Runners = {"terminal", "review", "tool"}
  Resumes = {TRUE, FALSE}
  MaxOpenFaults = 2
  MaxOpenSends = 2
  MaxOpenNotices = 2
  ItemLimit = 2
  DetailLimit = 1
  EvidenceLimit = 1
  Evidence = {"e"}
  MaxWork = 8
INVARIANTS
  ExecutorTypeOK
  EachAnsweredOnce
  TurnEventsFit
  ContextKept
  SessionSound
  TokensConserved
  EvidencedCompletion
PROPERTIES
  EveryRunEnds
CHECK_DEADLOCK FALSE
