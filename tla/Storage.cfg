SPECIFICATION MCSpec
CONSTANTS
  Processes = {1, 2, 3}
  MaxAcquisitions = 3
  MaxCrashes = 1
  Writers = {1, 2, 3}
  Observations = {"progress", "end"}
  Terminal = {"end"}
  MaxAppends = 2
  MaxWriteFaults = 1
  ItemLimit = 1
  DetailLimit = 2
  EvidenceLimit = 1
  Evidence = {}
  Callers = {"command", "mirror", "other"}
  LedgerOf <- MCLedgerOf
  Watching = {"here"}
  Mirrors = {"mirror", "other"}
  Plans <- MCPlans
  EditorNotes = {1}
  Unended = {"note"}
  MaxChanges = 3
  MaxTodoFaults = 1
  Targets = {"Todo.md", "note.md"}
  Bodies = {"x", "y"}
  MaxTokens = 2
  MaxPromotions = 3
  MaxEdits = 2
INVARIANTS
  StorageTypeOK
  OneWriter
  ThreadJournalKept
  NoUpdateOverwritten
  WrittenReadsBack
  TokenWritesOnce
CHECK_DEADLOCK FALSE
