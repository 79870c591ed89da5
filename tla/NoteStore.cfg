SPECIFICATION NotesSpec
CONSTANTS
  NoteSessions = {"s", "r"}
  NoteTurns <- MCNoteTurns
  Unnumbered = {}
  Oversized = {}
  MaxNoteCrashes = 0
  MaxNoteRequests = 2
INVARIANTS
  LinesNumbered
CHECK_DEADLOCK FALSE
