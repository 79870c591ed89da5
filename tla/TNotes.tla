-------------------------------- MODULE TNotes --------------------------------
(***************************************************************************)
(* T-notes: one summary per completed question, made by a detached         *)
(* generator and appended to a file (ProjectWorkbench in                   *)
(* src/application/project-workbench.ts, TNoteService in                   *)
(* src/application/t-note-service.ts, FileTNoteStore in                    *)
(* src/infrastructure/t-note-store.ts, src/domain/t-notes.ts).             *)
(*                                                                         *)
(* A session has one thread and makes notes of its own turns; every        *)
(* session of the project appends to the same file.  A turn is one whose   *)
(* question and start are in the journal (completedTurnNoteScope).  The    *)
(* journal survives a crash, and so do the complete lines of the file.     *)
(* What runs in one go between two callbacks of the file system is a step: *)
(* no command comes between the end of createTNote and the note's entry.   *)
(***************************************************************************)
EXTENDS Integers, Sequences, FiniteSets, SequencesExt, Filters

CONSTANTS
  NoteSessions,
  NoteTurns,         \* [NoteSessions -> sets of turns]
  Unnumbered,        \* turns completed and noted before notes had numbers
  Oversized,         \* turns of more than MAX_ACTIVITIES activities
  MaxNoteCrashes,
  MaxNoteRequests    \* generations begun, by session

ASSUME NotesAssumption ==
  /\ MaxNoteCrashes \in Nat /\ MaxNoteRequests \in Nat
  /\ IsFiniteSet(Unnumbered)
  /\ \A s, r \in NoteSessions : s # r => NoteTurns[s] \intersect NoteTurns[r] = {}

AllNoteTurns == UNION {NoteTurns[s] : s \in NoteSessions}
NoTail == [whole |-> FALSE, note |-> <<>>]
NoManual == [turn |-> "none", behind |-> 0, step |-> "idle"]

VARIABLES
  sessionState,   \* "open", "closing" or "gone"
  completedTurns, \* session -> its completed turns, in the order of the journal
  lines,          \* complete lines of t-notes.jsonl: [line, turn, number]
  tail,           \* what follows them without a line break
  noteDrafts,     \* session -> notes by id
  notesListed,    \* session -> notes, as listed
  ordinals,       \* session -> turn -> completionOrdinals, 0 for none
  jobs,           \* session -> tnoteQueue, turns
  automatic,      \* session -> automaticTNoteTurns
  requests,       \* session -> {[turn, by, line]}, line 0 until the file has been read
  manual,         \* session -> the command tnote.capture in execution
  noteCrashes, noteRequests

noteVars == <<sessionState, completedTurns, lines, tail, noteDrafts, notesListed, ordinals, jobs,
              automatic, requests, manual, noteCrashes, noteRequests>>

-----------------------------------------------------------------------------
(* Helpers.                                                                *)

NotesOf(s, file) == Selected(file, {n \in ToSet(file) : n.turn \in NoteTurns[s]})
NoteForTurn(drafts, t) == {n \in drafts : n.turn = t}
MaxNumber(ns) == CHOOSE m \in ns \union {0} : \A n \in ns : n <= m

\* projectTNoteCompletionIndex: the numbers of the completed turns that have a note.
CompletionIndex(turns, drafts) ==
  FoldLeft(LAMBDA index, t :
             IF NoteForTurn(drafts, t) = {} THEN index
             ELSE LET own == MaxNumber({n.number : n \in NoteForTurn(drafts, t)})
                      before == MaxNumber({e.number : e \in ToSet(index)})
                  IN  Append(index, [turn |-> t, number |-> IF own # 0 THEN own ELSE before + 1]),
           <<>>, turns)

\* completionOrdinal: a number once reserved stays.
OrdinalFor(turns, drafts, reserved, t) ==
  LET visible == {e.number : e \in {i \in ToSet(CompletionIndex(turns, drafts)) : i.turn # t}}
  IN  IF reserved[t] # 0 THEN reserved[t]
      ELSE 1 + MaxNumber({n.number : n \in drafts} \union visible)

\* Mutant of MayNote: whether there is a note is not looked up.
MayNoteAgain(drafts, t) == TRUE
MayNote(drafts, t) == NoteForTurn(drafts, t) = {}

\* scheduleAutomaticTNote of each of turns.
Schedule(s, turns, drafts, reserved, queued, running) ==
  LET new == Selected(turns, {t \in ToSet(turns) : t \notin running /\ MayNote(drafts, t)})
  IN  /\ jobs' = [jobs EXCEPT ![s] = queued \o new]
      /\ automatic' = [automatic EXCEPT ![s] = running \union ToSet(new)]
      /\ ordinals' = [ordinals EXCEPT ![s] =
                        [t \in NoteTurns[s] |-> IF t \in ToSet(new) THEN OrdinalFor(completedTurns'[s], drafts, reserved, t)
                                                ELSE reserved[t]]]

CompleteTurn(s, t) ==
  /\ sessionState[s] = "open" /\ t \notin ToSet(completedTurns[s])
  /\ completedTurns' = [completedTurns EXCEPT ![s] = Append(@, t)]
  /\ Schedule(s, <<t>>, noteDrafts[s], ordinals[s], jobs[s], automatic[s])
  /\ UNCHANGED <<sessionState, lines, tail, noteDrafts, notesListed, requests, manual, noteCrashes,
                 noteRequests>>

-----------------------------------------------------------------------------
(* createTNote: the packet, the generator, the checks of its text.  A      *)
(* second caller for a turn would join the request of the first.           *)

Begin(s, t, by) ==
  /\ noteRequests[s] < MaxNoteRequests
  /\ noteRequests' = [noteRequests EXCEPT ![s] = @ + 1]
  /\ requests' = [requests EXCEPT ![s] = @ \union {[turn |-> t, by |-> by, line |-> 0]}]

RunJob(s) ==
  /\ sessionState[s] # "gone" /\ jobs[s] # <<>>
  /\ \A r \in requests[s] : r.by # "job" /\ r.turn # Head(jobs[s])
  /\ Begin(s, Head(jobs[s]), "job")
  /\ automatic' = [automatic EXCEPT ![s] = @ \union {Head(jobs[s])}]
  /\ UNCHANGED <<sessionState, completedTurns, lines, tail, noteDrafts, notesListed, ordinals, jobs,
                 manual, noteCrashes>>

\* The end of a request, for the job or the command that waits for it.
Finished(s, r) ==
  /\ requests' = [requests EXCEPT ![s] = @ \ {r}]
  /\ automatic' = [automatic EXCEPT ![s] = @ \ {r.turn}]
  /\ jobs' = IF r.by = "job" THEN [jobs EXCEPT ![s] = Tail(@)] ELSE jobs
  /\ manual' = IF r.by = "manual" THEN [manual EXCEPT ![s] = NoManual]
               ELSE [manual EXCEPT ![s].behind = IF @ = 0 THEN 0 ELSE @ - 1]

\* The packet is refused, the generator fails or is aborted, or its text is not canonical.
Failed(s, r) ==
  /\ r.line = 0 /\ Finished(s, r)
  /\ UNCHANGED <<sessionState, completedTurns, lines, tail, noteDrafts, notesListed, ordinals,
                 noteCrashes, noteRequests>>

StoreReadable(file) == \A i \in DOMAIN file : file[i].line = i

\* readAllUnchecked keeps a whole last line and cuts off the residue of a crash.
Recovered(file, rest) ==
  IF rest.whole /\ rest.note.line = Len(file) + 1 THEN Append(file, rest.note) ELSE file

\* The generator has answered, which it does not once close() has aborted it:
\* FileTNoteStore.append reads first; appends of one process follow one another.
ReadNotes(s, r) ==
  /\ sessionState[s] = "open" /\ r.line = 0 /\ r.turn \notin Oversized
  /\ \A q \in requests[s] : q.line = 0
  /\ IF StoreReadable(lines)
     THEN /\ lines' = Recovered(lines, tail) /\ tail' = NoTail
          /\ requests' = [requests EXCEPT ![s] =
                            (@ \ {r}) \union {[r EXCEPT !.line = Len(lines') + 1]}]
          /\ UNCHANGED <<automatic, jobs, manual>>
     ELSE Finished(s, r) /\ UNCHANGED <<lines, tail>>
  /\ UNCHANGED <<sessionState, completedTurns, noteDrafts, notesListed, ordinals, noteCrashes, noteRequests>>

NoteOf(s, r) == [line |-> r.line, turn |-> r.turn, number |-> ordinals[s][r.turn]]

\* A job of a closed workbench enters no note.
AppendNote(s, r) ==
  LET note == NoteOf(s, r)
      entered == sessionState[s] = "open" \/ r.by = "manual"
  IN  /\ r.line # 0
      /\ IF tail = NoTail THEN lines' = Append(lines, note) /\ tail' = tail
         ELSE lines' = Append(lines, [note EXCEPT !.line = 0]) /\ tail' = NoTail
      /\ noteDrafts' = IF entered THEN [noteDrafts EXCEPT ![s] = @ \union {note}] ELSE noteDrafts
      /\ notesListed' = IF entered THEN [notesListed EXCEPT ![s] = Append(@, note)] ELSE notesListed
      /\ Finished(s, r)
      /\ UNCHANGED <<sessionState, completedTurns, ordinals, noteCrashes, noteRequests>>

-----------------------------------------------------------------------------
(* The command: captureNote, captureSessionNote, captureNoteRange.         *)

MustWait(s, t) == t \in automatic[s]

Capture(s, t) ==
  /\ sessionState[s] = "open" /\ manual[s] = NoManual /\ t \in ToSet(completedTurns[s])
  /\ ordinals' = [ordinals EXCEPT ![s][t] =
                    OrdinalFor(completedTurns[s], noteDrafts[s], ordinals[s], t)]
  /\ \/ /\ ~MayNote(noteDrafts[s], t)
        /\ UNCHANGED <<automatic, requests, manual, noteRequests>>
     \/ /\ MayNote(noteDrafts[s], t) /\ MustWait(s, t)
        /\ manual' = [manual EXCEPT ![s] = [turn |-> t, behind |-> Len(jobs[s]), step |-> "waits"]]
        /\ UNCHANGED <<automatic, requests, noteRequests>>
     \/ /\ MayNote(noteDrafts[s], t) /\ ~MustWait(s, t)
        /\ Begin(s, t, "manual")
        /\ automatic' = [automatic EXCEPT ![s] = @ \union {t}]
        /\ manual' = [manual EXCEPT ![s] = [turn |-> t, behind |-> 0, step |-> "creates"]]
  /\ UNCHANGED <<sessionState, completedTurns, lines, tail, noteDrafts, notesListed, jobs, noteCrashes>>

\* Behind the queue: by now there is a note, or the job has failed.
CaptureAfterQueue(s) ==
  LET t == manual[s].turn
  IN  /\ sessionState[s] # "gone" /\ manual[s].step = "waits" /\ manual[s].behind = 0
      /\ IF MayNote(noteDrafts[s], t)
         THEN /\ Begin(s, t, "manual")
              /\ automatic' = [automatic EXCEPT ![s] = @ \union {t}]
              /\ manual' = [manual EXCEPT ![s].step = "creates"]
         ELSE /\ manual' = [manual EXCEPT ![s] = NoManual]
              /\ UNCHANGED <<automatic, requests, noteRequests>>
      /\ UNCHANGED <<sessionState, completedTurns, lines, tail, noteDrafts, notesListed, ordinals,
                     jobs, noteCrashes>>

-----------------------------------------------------------------------------
(* Close, crash and restart.                                               *)

CloseWorkbench(s) ==
  /\ sessionState[s] = "open" /\ sessionState' = [sessionState EXCEPT ![s] = "closing"]
  /\ UNCHANGED <<completedTurns, lines, tail, noteDrafts, notesListed, ordinals, jobs, automatic,
                 requests, manual, noteCrashes, noteRequests>>

Forget(s) ==
  /\ sessionState' = [sessionState EXCEPT ![s] = "gone"]
  /\ noteDrafts' = [noteDrafts EXCEPT ![s] = {}]
  /\ notesListed' = [notesListed EXCEPT ![s] = <<>>]
  /\ ordinals' = [ordinals EXCEPT ![s] = [t \in NoteTurns[s] |-> 0]]
  /\ jobs' = [jobs EXCEPT ![s] = <<>>]
  /\ automatic' = [automatic EXCEPT ![s] = {}]
  /\ requests' = [requests EXCEPT ![s] = {}]
  /\ manual' = [manual EXCEPT ![s] = NoManual]
  /\ UNCHANGED <<completedTurns, noteRequests>>

\* close() waits for the command and for the queue of notes.
Exit(s) ==
  /\ sessionState[s] = "closing" /\ manual[s] = NoManual /\ jobs[s] = <<>>
  /\ Forget(s) /\ UNCHANGED <<lines, tail, noteCrashes>>

\* A crash may leave the line being written in part, or whole but for its line break.
CrashOf(s) ==
  /\ sessionState[s] # "gone" /\ noteCrashes < MaxNoteCrashes /\ noteCrashes' = noteCrashes + 1
  /\ Forget(s) /\ UNCHANGED lines
  /\ \/ UNCHANGED tail
     \/ \E r \in requests[s], whole \in BOOLEAN :
          /\ r.line # 0 /\ tail = NoTail
          /\ tail' = [whole |-> whole, note |-> NoteOf(s, r)]

\* initialize: loadBoundTNotes and reconcileAutomaticTNotes.
Open(s) ==
  /\ sessionState[s] = "gone" /\ StoreReadable(lines)
  /\ sessionState' = [sessionState EXCEPT ![s] = "open"]
  /\ lines' = Recovered(lines, tail) /\ tail' = NoTail
  /\ notesListed' = [notesListed EXCEPT ![s] = NotesOf(s, lines')]
  /\ noteDrafts' = [noteDrafts EXCEPT ![s] = ToSet(NotesOf(s, lines'))]
  /\ UNCHANGED <<completedTurns, requests, manual, noteCrashes, noteRequests>>
  /\ Schedule(s, completedTurns[s], noteDrafts'[s],
              [t \in NoteTurns[s] |-> MaxNumber({n.number : n \in NoteForTurn(noteDrafts'[s], t)})], <<>>, {})

NotesInit ==
  /\ sessionState = [s \in NoteSessions |-> "gone"]
  /\ completedTurns = [s \in NoteSessions |-> SetToSeq(NoteTurns[s] \intersect Unnumbered)]
  /\ LET old == SetToSeq(AllNoteTurns \intersect Unnumbered)
     IN  lines = [i \in DOMAIN old |-> [line |-> i, turn |-> old[i], number |-> 0]]
  /\ tail = NoTail
  /\ noteDrafts = [s \in NoteSessions |-> {}] /\ notesListed = [s \in NoteSessions |-> <<>>]
  /\ ordinals = [s \in NoteSessions |-> [t \in NoteTurns[s] |-> 0]]
  /\ jobs = [s \in NoteSessions |-> <<>>] /\ automatic = [s \in NoteSessions |-> {}]
  /\ requests = [s \in NoteSessions |-> {}] /\ manual = [s \in NoteSessions |-> NoManual]
  /\ noteCrashes = 0 /\ noteRequests = [s \in NoteSessions |-> 0]

NotesNext ==
  \E s \in NoteSessions :
    \/ Open(s) \/ CloseWorkbench(s) \/ Exit(s) \/ CrashOf(s)
    \/ RunJob(s) \/ CaptureAfterQueue(s)
    \/ \E t \in NoteTurns[s] : CompleteTurn(s, t) \/ Capture(s, t)
    \/ \E r \in requests[s] : Failed(s, r) \/ ReadNotes(s, r) \/ AppendNote(s, r)

NotesSpec == NotesInit /\ [][NotesNext]_noteVars

-----------------------------------------------------------------------------
(* Properties.                                                             *)

NoteRecords == [line : Nat, turn : AllNoteTurns, number : Nat]
NotesTypeOK ==
  /\ sessionState \in [NoteSessions -> {"open", "closing", "gone"}]
  /\ ToSet(lines) \subseteq NoteRecords
  /\ \A s \in NoteSessions :
       /\ ToSet(completedTurns[s]) \subseteq NoteTurns[s] /\ ToSet(jobs[s]) \subseteq automatic[s]
       /\ noteDrafts[s] = ToSet(notesListed[s]) /\ noteDrafts[s] \subseteq NoteRecords
       /\ \A r \in requests[s] : r.by = "manual" => manual[s].turn = r.turn
       /\ manual[s].step = "idle" => manual[s] = NoManual

\* A question has at most one note, in the file and in the list, whoever asks for it -
\* the end of its turn, the user, the next start - and whatever failed before.
OneNotePerQuestion ==
  /\ \A i, j \in DOMAIN lines : lines[i].turn = lines[j].turn => i = j
  /\ \A s \in NoteSessions : \A i, j \in DOMAIN notesListed[s] :
       notesListed[s][i].turn = notesListed[s][j].turn => i = j

\* "sequence is not monotonic" never happens: every line has its own number.
LinesNumbered == StoreReadable(lines)
=============================================================================
