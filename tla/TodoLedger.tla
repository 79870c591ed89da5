----------------------------- MODULE TodoLedger -----------------------------
(***************************************************************************)
(* The Todo file of one thread: ledgers that change it by compare-and-swap *)
(* (src/application/todo-ledger.ts, src/infrastructure/todo-store.ts), and *)
(* an editor that writes into it without asking.                           *)
(*                                                                         *)
(* A ledger is one TodoLedger with its store; ledgers of two processes     *)
(* share the file and the lock database.  In a ledger a user's command and *)
(* the synchronisation of the native plan may be under way together: two   *)
(* callers of the same ledger.                                             *)
(***************************************************************************)
EXTENDS TodoDocument

CONSTANTS
  Callers,           \* operations that may be under way together
  LedgerOf,          \* caller -> its ledger
  Watching,          \* ledgers whose watch fires
  Mirrors,           \* those that mirror the native plan; the others are commands
  Plans,             \* native plans that may be mirrored
  EditorNotes,       \* what the editor may write
  Unended,           \* kinds of the last lines it may leave without a line break
  MaxChanges,        \* commits in a behaviour
  MaxTodoFaults      \* writes, locks or event appends that throw

ASSUME LedgerAssumption ==
  /\ DOMAIN LedgerOf = Callers /\ Mirrors \subseteq Callers /\ "none" \notin Callers
  /\ Watching \subseteq {LedgerOf[c] : c \in Callers}
  /\ Plans \subseteq Seq({"pending", "running", "completed", "failed", "cancelled"})
  /\ EditorNotes \subseteq Nat \ {0} /\ Unended \subseteq {"note", "item", "detail"}
  /\ MaxChanges \in Nat /\ MaxTodoFaults \in Nat

Ledgers == {LedgerOf[c] : c \in Callers}
NoDocument == [rev |-> -1, items |-> <<>>]
NoSource   == [rev |-> -1, lines |-> <<>>]
NoWriter   == "none"

VARIABLES
  source,        \* the file: revision and lines, or NoSource
  current,       \* ledger -> the document it shows
  todoPc,        \* caller -> the await it is suspended at
  next,          \* caller -> the document it commits
  basis,         \* caller -> the document it computed it from
  ready,         \* caller -> the patched source it renames into place
  writer,        \* the caller that holds the lock
  lastInternal,  \* ledger -> lastInternalSource of its store
  observed,      \* ledger -> lastObservedSource of its watch
  glimpse,       \* ledger -> what a refresh of the watch has read, or NoSource
  changes, todoFaults,
  overwrote,     \* a write replaced a document it was not computed from
  kept           \* notes written while no write was under way

todoVars == <<source, current, todoPc, next, basis, ready, writer, lastInternal,
              observed, glimpse, changes, todoFaults, overwrote, kept>>

watchVars == <<lastInternal, observed, glimpse>>

TodoSteps == {"idle", "lock", "write", "settle", "reread"}

Document(src) == IF src = NoSource THEN NoDocument ELSE [rev |-> src.rev, items |-> Parse(src.lines)]

\* Mutant of HasExpectedRevision: the source is not looked at again.
AnyRevision(src, document) == TRUE

\* The source still has the revision the ledger computed from, or none as then.
HasExpectedRevision(src, document) == src.rev = document.rev - 1

-----------------------------------------------------------------------------
(* An operation computes its document from current and validates it.       *)

\* A caller awaits its operation before it begins another.
MayCommit(c) == changes < MaxChanges /\ todoPc[c] = "idle"
Commit(c, items) ==
  /\ changes' = changes + 1
  /\ todoPc' = [todoPc EXCEPT ![c] = "lock"]
  /\ ValidItems(items)
  /\ basis' = [basis EXCEPT ![c] = current[LedgerOf[c]]]
  /\ next' = [next EXCEPT ![c] = [rev |-> current[LedgerOf[c]].rev + 1, items |-> items]]
  /\ UNCHANGED <<source, current, ready, writer, watchVars, todoFaults, overwrote, kept>>

CreateTodo(c) ==
  /\ MayCommit(c) /\ c \notin Mirrors
  /\ \E n \in 1..ItemLimit : \E items \in Created(current[LedgerOf[c]].items, n) : Commit(c, items)

ChangeTodo(c) ==
  /\ MayCommit(c) /\ c \notin Mirrors /\ current[LedgerOf[c]] # NoDocument
  /\ \E items \in Changed(current[LedgerOf[c]].items) : Commit(c, items)

\* Nothing is written for a plan that is already shown.
SyncNativePlan(c) ==
  /\ MayCommit(c) /\ c \in Mirrors
  /\ \E plan \in Plans :
    /\ FromPlan(plan) # current[LedgerOf[c]].items
    /\ Commit(c, FromPlan(plan))

-----------------------------------------------------------------------------
(* compareAndSwap and the end of commit.                                   *)

TodoStep(c, from, to) == todoPc[c] = from /\ todoPc' = [todoPc EXCEPT ![c] = to]
Done(c) ==
  /\ next' = [next EXCEPT ![c] = NoDocument]
  /\ basis' = [basis EXCEPT ![c] = NoDocument]
TodoFault == todoFaults < MaxTodoFaults /\ todoFaults' = todoFaults + 1

\* With the lock: the source is read and compared; a conflict gives the lock back.
ReadSource(c) ==
  /\ writer = NoWriter
  /\ IF HasExpectedRevision(source, next[c]) /\ Parse(source.lines) # Unparsable
     THEN /\ TodoStep(c, "lock", "write")
          /\ writer' = c
          /\ ready' = [ready EXCEPT ![c] =
               [rev |-> next[c].rev,
                lines |-> IF source = NoSource THEN Render(next[c].items)
                          ELSE Patch(source.lines, next[c].items)]]
     ELSE TodoStep(c, "lock", "reread") /\ UNCHANGED <<writer, ready>>
  /\ UNCHANGED <<source, current, next, basis, watchVars, changes, todoFaults,
                 overwrote, kept>>

\* Mutant of Replace: the lock is not given back.
ReplaceHoldingLock(c) ==
  /\ source' = ready[c]
  /\ overwrote' = (overwrote \/ (source # NoSource /\ Document(source) # basis[c]))
  /\ ready' = [ready EXCEPT ![c] = NoSource]
  /\ UNCHANGED writer

\* rename, and the end of the lock.
Replace(c) ==
  /\ source' = ready[c]
  /\ overwrote' = (overwrote \/ (source # NoSource /\ Document(source) # basis[c]))
  /\ writer' = NoWriter
  /\ ready' = [ready EXCEPT ![c] = NoSource]

WriteTodo(c) ==
  /\ TodoStep(c, "write", "settle")
  /\ Replace(c)
  /\ lastInternal' = [lastInternal EXCEPT ![LedgerOf[c]] = ready[c]]
  /\ UNCHANGED <<current, next, basis, observed, glimpse, changes, todoFaults, kept>>

\* The event is appended then; whether that throws shows only in the answer.
SettleTodo(c) ==
  /\ TodoStep(c, "settle", "idle") /\ Done(c)
  /\ current' = [current EXCEPT ![LedgerOf[c]] = next[c]]
  /\ UNCHANGED <<source, ready, writer, watchVars, changes, todoFaults,
                 overwrote, kept>>

\* A conflict: what the file holds is shown, nothing if it cannot be read.
Reread(c) ==
  /\ TodoStep(c, "reread", "idle") /\ Done(c)
  /\ current' = [current EXCEPT ![LedgerOf[c]] =
       IF Document(source).items = Unparsable THEN NoDocument ELSE Document(source)]
  /\ UNCHANGED <<source, ready, writer, watchVars, changes, todoFaults,
                 overwrote, kept>>

\* The lock is not obtained; the write fails, before the rename or after it.
FailTodo(c) ==
  /\ TodoFault /\ Done(c)
  /\ \/ /\ TodoStep(c, "lock", "idle")
        /\ UNCHANGED <<source, ready, writer, overwrote>>
     \/ /\ TodoStep(c, "write", "idle")
        /\ writer' = NoWriter /\ ready' = [ready EXCEPT ![c] = NoSource]
        /\ UNCHANGED <<source, overwrote>>
     \/ TodoStep(c, "write", "idle") /\ Replace(c)
  /\ UNCHANGED <<current, watchVars, changes, kept>>

-----------------------------------------------------------------------------
(* The watch of each store, and the editor.                                *)

WatchRead(l) ==
  /\ glimpse[l] = NoSource /\ source # NoSource
  /\ glimpse' = [glimpse EXCEPT ![l] = source]
  /\ UNCHANGED <<source, current, todoPc, next, basis, ready, writer, lastInternal, observed,
                 changes, todoFaults, overwrote, kept>>

\* What the store wrote itself is not news, nor what was delivered before.
WatchDeliver(l) ==
  /\ glimpse[l] # NoSource /\ glimpse' = [glimpse EXCEPT ![l] = NoSource]
  /\ observed' = [observed EXCEPT ![l] = glimpse[l]]
  /\ IF glimpse[l] \in {observed[l], lastInternal[l]} THEN UNCHANGED <<current, lastInternal>>
     ELSE /\ lastInternal' = [lastInternal EXCEPT ![l] = NoSource]
          /\ current' = IF Document(glimpse[l]).items = Unparsable THEN current
                        ELSE [current EXCEPT ![l] = Document(glimpse[l])]
  /\ UNCHANGED <<source, todoPc, next, basis, ready, writer,
                 changes, todoFaults, overwrote, kept>>

NoteIds(src) == {line.id : line \in {l \in ToSet(src.lines) : l.kind = "note"}}
EditorSaves(lines) ==
  /\ source # NoSource /\ source' = [source EXCEPT !.lines = lines]
  /\ UNCHANGED <<current, todoPc, next, basis, ready, writer, watchVars,
                 changes, todoFaults, overwrote>>

\* The lines with one more note below the k-th, which ends with its break then.
WithNote(ls, k, n) ==
  Append([SubSeq(ls, 1, k) EXCEPT ![k].eol = TRUE], NoteLine(n)) \o SubSeq(ls, k + 1, Len(ls))

\* The editor saves the file it has just read with one more note, anywhere below the
\* heading: between two items, between an item and its details, or at the end.
Edit(n) ==
  /\ n \notin NoteIds(source)
  /\ \E k \in DOMAIN source.lines : EditorSaves(WithNote(source.lines, k, n))
  /\ kept' = IF writer = NoWriter THEN kept \union {n} ELSE kept

\* It saves the file without its last line break.
DropBreak ==
  /\ source # NoSource /\ Last(source.lines).kind \in Unended
  /\ Last(source.lines).eol /\ Last(source.lines) # NoteLine(0)
  /\ EditorSaves([source.lines EXCEPT ![Len(source.lines)].eol = FALSE])
  /\ UNCHANGED kept

TodoInit ==
  /\ source = NoSource
  /\ current = [l \in Ledgers |-> NoDocument]
  /\ todoPc = [c \in Callers |-> "idle"]
  /\ next = [c \in Callers |-> NoDocument] /\ basis = [c \in Callers |-> NoDocument]
  /\ ready = [c \in Callers |-> NoSource]
  /\ writer = NoWriter
  /\ lastInternal = [l \in Ledgers |-> NoSource]
  /\ observed = [l \in Ledgers |-> NoSource]
  /\ glimpse = [l \in Ledgers |-> NoSource]
  /\ changes = 0 /\ todoFaults = 0
  /\ overwrote = FALSE /\ kept = {}

TodoNext ==
  \/ \E c \in Callers :
       \/ CreateTodo(c) \/ ChangeTodo(c) \/ SyncNativePlan(c)
       \/ ReadSource(c) \/ WriteTodo(c) \/ SettleTodo(c)
       \/ Reread(c) \/ FailTodo(c)
  \/ \E l \in Watching : WatchRead(l) \/ WatchDeliver(l)
  \/ (\E n \in EditorNotes : Edit(n)) \/ DropBreak

TodoSpec == TodoInit /\ [][TodoNext]_todoVars

-----------------------------------------------------------------------------
(* Properties.                                                             *)

TodoTypeOK ==
  /\ source.rev \in -1..MaxChanges
  /\ \A l \in Ledgers : current[l].rev \in -1..MaxChanges /\ ValidItems(current[l].items)
  /\ todoPc \in [Callers -> TodoSteps]
  /\ \A c \in Callers : todoPc[c] # "idle" => ValidItems(next[c].items)
  /\ writer \in Callers \union {NoWriter}
  /\ writer # NoWriter <=> \E c \in Callers : todoPc[c] = "write"
  /\ kept \subseteq EditorNotes

\* A write replaces only the document it was computed from: of two operations
\* that overlap, in one ledger or in two, the later conflicts, whatever the
\* watch or a failed write has done to what a ledger shows.
NoUpdateOverwritten == ~overwrote

\* What is about to be written reads as the document that is committed, wherever the
\* editor has put its notes (between items, between an item and its details, behind
\* the last line and there without a line break), and has every note that the editor
\* had saved when the source was read.
WrittenReadsBack ==
  \A c \in Callers : todoPc[c] = "write" =>
    Document(ready[c]) = next[c] /\ kept \subseteq NoteIds(ready[c])

\* So the editor's lines stay: all but those saved between a write's read and its rename.
NotesKept == source # NoSource => kept \subseteq NoteIds(source)

=============================================================================
