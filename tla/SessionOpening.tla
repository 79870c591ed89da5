---------------------------- MODULE SessionOpening ----------------------------
(***************************************************************************)
(* One process opens a session, sends and leaves it again:                 *)
(* createProjectWorkbenchSession with ProjectWorkbench.initialize and      *)
(* close, and the binding of a new thread by its first message             *)
(* (src/infrastructure/project-workbench-session.ts,                       *)
(* src/application/project-workbench.ts).                                  *)
(*                                                                         *)
(* A session has two leases, the harness, a journal, notes and a Todo that *)
(* are bound to its thread, and a watcher of the Todo.  Every step may     *)
(* fail; then what has been got so far is given back.  Meanwhile the       *)
(* harness notifies: what comes before the workbench is ready waits.       *)
(***************************************************************************)
EXTENDS Naturals, Sequences

CONSTANTS
  Resumes,         \* whether the session resumes a thread: subset of BOOLEAN
  MaxOpenFaults,   \* steps that fail
  MaxOpenSends,    \* messages
  MaxOpenNotices   \* notifications besides the end of the running turn

ASSUME SessionOpeningAssumption ==
  /\ Resumes \subseteq BOOLEAN
  /\ MaxOpenFaults \in Nat /\ MaxOpenSends \in Nat /\ MaxOpenNotices \in Nat

VARIABLES
  opening,       \* what the process awaits
  resumes,       \* options.resumeThreadId is given
  runLease,      \* the lease of the run is held
  threadLease,   \* the lease of the thread: free, ours, theirs or abandoned
  harness,       \* none, up or closed
  bound,         \* sources bound to the thread
  watching,      \* the Todo file is watched
  syncing,       \* a sync of the resumed plan is under way
  threadKnown,   \* threadId is set
  activeTurn,    \* activeTurnId is the thread's turn
  reportedTurn,  \* thread/read said that the turn runs
  nativeTurn,    \* the turn the resumed thread has in the harness
  heard,         \* notifications behind the event chain
  dropped,       \* a notification found no stream
  journaled,     \* this process has appended
  sending,       \* what the command in work awaits
  unboundThread, \* a first message failed after threadId was set
  openFaults, openSends, openNotices

leaseVarsOfSession == <<runLease, threadLease>>
sourceVars == <<bound, watching, syncing>>
turnVars == <<threadKnown, activeTurn, reportedTurn, nativeTurn>>
eventVars == <<heard, dropped, journaled>>
countVars == <<openFaults, openSends, openNotices>>
openingVars == <<opening, resumes, leaseVarsOfSession, harness, sourceVars, turnVars, eventVars,
                 sending, unboundThread, countVars>>

Sources == {"journal", "notes", "todos"}

\* A step of the opening succeeds and goes on, or throws.
GoesOn(from, to) == opening = from /\ opening' = to /\ UNCHANGED openFaults
Throws(from) ==
  /\ opening = from /\ openFaults < MaxOpenFaults /\ openFaults' = openFaults + 1
  /\ opening' = "undo"

\* acquireWriterLease for the run; without it there is nothing to give back.  A thread to
\* resume has its journal bound at once.
AcquireRun ==
  /\ \/ /\ GoesOn("run lease", "connect") /\ runLease' = TRUE
        /\ bound' = IF resumes THEN {"journal"} ELSE {}
     \/ /\ opening = "run lease" /\ openFaults < MaxOpenFaults
        /\ openFaults' = openFaults + 1 /\ opening' = "over"
        /\ UNCHANGED <<runLease, bound>>
  /\ UNCHANGED <<resumes, threadLease, harness, watching, syncing, turnVars, eventVars,
                 sending, unboundThread, openSends, openNotices>>

\* connectNative; the workbench is constructed and begins to initialize.
Connect ==
  /\ \/ GoesOn("connect", "read") /\ harness' = "up"
     \/ Throws("connect") /\ UNCHANGED harness
  /\ UNCHANGED <<resumes, leaseVarsOfSession, sourceVars, turnVars, eventVars,
                 sending, unboundThread, openSends, openNotices>>

\* journal.readAll, with the MCP servers; a new session is ready then.
ReadActivities ==
  /\ GoesOn("read", IF resumes THEN "lease" ELSE "draft") \/ Throws("read")
  /\ UNCHANGED <<resumes, leaseVarsOfSession, harness, sourceVars, turnVars, eventVars,
                 sending, unboundThread, openSends, openNotices>>

\* acquireThreadLease of the thread to resume.
LeaseThread ==
  /\ \/ /\ GoesOn("lease", "resume") /\ threadLease = "free" /\ threadLease' = "ours"
     \/ /\ opening = "lease" /\ threadLease = "theirs" /\ opening' = "undo"
        /\ UNCHANGED <<threadLease, openFaults>>
     \/ Throws("lease") /\ UNCHANGED threadLease
  /\ UNCHANGED <<resumes, runLease, harness, sourceVars, turnVars, eventVars,
                 sending, unboundThread, openSends, openNotices>>

\* native.resumeThread; another thread than was asked for is an error.
ResumeThread ==
  /\ GoesOn("resume", "notes") \/ Throws("resume")
  /\ UNCHANGED <<resumes, leaseVarsOfSession, harness, sourceVars, turnVars, eventVars,
                 sending, unboundThread, openSends, openNotices>>

BindNotes ==
  /\ \/ GoesOn("notes", "todos") /\ bound' = bound \union {"notes"}
     \/ Throws("notes") /\ UNCHANGED bound
  /\ UNCHANGED <<resumes, leaseVarsOfSession, harness, watching, syncing, turnVars, eventVars,
                 sending, unboundThread, openSends, openNotices>>

\* ThreadScopedTodoSource.bindThread: a ledger that cannot be read is let go again.
BindTodos ==
  /\ \/ /\ GoesOn("todos", "read thread")
        /\ bound' = bound \union {"todos"} /\ watching' = TRUE
     \/ Throws("todos") /\ UNCHANGED <<bound, watching>>
  /\ UNCHANGED <<resumes, leaseVarsOfSession, harness, syncing, turnVars, eventVars,
                 sending, unboundThread, openSends, openNotices>>

\* native.readThread: whether a turn runs.  An empty Todo gets the resumed plan, which nobody
\* waits for.
ReadThread ==
  /\ \/ /\ GoesOn("read thread", "reconcile")
        /\ threadKnown' = TRUE /\ reportedTurn' = (nativeTurn = "running")
        /\ syncing' \in BOOLEAN
     \/ Throws("read thread") /\ UNCHANGED <<threadKnown, reportedTurn, syncing>>
  /\ UNCHANGED <<resumes, leaseVarsOfSession, harness, bound, watching, activeTurn, nativeTurn,
                 eventVars, sending, unboundThread, openSends, openNotices>>

\* The reconciliation is journaled; then a running turn becomes the active one.
ReconcileResumed ==
  /\ \/ /\ GoesOn("reconcile", IF reportedTurn THEN "started" ELSE "draft")
        /\ journaled' = TRUE /\ activeTurn' = reportedTurn
     \/ Throws("reconcile") /\ UNCHANGED <<journaled, activeTurn>>
  /\ UNCHANGED <<resumes, leaseVarsOfSession, harness, sourceVars, threadKnown, reportedTurn,
                 nativeTurn, heard, dropped, sending, unboundThread, openSends, openNotices>>

\* The append of the turn's start ends the initialization.
JournalResumedTurn ==
  /\ GoesOn("started", "draft") \/ Throws("started")
  /\ UNCHANGED <<resumes, leaseVarsOfSession, harness, sourceVars, turnVars, eventVars,
                 sending, unboundThread, openSends, openNotices>>

\* waitUntilReady has resolved: the draft of the composer, then the session is handed out.
OpenDraft ==
  /\ GoesOn("draft", "open") \/ Throws("draft")
  /\ UNCHANGED <<resumes, leaseVarsOfSession, harness, sourceVars, turnVars, eventVars,
                 sending, unboundThread, openSends, openNotices>>

-----------------------------------------------------------------------------
(* Messages.                                                               *)

SendStep(from, to) == sending = from /\ sending' = to /\ UNCHANGED <<openFaults, unboundThread>>
SendFails(from) ==
  /\ sending = from /\ openFaults < MaxOpenFaults /\ openFaults' = openFaults + 1
  /\ sending' = "idle"
  /\ unboundThread' = (unboundThread \/ threadKnown)

\* sendChat: without a threadId one is started first.
SendMessage ==
  /\ opening = "open" /\ openSends < MaxOpenSends /\ openSends' = openSends + 1
  /\ SendStep("idle", IF threadKnown THEN "turn" ELSE "thread")
  /\ UNCHANGED <<opening, resumes, leaseVarsOfSession, harness, sourceVars, turnVars, eventVars, openNotices>>

\* bindThread of the journal, before the lease.
BoundWithThread == bound \union {"journal"}

\* native.startThread has answered: threadId, and the journal's stream in the same step.
StartNewThread ==
  /\ \/ SendStep("thread", "lease") /\ threadKnown' = TRUE /\ bound' = BoundWithThread
     \/ SendFails("thread") /\ UNCHANGED <<threadKnown, bound>>
  /\ UNCHANGED <<opening, resumes, leaseVarsOfSession, harness, watching, syncing, activeTurn,
                 reportedTurn, nativeTurn, eventVars, openSends, openNotices>>

LeaseNewThread ==
  /\ \/ SendStep("lease", "notes") /\ threadLease' = "ours"
     \/ SendFails("lease") /\ UNCHANGED threadLease
  /\ UNCHANGED <<opening, resumes, runLease, harness, sourceVars, turnVars, eventVars, openSends, openNotices>>

BindNewNotes ==
  /\ \/ SendStep("notes", "todos") /\ bound' = bound \union {"notes"}
     \/ SendFails("notes") /\ UNCHANGED bound
  /\ UNCHANGED <<opening, resumes, leaseVarsOfSession, harness, watching, syncing, turnVars,
                 eventVars, openSends, openNotices>>

BindNewTodos ==
  /\ \/ SendStep("todos", "turn") /\ bound' = bound \union Sources /\ watching' = TRUE
     \/ SendFails("todos") /\ UNCHANGED <<bound, watching>>
  /\ UNCHANGED <<opening, resumes, leaseVarsOfSession, harness, syncing, turnVars, eventVars,
                 openSends, openNotices>>

\* The message is journaled and turn/start called; its outcome is ChatDelivery's.
StartSentTurn ==
  /\ SendStep("turn", "idle") /\ journaled' = TRUE
  /\ UNCHANGED <<opening, resumes, leaseVarsOfSession, harness, sourceVars, turnVars, heard,
                 dropped, openSends, openNotices>>

-----------------------------------------------------------------------------
(* The harness, other processes and the event chain.                       *)

\* The harness tells this process of the thread once it has resumed or started it.
Attached ==
  /\ harness = "up"
  /\ IF resumes THEN opening \notin {"run lease", "connect", "read", "lease", "resume"}
                ELSE threadKnown

EndNativeTurn ==
  /\ nativeTurn = "running" /\ nativeTurn' = "over"
  /\ heard' = IF Attached THEN Append(heard, "ended") ELSE heard
  /\ UNCHANGED <<opening, resumes, leaseVarsOfSession, harness, sourceVars, threadKnown, activeTurn,
                 reportedTurn, dropped, journaled, sending, unboundThread, countVars>>

NotifyOther ==
  /\ Attached /\ openNotices < MaxOpenNotices /\ openNotices' = openNotices + 1
  /\ heard' = Append(heard, "other")
  /\ UNCHANGED <<opening, resumes, leaseVarsOfSession, harness, sourceVars, turnVars, dropped,
                 journaled, sending, unboundThread, openFaults, openSends>>

\* Mutant of MayHear: the event chain does not await ready.
MayHearAtOnce == harness = "up" /\ opening \notin {"closing", "undo"}
\* eventQueue.then(() => this.ready), until close() sets closed.
MayHear == opening \in {"draft", "open"}

\* recordNativeEvent; without a stream the event is dropped.
HearEvent ==
  /\ MayHear /\ heard # <<>> /\ heard' = Tail(heard)
  /\ IF "journal" \in bound
       THEN /\ journaled' = TRUE
            /\ activeTurn' = (activeTurn /\ Head(heard) # "ended")
            /\ UNCHANGED dropped
       ELSE dropped' = TRUE /\ UNCHANGED <<journaled, activeTurn>>
  /\ UNCHANGED <<opening, resumes, leaseVarsOfSession, harness, sourceVars, threadKnown, reportedTurn,
                 nativeTurn, sending, unboundThread, countVars>>

FinishSync ==
  /\ syncing /\ syncing' = FALSE
  /\ UNCHANGED <<opening, resumes, leaseVarsOfSession, harness, bound, watching, turnVars,
                 eventVars, sending, unboundThread, countVars>>

\* Another process takes or leaves the thread that this one is to resume.
OtherProcess ==
  /\ resumes
  /\ \/ threadLease = "free" /\ threadLease' = "theirs"
     \/ threadLease = "theirs" /\ threadLease' = "free"
  /\ UNCHANGED <<opening, resumes, runLease, harness, sourceVars, turnVars, eventVars,
                 sending, unboundThread, countVars>>

-----------------------------------------------------------------------------
(* The end.                                                                *)

\* close(), from the shell or app.ts.
CloseWorkbench ==
  /\ opening = "open" /\ opening' = "closing"
  /\ UNCHANGED <<resumes, leaseVarsOfSession, harness, sourceVars, turnVars, eventVars,
                 sending, unboundThread, countVars>>

\* commandQueue, eventQueue, todoSyncQueue.
ChainsSettled == sending = "idle" /\ ~syncing

\* workbench.close(), or native.close() alone; both before anything is released.
CloseHarness ==
  /\ opening \in {"closing", "undo"} /\ ChainsSettled
  /\ opening' = "release"
  /\ harness' = IF harness = "up" THEN "closed" ELSE harness
  /\ UNCHANGED <<resumes, leaseVarsOfSession, sourceVars, turnVars, eventVars, sending, unboundThread, countVars>>

\* release: the watcher, the thread's lease, and the run's whatever became of that.
ReleaseAll ==
  /\ opening = "release" /\ opening' = "over"
  /\ watching' = FALSE /\ runLease' = FALSE
  /\ \/ /\ threadLease' = IF threadLease = "ours" THEN "free" ELSE threadLease
        /\ UNCHANGED openFaults
     \/ /\ threadLease = "ours" /\ openFaults < MaxOpenFaults
        /\ threadLease' = "abandoned" /\ openFaults' = openFaults + 1
  /\ UNCHANGED <<resumes, harness, bound, syncing, turnVars, eventVars, sending, unboundThread,
                 openSends, openNotices>>

-----------------------------------------------------------------------------

OpeningInit ==
  /\ opening = "run lease" /\ resumes \in Resumes
  /\ runLease = FALSE /\ threadLease = "free" /\ harness = "none"
  /\ bound = {} /\ watching = FALSE /\ syncing = FALSE
  /\ threadKnown = FALSE /\ activeTurn = FALSE /\ reportedTurn = FALSE
  /\ nativeTurn \in IF resumes THEN {"none", "running"} ELSE {"none"}
  /\ heard = <<>> /\ dropped = FALSE /\ journaled = FALSE
  /\ sending = "idle" /\ unboundThread = FALSE
  /\ openFaults = 0 /\ openSends = 0 /\ openNotices = 0

OpeningNext ==
  \/ AcquireRun \/ Connect \/ ReadActivities \/ LeaseThread \/ ResumeThread \/ BindNotes \/ BindTodos
  \/ ReadThread \/ ReconcileResumed \/ JournalResumedTurn \/ OpenDraft
  \/ SendMessage \/ StartNewThread \/ LeaseNewThread \/ BindNewNotes \/ BindNewTodos \/ StartSentTurn
  \/ EndNativeTurn \/ NotifyOther \/ HearEvent \/ FinishSync \/ OtherProcess
  \/ CloseWorkbench \/ CloseHarness \/ ReleaseAll

OpeningSpec == OpeningInit /\ [][OpeningNext]_openingVars

-----------------------------------------------------------------------------
(* Properties.                                                             *)

OpeningTypeOK ==
  /\ opening \in {"run lease", "connect", "read", "lease", "resume", "notes", "todos", "read thread",
                  "reconcile", "started", "draft", "open", "undo", "closing", "release", "over"}
  /\ threadLease \in {"free", "ours", "theirs", "abandoned"} /\ harness \in {"none", "up", "closed"}
  /\ bound \subseteq Sources /\ nativeTurn \in {"none", "running", "over"}
  /\ sending \in {"idle", "thread", "lease", "notes", "todos", "turn"}
  /\ openFaults \in 0..MaxOpenFaults

\* Whatever step of opening, sending or closing fails: a process that is done has given back
\* both leases (but for one it could not remove), the harness and the watcher, and nothing it
\* started still writes; what the harness said of the thread has found the journal; a resumed
\* thread is journaled only under its lease; a turn is started with every source bound, if
\* none failed to bind after threadId was set; and the turn a resumed session takes for
\* active is the one that runs, also when it ends while the session opens.
SessionSound ==
  /\ opening = "over" => /\ ~runLease /\ threadLease # "ours" /\ harness # "up"
                         /\ ~watching /\ ~syncing /\ sending = "idle"
  /\ ~dropped
  /\ resumes /\ journaled /\ opening # "over" => threadLease = "ours"
  /\ sending = "turn" /\ ~unboundThread =>
       threadLease = "ours" /\ bound = Sources /\ watching
  /\ opening = "open" /\ heard = <<>> => (activeTurn <=> nativeTurn = "running")
=============================================================================
