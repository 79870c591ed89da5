# World Wide Woo: verification project

TLA+ models of the parts of World Wide Woo (`www`) whose correctness depends on
the order in which things happen, the TLC runs that check them on small
instances, and proofs for every instance, checked by TLAPS. Paths are relative to
`src/` of the repository unless they start with `docs/` or `test/`.

## 1. The system

`www` is a terminal workbench around a native agent harness (the Codex App
Server, or a local Pi harness). One process serves one session: it sends the
user's messages to the harness, records everything the harness reports in an
append-only journal, and projects the journal into the views of the terminal.
Beside it stands an older shell that talks to models itself ("legacy").
The layers are domain -> application -> infrastructure / presentation -> `app.ts`.

| Component | State | Operations | Modules |
|---|---|---|---|
| **Chat delivery** `application/project-workbench.ts` | `threadId`, `activeTurnId`, `pendingApproval`, `chatQueue`, `blockedChat`, `terminalTurns`, `closed`, two promise chains | commands, the handler of native events, `close` | `ChatDelivery`, `ChatOutbox` |
| Workbench projections, same file | drafts, reasoning, activities, the messages of a turn | `applyDelta`, terminal items and turns | `LiveProjection` |
| Model, permission and MCP settings `infrastructure/settings-store.ts`, `router-service.ts` | a settings file under a lock directory | compare-and-swap, apply, roll back | `ModelSettings` |
| Automatic T-notes `application/t-note-service.ts`, `infrastructure/t-note-store.ts` | append-only notes, turns in flight | automatic, manual and recovering capture | `TNotes` |
| Activity journal `infrastructure/activity-journal-store.ts` | a file per stream, a cache validated by size | `append`, `readAll` | `ActivityJournal` |
| Session composition `infrastructure/project-workbench-session.ts` | leases, bound-once sources, a watcher | open, bind, `close` | `SessionOpening`, `ThreadSession` |
| Workspace and leases `infrastructure/project-workspace.ts` | `<id>.lock` files with pid and token | acquire, take over, release | `SessionLease` |
| Codex adapter `infrastructure/executors/codex-app-server.ts` | requests, approvals, pending responses, `disconnected` | requests with a time limit, `receive`, `disconnect` | `CodexRpc` |
| Pi harness `infrastructure/executors/pi-harness.ts` | one thread, one active turn, `interrupted` | `startTurn`, `interruptTurn`, `finalizeTurnOnce` | `PiHarness` |
| Todo ledger and store `application/todo-ledger.ts`, `infrastructure/todo-store.ts`, `domain/todos.ts` | a Markdown document with a revision, a watcher | create, add, start, evidence, complete, mirror | `TodoDocument`, `TodoLedger`, `TodoWork` |
| Canonical promotion `application/canonical-promotion.ts` | one-time tokens, tracked Markdown | `accept`, `promote` | `CanonicalPromotion` |
| External review `application/review-service.ts` | previews, provenance | `preview`, `send` | `Reviews`, `ProcessRuns` |
| Legacy session `application/session-runtime.ts`, `infrastructure/session-store.ts` | context, event trail, `activeTask` | submit, rounds, abort, restore, close | `SessionRuntime` |
| Usage `application/session/session-usage-tracker.ts`, `infrastructure/usage-service.ts` | tokens per model and turn; quotas, backoff | observe, bind; refresh | `UsageTracker`, `UsageReports` |
| Work flow `domain/work-steps.ts` | steps of a turn, narrations, mirror in the Todo | plans, narrations, sync | `WorkSteps`, `Narrations` |
| Statistics and monitors `domain/session-stats.ts`, `runtime-monitor.ts` | none: views of the journal | projections | `JournalViews` |
| Planning `infrastructure/planning-store.ts` | SQLite catalog, artifacts, Markdown | mutate, repair, read | `Planning` |
| Woo entry `application/woo-entry.ts` | a snapshot of evidence | refresh, compose | `WooEntry` |
| Terminal UI `presentation/tui/*` | views, overlays, focus, drafts, frames | keys, awaited answers | `ShellViews`, `ApprovalSurface`, `ComposerDrafts`, `RenderScheduler`, `LegacyShell` |
| Process runners (terminal command, review CLI, tools) | a process group, timers | run, stop, reap | `ProcessRuns` |
| Local stores `infrastructure/credential-store.ts`, `composer-draft-store.ts` | files shared by shells | login, logout, rotate; save, restore, clear | `UsageReports`, `ComposerDrafts` |

What is hard in it: almost everything runs in one JavaScript thread, but every
`await` is a point where other promise chains run. Fields are read before an
await and used after it; a user command and a notification of the harness may
both decide to start a turn; the outcome of a request may be unknown; files are
shared with other processes and editors; any append may throw; a process may die
between two writes.

`PROJECT.json` lists each component with what is and is not modelled of it, and
the hazards by line with the properties that cover them.

## 2. Plan

Done: every row of the table above, and a proof of every safety property of a passing run but the two that are named in
7.5, the type invariants of the sums aside. Left, in order of worth:

1. `ContextKept` and `ReviewTellsWhatHappened`, whose definitions are to be written with `Selected` (7.4) instead of
   `SelectSeq` and `SortSeq`, so that the lemmas of `CollectionLemmas` apply to them.
2. The type invariants of the remaining components as theorems.

No module declares a recursive operator, so all can be proved about; names are prefixed
by module, so that a proof module or a composition can extend several of them.

## 3. Conventions

One action is what the code does between two awaits (or two callbacks); where a
finer interleaving exists elsewhere, the header of the module says which module has it. Variables
and constants carry names that are unique in the whole project, because three
MC modules put many components into one specification. `MCStorage`, `MCExecutors` and
`MCWorkbench` are *sums*: a variable `part`, chosen in the initial state,
says which component moves; the others stay at one fixed initial state. So such a run
checks each component as if alone (or composed as its module says), and its state count
is the sum of theirs. History variables (marked so at their declaration) record
what the code does not keep. Bounds are the constants that start with `Max`;
they occur in guards of environment and user actions, never of an answer or a clean-up.
Each property of a passing run is shown to say something about the code by a mutant: an
operator next to the definition it replaces, named for what it forgets.

## 4. ChatDelivery

### 4.1 What is modelled

`ProjectWorkbench` keeps two promise chains over the same fields. `commandQueue`
runs the user's commands one at a time; each first awaits `eventQueue` as it is
when the command starts. `eventQueue` runs `recordNativeEvent` for one
notification at a time; its last step, `drainChatQueue`, may itself start a turn.
One action of the model is the code between two awaits of one chain:

| Code | Actions |
|---|---|
| `dispatch`, `dispatchSerialized` | `DispatchSend`, `DispatchCancel`, `DispatchApprove`, `DispatchWhenClosed`; `awaited` counts the events the command still waits for |
| `sendChat` | `RunSend` (the decision), `Enqueue` (the push, after two appends) |
| `startChatTurn` (either chain) | `StartThread`, `Record`, `Answered`/`Refused`/`GiveUp`, `SettleStarted`/`SettleRefused`/`SettleUncertain` |
| `drainChatQueue` | `DrainOrLeave`, `GoOnOrLeave`: the last part of each step after which the code drains |
| `cancelChat` | `RunCancel`, `ReadFailed`/`ReadIdle`/`ReadInProgress`, `Abandon`, `Reconcile`, `Interrupted` |
| `resolveApproval` | `RunApprove`, `ApproveSettled` |
| `recordNativeEvent` | `TakeEvent`/`DropEvent`, `ApplyStarted`, `ResumeRecorded`, `ApplyEnded`, `ApplyAsked`, `ApplyResolved`, `EventFault` |
| `close` | `Close`, `Closed` |
| the harness | `Receive`, `ReceiveLate`, `Announce`, `End`, `Ask`, `Resolve` |

`pc[chain]` is the await a chain is suspended at, `job[chain]` the message it
works on. `blockedChat` stands for `chatDeliveryBlocked` too: the code sets and
clears the two together. A promise chain dispatches its operations in order, so
the model lets a command be dispatched only when the previous one settled: what
`dispatchSerialized` reads, it reads when it starts.

`InTurn` keeps one fact about time that matters: the journal completes appends
in the order of the calls (`FileActivityJournal.serialize`), so of two chains that each wait
for a *single* append the one that called first goes on first. An await of several appends is
left free to end before the other chain's append, or after it.

### 4.2 The harness and its modes

The harness is outside the repository. The model lets it start a turn for each
`turn/start` it takes, notify start and end of each turn, ask for approvals and
resolve them. A request can be given up (time limit or disconnect); the harness
may then take it later, or never (`limbo`). `mode`, chosen once, says what it may
do about order:

- `orderly`: the answer to `turn/start` precedes every notification of that turn,
  and it notifies nothing while `/cancel` awaits its answers, so the drains of the two chains never meet
  (they do in `chat_duplicate`);
- `racing`: the answer still comes first, notifications come at any time;
- `late`: notifications may overtake the answer, the answer may be lost after the turn began,
  and a turn's start may be announced after its end.

The answer to `thread/read` reports what it has taken so far, and it answers
requests in their order, so nothing is in limbo behind it.

### 4.3 The abstract specification

`ChatOutbox` says what delivery promises without saying how: each message has a
status (new, out, unknown, running, over, refused), the next is handed over only
when no other is out, unknown or running, and never after a later one.
`ChatDelivery` implements it with an orderly harness (`DeliversLikeAnOutbox`). The
mapping, `Status`, reads what became of a message from the harness's turns. Of a message
without a turn, the workbench's `blockedChat` and the harness's `limbo` say whether it is
unknown; one that neither holds nor a chain is sending was refused. So a workbench
that forgot an uncertain message the harness may still take could not hand over the
next one: the outbox has no such step.

### 4.4 Bounds

`MaxMessages`, `MaxCancels`, `MaxApprovals`, `MaxGiveUps` and `MaxFaults` bound, in
guards, how often the user and the environment act; nothing in the code is
bounded by them, and every turn and queue grows as it does in the code. Two
messages suffice for one in flight and one behind it, the third adds one that
must not overtake; one uncertain send, one `/cancel` and one throwing append
give each of them at every await of both chains. Every behaviour of the code is finite
under these bounds, so all runs allow the system to stop (`CHECK_DEADLOCK FALSE`):
a session in which the user does nothing more is not an error. `DispatchWhenClosed`
is bounded by `MaxMessages` like any other send.

### 4.5 Fairness

`FairSpec` adds weak fairness of the steps of each chain (a settled promise's
continuation runs; a journal write ends; a native request is answered or given
up, since `codex-app-server.ts` puts a time limit on each), of `Closed`, and of the
harness resolving an approval *that the user has answered*. The last is an
assumption about the harness: `respondToApproval` has no time limit. Nothing is
assumed of the user, and a turn may run for ever.

## 5. The other modules

### 5.1 Files shared with other processes (run `storage`)

- `SessionLease`: `acquireSessionLease` (open `wx`, read the owner, `kill(pid, 0)`, `rm`, retry) and `release`,
  for several processes that crash and whose pids are used again.
- `ActivityJournal`: one operation of a process at a time on a file of numbered lines and perhaps an unterminated one;
  `append` loads (or trusts the cache of the same size), cuts the residue, writes, syncs.
- `ThreadSession` composes the two as the opening of a session does: a resumed thread is read, then leased; a
  created one is journaled before its lease and kept when the lease is refused. Nothing keeps a process from resuming a thread
  whose creator has no lease yet (`early`), or from losing its lock to a late second takeover of a dead one's (`robbed`); both are recorded.
- `TodoDocument`: the document, its transitions and its Markdown with the user's lines between the managed ones, as pure
  operators. A line carries its line break (`eol`), since `patchTodoMarkdown` keeps the breaks it finds: a line without one and the
  next are read as one line (`Joined`). `TodoWork` applies long sequences of the transitions to one document; `executors` has it, with
  the model's other commands, since it needs evidence and the ledger's race does not.
- `TodoLedger`: a command and the mirror of the native plan in
  one ledger, the mirror of another process in a second, the watcher and an editor race over one file, with failing writes and event appends. The editor puts
  notes anywhere below the heading (`Edit`), between two items, between an item and its details or at the end (text above the heading makes the file unreadable), and saves the file without its last line break (`DropBreak`), as editors may.
- `CanonicalPromotion`: accept mints a token for a draft and the document as read; `promote` compares and renames; editors write between.

### 5.2 What talks to a model (run `executors`)

- `CodexRpc`: the request table, its timers and the two directions of the pipe as FIFO queues; approvals, their
  responses, a line that is no JSON, the end of the process.
- `PiHarness`: `startTurn` with its deferred `beginTurn`, the prompt a microtask later, deltas, errors, interruption, `finalizeTurnOnce`.
- `SessionRuntime`: rounds of an answer and its tool calls, terminal commands, narration, abort, close, crash and `restore`
  over the event trail; an append adds its line, or throws, or the process dies in it, and the last two may leave part of
  a line: `readAllUnchecked` then refuses the trail, and the session is not resumed.
- `UsageTracker`: totals of a thread, reports without a turn, late bindings, detached generations.
- `ProcessRuns`: the three runners over one process group with a leader and a descendant that may ignore SIGTERM or hold the output. POSIX only.
- `SessionOpening`: every step of `createProjectWorkbenchSession`, `initialize`, the binding of a new thread by its
  first message and `close`, each of which may fail, while the harness notifies and another process may hold the lease.

### 5.3 The workbench, its screen and its services (run `workbench`)

- `LiveProjection`: what deltas, items and ends of turns, late, sparse and of root or child turns, make of
  draft, activity and messages. `WorkSteps`: plans that replace each other and the work, classified, that is attributed to their steps.
  `Narrations`: the cached flow, the narrator's queue, the mirror in the Todo. `JournalViews`: the command chain sends, cancels and drains while the event chain records
  and drains, both writing one journal; statistics, chat, the monitor's state and the question of a note are operators on it, compared with the history `turns`.
- `TNotes`: the detached queue, manual captures, retries, the file with its residue, crash and restart.
- `RenderScheduler`, `ShellViews`, `ApprovalSurface`, `ComposerDrafts`, `LegacyShell`: frames; views, overlays and keys; the
  approval from its event to its answer, with other contents announced under the same id; drafts of several shells; the legacy shell's single overlay.
- `Planning`: mutations under a lock, with a crash between any two of their writes, and the readers that repair.
  `ModelSettings`: compare-and-swap under a lock directory that any process that finds it old removes, two at once included (`unprotected`). `Reviews`: preview,
  approval of the digest, transmission, provenance. `WooEntry`: refreshes of the evidence and the two budgets.
  `UsageReports`: the credential file and the quotas read with it.

### 5.4 Assumptions that the models make

Each is a constant or is named in its module's header; a run with the opposite value is a finding where the repository claims otherwise.

- `ThreadSession` assumes nothing of who opens a thread when. The code has two doors to a second writer: a thread is resumed while its creator,
  which journals as soon as the journal is bound, has no lease yet (`project-workbench.ts:548-549`, `project-workbench-session.ts:186-195`), and a
  late second takeover of a dead owner's lock removes the lock of the first (`lease_takeover`). `OneWriter` and `ThreadJournalKept` say what holds as
  long as neither has happened (`early`, `robbed`), and that there are then no others.
- `ModelSettings`: an operation under the lock is over within the 10 s after which others take the lock for a dead one's, unless its process died.
  Two processes that have both seen an old lock each remove what is there then (`settings-store.ts:84-87`), be it the lock of the next;
  who loses its lock so, or enters beside one that has, is `unprotected`, and `NoChoiceOverwritten` speaks of the others.
- `PromptStatus = TRUE`: `/model` learns a provider's status before the user goes on. A late answer of an older `/model` takes the overlay otherwise.
- `WooEntry`: nothing limits the paths that the composer counts and the collector's budget does not (`context-composer.ts:21` throws, and the message
  is not sent). `PathsTooLong` says for which lengths this happens, and `EvidenceFitsTheTurn` that it happens for no other reason.
- `SessionOpening`: the harness notifies of a thread after it has answered `thread/start` or `thread/resume`; `native.close` does not
  fail. `unboundThread` marks a thread whose binding failed after `threadId` was set: the next message goes on
  without its sources, and `SessionSound` does not speak of it.
- `JournalViews`: records that one operation writes without an await of the harness between them are one step, and so is the recording of one event, its
  drain up to the message's record included; the end of a turn and its notification are one step. The events of a turn that is over are
  recorded before `thread/read` says so. The monitor is modelled
  without tools, agents, approvals and `snapshot.error`. A turn that ends as failed counts as a completion for it, as in the code.
- `EachAnsweredOnce` holds of approvals while the connection stands; after a line that is no JSON the adapter holds itself disconnected, keeps
  its table of approvals, and would answer a second time.
- The file system: a rename is atomic, a write may leave a part of a line only when the process dies or the write fails, files are
  locked by exclusive creation. Editors may save at any time.
- `Unended`: the kinds of lines behind which the editor may leave the Todo file without a line break. `{"note"}` in `storage` and as the
  hypothesis of the theorems on the ledger: a last line that is a note is safe. With `{"note", "item", "detail"}` in `Storage.cfg` TLC finds
  `WrittenReadsBack` violated (6.4). Of the managed lines the editor changes nothing else.

## 6. The runs

| Run | Question | Result |
|---|---|---|
| `chat_races` | 2 messages, 1 cancel, 1 lost answer, 1 fault, all modes: types; a message promised as queued is in the queue until handed over (`QueuedNotLost`); messages go out in order (`HandedInOrder`); "accepted" and "rejected" are true (`ReceiptsTruthful`); nothing runs after `close()` (`ClosedIsQuiet`) | holds |
| `chat_orderly` | 3 messages, 1 of everything, orderly harness, fair: no message gets two turns (`OneTurnPerMessage`), no two turns at once (`TurnsDoNotOverlap`), nothing is handed over while a message is uncertain (`UncertainHoldsQueue`); all of it and the order as a refinement of `ChatOutbox` (`DeliversLikeAnOutbox`); every command returns and `close()` completes (`ChainsGetThrough`) | holds |
| `storage` | at most one process holds a thread or is in an append (`OneWriter`); the journal reads back and acknowledged lines stay (`ThreadJournalKept`); 3 callers in 2 ledgers, 3 commits, 1 fault, an editor that writes anywhere below the heading: no Todo update overwrites one it was not computed from (`NoUpdateOverwritten`), what a commit writes reads back as what it commits and has the user's lines (`WrittenReadsBack`); a token writes once (`TokenWritesOnce`) | holds |
| `executors` | each request is answered once and the server gets one response per approval (`EachAnsweredOnce`); a Pi turn's events fit (`TurnEventsFit`); the legacy context is well formed and is what a restart restores (`ContextKept`); opening, binding and closing give everything back and lose no event (`SessionSound`); tokens are conserved (`TokensConserved`); what is completed in a Todo has evidence since its start (`EvidencedCompletion`); Pi turns, `close()` and terminal commands end (`EveryRunEnds`) | holds |
| `workbench` | sixteen properties, one to three for a module of 5.3, each stated in a comment above it | holds |
| `chat_stranded` | 1 message, no faults: `NoStrandedMessage` | **violated** |
| `chat_duplicate` | 2 messages, racing: `OneTurnPerMessage` | **violated** |
| `lease_takeover` | 3 processes, 1 crash: `ReclaimsOnlyTheDead` | **violated** |
| `note_store` | 2 sessions, a turn each: `LinesNumbered` | **violated** |
| `shell_shortcuts` | keys and overlays: `ComposerKeepsItsKeys` | **violated** |
| `review_timeout` | one review: `TimedOutReviewEnds`, fair timers | **violated** |
| `monitor_handoff` | 1 message, 1 turn: `MonitorHandsOff` | **violated** |

All runs allow the system to stop (`CHECK_DEADLOCK FALSE`): every component is
idle when its user is, and the bounds end every behaviour.

### 6.1 Bounds of the sums

- Leases: 3 processes, 3 acquisitions, 1 crash: a takeover, a second one that comes late, and a pid that comes back. Journal: 3 writers, 2 appends,
  1 failing write: residue, stale cache, repeated end. Todo: in `storage` 1 item of 2 details, so that notes stand between managed lines, in `executors` 2 items of 1 detail (12 and 8 in the code); 3 commits of several ledgers, 8 operations of a single one:
  each limit is reached, and an item can be completed, blocked, reopened and completed again. Promotion: 2 tokens over 2 documents with 2 bodies, so that a document can be put back.
- Codex: 1 request, 1 approval, 2 answers, 1 bad line: every race of an answer with its time limit, the user and the pipe. Pi:
  2 turns. Session: 2 submissions, 2 rounds of at most 2 calls (24 rounds in the code), 1 restart, 1 failing append: one call of a group interrupted and the other not.
  Opening: 2 failing steps (one fails, then the undoing of another), 2 messages, 2 notifications. Usage: 2 turns, 2 models, totals to 2.
- Projection: 2 root turns, 1 child turn, 2 items with the same ids in each, 3 notifications besides the ends. Notes:
  3 turns, one from before numbering, 1 crash. Steps: plans of 2 entries, replaced twice, a reading tool, a message and a file change, with one pair of similar entries whose titles differ, so that an edited entry is matched on its own (`work-steps.ts:602-614`), and one title that two entries share.
  Narration: 2 turns of 2 steps, 1 refused sync. Views: 3 messages, 2 turns, 1 lost answer, so that one is refused, queued or uncertain while another's turn runs. Planning:
  2 processes, 2 items, 1 crash. Settings: 2 processes, 3 choices of 2 selections, 1 crash: both can find the dead one's lock. Woo entry: lengths on both sides of the collector's limit and of the composer's,
  eleven refreshes, so that the counter gains a digit. Approvals: 2 requests with 2 contents, announced twice and decided twice. Drafts: 2 shells, 2 starts. Legacy shell:
  2 providers, 2 overlays. Frames: 4 snapshots. Reviews: 3 edits or previews, 2 sends, 1 failure. Credentials: 2 providers in one file, 3 operations, 2 refreshes; the clock passes the time a quota is reused.

Two actors and one repetition suffice for each hazard of the list (every one is a race of two, or one failure between
two steps); the mutants show that the instances reach the cases. Larger instances were run once, outside the time the runs
here have, and found nothing more: views with 3 messages, 3 turns and 3 lost answers (924,141 states), settings with 3 selections (195,000), approvals
announced three times (740,128), leases and journal with 3 appends (5.2 million), the ledger with 2 items (1.23 million).

### 6.2 Fairness

`FairSpec` of the chat is explained in 4.5. `PiFairness`: the two deferred calls run and a prompt settles.
`SessionFairness`: the promises a task awaits settle (the store's, the tools', the model's stream). `RunsFairness`: timers and callbacks
run; no process ends of itself, except that one that is sent SIGKILL does. Nothing is assumed of users, harness or editors. A component of
`executors` that is not the chosen one has none of its fair actions enabled in its initial state.

### 6.3 What the violated properties show

**A stranded message** (`chat_stranded`). `sendChat` sees an active turn and decides to
queue, then awaits `request/submitted` and `request/queued` before
`chatQueue.push`. The turn's end arrives in between; the event chain clears
`activeTurnId`, drains an empty queue and stops. The push follows. The
workbench is idle with a message in its queue: later messages queue behind it,
and `/cancel` is rejected because no turn is active.

**A message started twice** (`chat_duplicate`). Message 1 is uncertain, message 2 is queued.
`/cancel` awaits `thread/read` while message 1's turn, which did start, ends. The
event chain is still journaling when the answer "idle" arrives; both chains then
reach `drainChatQueue` with nothing active, and both take message 2, since the
head is shifted only after `startTurn` resolved. The properties of `chat_orderly` are about the order a Codex
server usually shows; in the other modes they fail, this being one such failure.

**Two holders of a lease** (`lease_takeover`). Between reading a dead owner's lock and `rm` another process
replaces the lock by its own; `rm` removes that one. **A refused note file** (`note_store`). The
queue that orders appends is of the process, the file of the project. **Keys of the composer**
(`shell_shortcuts`). An overlay that closes over an observability view focuses the composer, while
the listener still takes r and 1-3 for the view. **A review without end** (`review_timeout`). SIGKILL
is sent in a `finally` that the wait for exit and output keeps from being reached. **A monitor that goes on
running** (`monitor_handoff`). A request becomes active with `request/submitted`, and of the methods that would
end it the code writes only failures; after the last turn the monitor says "running".

### 6.4 Hazards without a property

The list in `PROJECT.json` names four with the reason: the receipts after a throwing append (`ReceiptsTruthful` excepts faults, as the code
may call rejected what the harness has), a failed binding after `threadId` is set, `configureModel`'s check before an await, and the
stale `persistedSettings`. Others that were met while modelling, of less weight or outside the models:

- Chat: an answer of `turn/start` after the end of its turn makes the dead turn active until the next notification
  (line 604, mode `late`); a throwing append of a terminal notification leaves `activeTurnId` (1218); `close()` waits for an approval whose
  answer never comes (742); two models may be named for one turn (571, 884).
- A crash between creating and writing a lock (`project-workspace.ts:176`) or an artifact (`planning-store.ts:78`) leaves a file no one can read.
- An append whose write succeeds and whose sync fails is written again by the retry: a second note (`t-note-store.ts:104`), a second event with the same number (`session-store.ts:57`).
- Todo: further items and details go behind the last managed line (`todos.ts:175`); if an editor has saved the file without that line's
  break, the first of them is written onto the same line, and the parser takes the two for one: an entry just committed
  is gone, or has another's checkbox, or the file is refused (5.4, `Unended`). A document deleted and made anew with the same revision passes the comparison (`todo-store.ts:40`); a commit assigns its result
  after the watcher has installed a newer one, and its event may fail after the write (`todo-ledger.ts:255`, `:257`); an editor's save between read and rename is lost.
- Promotion: an editor that saves between comparison and rename loses its text (`canonical-document-store.ts:31-34`); promotions themselves are serialised.
- Pi: an abort between `beginTurn` and the prompt's microtask is lost (`pi-harness.ts:131`). Legacy session: abort or close before the controller exists is lost (`session-runtime.ts:598`).
- Shell: a receipt closes the overlay of the next approval (`workbench-shell.ts:544`); an approval announced anew, with other contents, between the
  decision and `resolveApproval` (736, by id alone) is answered unseen, against `domain/workbench.ts:202-206` and `workbench-shell-policy.test.ts:97`
  (`DecisionFitsWhatWasShown` excepts what was announced anew); late acceptance during shutdown clears a newer draft (731). Legacy shell: a rejected text equal to an earlier turn's is not put back (`legacy-session-shell.ts:475`).
- Notes: the note of a turn whose answer was lost answers the question before it (`project-workbench.ts:1247`): its message becomes "completed" only after `turn/started`.
- Settings: of two processes that remove a dead one's lock the second may remove the first's new one (`settings-store.ts:84-87`), and both compare and swap
  at once; a lock held for more than 10 s is taken, and removed by its late owner (`:85`, `:100`). Credentials: stores of two processes are not ordered (`credential-store.ts:67`).
- Usage: a quota stays for its five minutes after another account has logged in (`usage-service.ts:162`).
- Review: a CLI upgraded while it reviews is recorded under its old version (`review-service.ts:46`).

## 7. The proofs

A theorem holds for every value of the constants; what it assumes of them is said in the
module that declares them (bounds are natural numbers, sets of model values are apart) or is
a hypothesis of the theorem. TLC checks the same property on the small instance of a run, and
each inductive invariant below was checked by TLC before it was proved.

| Module | Theorems | Property | Hypothesis |
|---|---|---|---|
| `ChatDeliverySafety` | `TypesHold`, `NothingQueuedIsLost`, `InOrder`, `QuietOnceClosed`, `ReceiptsAreTrue` | `TypeOK`, `QueuedNotLost`, `HandedInOrder`, `ClosedIsQuiet`, `ReceiptsTruthful` | none, in every mode of the harness |
| `ChatOutboxProofs` | `NoMessageRunsTwice`, `OneTurnAtATime`, `UncertaintyHoldsAll`, `DeliversAsPromised` | `OneTurnPerMessage`, `TurnsDoNotOverlap`, `UncertainHoldsQueue`, `DeliversLikeAnOutbox` | `Orderly` |
| `DocumentProofs` | `TokensAreSpent`, `PlannedItemsAreKept`, `CompletionIsEvidenced` | `TokenWritesOnce`, `PlannedIsKept`, `EvidencedCompletion` | none |
| | `NoUpdateIsLost`, `WritesReadBack`, `EditorNotesAreKept`, `LedgerIsTyped` | `NoUpdateOverwritten`, `WrittenReadsBack`; `NotesKept` and `TodoTypeOK`, see below | `Unended \subseteq {"note"}` |
| | `OneWriterAlways`, `JournalIsKept` | `OneWriter`, `ThreadJournalKept` | none |
| `JournalProofs` | `NotesAreUnique`, `NotesAreTyped` | `OneNotePerQuestion`, `NotesTypeOK` | none |
| | `NotesAnswerTheirQuestion`, `JournalViewsAreTyped` | `NoteHasItsQuestion`, `JournalViewsTypeOK` | none |
| `ExecutorProofs` | `WaitersAreAnswered`, `EventsComeInOrder`, `SessionsAreSound`, `TokensAreConserved` | `EachAnsweredOnce`, `TurnEventsFit`, `SessionSound`, `TokensConserved` | none |
| `ScreenProofs` | `EveryChangeIsScheduled`, `AnswersWhatWasSeen`, `ScreenAlwaysFits`, `SelectionIsKept` | `UndrawnIsScheduled`, `DecisionFitsWhatWasShown`, `ScreenFitsTheTurns`, `WantedSelectionKept` | none; the last: `PromptStatus` |
| | `DraftsAreKept`, `WorkIsToldOnce`, `StepsAreTyped` | `DraftKept`, `WorkToldOnce`, `StepsTypeOK` | none |
| `WorkbenchProofs` | `EvidenceAlwaysFits`, `ChoicesAreKept`, `StepsAreExplained` | `EvidenceFitsTheTurn`, `NoChoiceOverwritten`, `FlowToldTruly` | none |
| | `ReviewsAreOnRecord`, `LoginsAgree` | `ReviewsOnRecord`, `LoginsAndQuotasAgree` | none |

`CollectionLemmas` has no theorem of its own: the facts about the models' operators that the others cite. `NotesTypeOK`,
`JournalViewsTypeOK` and `StepsTypeOK` are conjuncts of the run's `WorkbenchTypeOK`, `TodoTypeOK` is one of `StorageTypeOK`;
`NotesKept` says of the file what the run checks of what is about to be written.
The hypotheses are those of 5.4, with the reason there and, where the code can break them, a run that does.
`Orderly` says that the harness is in no other mode than `orderly` (4.2); `chat_duplicate` shows that
`OneTurnPerMessage` needs it. `EvidenceAlwaysFits` is about paths of every length: `PathsTooLong` is
what is left of the composer's budget when the collector's is used up.

### 7.1 Chat delivery, whatever the harness does

- `TypesHold`. `TypeOK` is not inductive: that `Append` and
  the drain put messages, and not 0, into the queue needs to know that a chain
  at certain awaits has a message, and that a `send` command at work has its own.
  `TypeInv` adds this as `Placed`.
- `NothingQueuedIsLost`. A shift removes a message by
  its id; the invariant `HandedOver` says that the ids the code shifts (the job
  of a chain past `native.startTurn`, the blocked message, the message of a
  `/cancel`) were handed over. `QueueEffect` reduces every action to: no change,
  a shift of such an id, or the push.
- `InOrder`. `QueueOrdered` says the queue is sorted, that
  what the event chain works on precedes the command in work, that a direct send
  finds the queue empty *and keeps it so*, and that a chain about to hand over
  has nothing older behind it. `ChainEffect` reduces every action to four effects on a chain.
- `ReceiptsAreTrue`. `ReceiptInv` accounts for every message the harness has, or may yet take from `limbo`: it is
  told of as queued or uncertain, or rejected after a failure of the journal, or the send is still at an await from
  which it will be (`Accounted`). A chain that works from the queue works on a message that was told to be queued, so a
  failure there contradicts no receipt.
- `QuietOnceClosed` is an invariant by itself, with `TypeInv`.

Lemmas named `...Effect` say once what any step may do to some variables; the lemmas named `...Kept`, one for
each conjunct of an invariant, cite them instead of the forty actions.

### 7.2 Chat delivery with an orderly harness

`OrderlyInv` holds the reasons why two chains that may both start a turn never both do:

- `CancelAlone`: a `/cancel` that works has no notification before it, and gets none until it interrupts;
- `OneAtWork`: one chain at a time is between deciding to start a turn and settling; until it has the answer, no turn is
  active and nothing is uncertain, and what it takes from the queue is still its head;
- `BlockedAlone`: while a message is uncertain no turn is active, and it keeps its place;
- `NotifiedInOrder`, `LiveIsKnown`: a turn that runs, or whose end has yet to be applied, is the active one, the answer on its way
  to a chain, or that of the uncertain message; so a chain that sees none of the three starts its turn alone;
- `NoTurnTwice`: what may still be handed over has no turn.

`DeliversAsPromised` needs the order as well (`OutgoingInv`): what was handed over is older than all that is to come
(`HandedIsOlder`). That fails if a refused message may stay at the head and be drained again. It does stay when the journal fails to
record the refusal; then nothing is left that could drain the queue (`HandedInQueue`, `Stuck`), since the last
notification of a thread on which no turn runs is an end (`EndIsLast`). A later message only queues behind it: another way to strand
a message than `chat_stranded`'s.
`StatusIs` reads the mapping case by case, one lemma for each action that changes a status shows which step of `ChatOutbox` it is
(`ReceiveRefines` a `Take`, `RecordRefines` a `HandOver`, and so on), and `OthersStutter` that no other action changes one.

### 7.3 The other components

**Leases and journal** (`DocumentProofs`). As long as no live process lost its lock, whoever holds the lease owns the lock file with its own token; the removal of a lock that
is not a dead one's is what makes a process `robbed`, and nothing else ends its ownership. With nobody beside a creator, one writer
then makes the cached size of the journal valid (`ThreadInv`).

**Promotion, planning, the work on a Todo** (`DocumentProofs`). An accepted token is pending, at work, or spent, in that order. Of the planning
files: the process inside the lock is alone, so what it completes is the catalog, and an artifact that is whole stays whole.
Of the Todo: what is in progress or completed has only evidence recorded since its start (`BackedBy`). `Follows` says what any command
does to an entry: it is new and waits, or comes of one before, and then it is in progress or completed only if that one was, or without
evidence.

**The Todo file** (`DocumentProofs`). Two arguments. The first is about texts, of any length: `Reads(text, items)` says that the managed lines of
a text are those of the items, in their order, whatever stands between them. A text that is `Render`ed reads as its items (`RenderReads`);
one that reads as some items, patched with others, reads as those and has every note it had (`PatchReads`); the editor's saves change nothing
that is read (`EditReads`, `LastBreakReads`). `PatchReads` has two cases: with fewer entries than managed lines, lines are rewritten or removed in place; with
more, the new ones go behind the last managed line, and it is here that this line must end with its break (`JoinedWhole`) - the
proof got stuck there, and so the case was found (6.4). The second is about processes, and is the reason why comparing
revisions suffices: `LedgerInv` says that everything anyone holds of the file - what a ledger shows, what an operation was
computed from, what the watch has glimpsed - is `Settled`: of an earlier revision, or the file's own document. A revision therefore stands for
one document, and a write whose revision fits replaces the document it was computed from. Types alone are not
inductive either: that a commit's document is valid rests on the validity of what is read back.

**T-notes** (`JournalProofs`). `OneNotePerQuestion` needs that an open session knows every note of its own turns that the file has
(`DraftsAgree`), that a request is of the first job or of the one manual capture, which waits behind a job for the same turn (`RequestsApart`), and that
the residue of a crash is of a session that is gone and not yet in the file (`TailIsNew`).

**The question of a turn** (`JournalProofs`). As long as no message was sent twice (`SentOnce`, the exception of the property; the run `chat_duplicate` shows that the code can do it), the two
chains stay apart: at most one of them has a send that is not settled, it is the head of the queue if it was queued, and nothing is uncertain then (`ChainsApart`); a drain that would take what the other
chain sends would announce it a second time, which is what `SentOnce` rules out. Therefore only the last turn can be unfinished, and if a send is uncertain meanwhile, that
turn is its own and has no answer on record (`OneAtATime`). While the answer of `turn/start` is written, the message delivered last is that turn's (`DeliveredLast`); a message of the turn is
delivered before that answer, and none behind it before the turn is over (`AnsweredLast`). So the search backwards from the turn meets the turn's own message first, if that answer is on record
when the turn ends. If it is not, as after a lost answer, the message found was delivered before the last start, and is of this turn or of one before (`AskedBefore`). `DrainEffect`
says once what a drain does to a chain and to the journal, for the three steps that drain; `QuietChainStep` serves the steps that write nothing of turns.

**Executors**. A response is sent while its approval is marked, and an approval that is forgotten is not announced again; of
Pi, timers, microtasks and prompts say which turn they belong to. Of a session, `HeldAt`, `ResumedThread` and `NewThread` say what is held
at each await, for a resumed and for a new thread, and `NoticesFit` that the end of a turn taken for active is behind the event
chain or yet to come: a turn that ends while the session opens is therefore not active for good. Of tokens, `TokenInv` says that what waits for turns is part
of what is unattributed, so that the subtraction at a binding (the code cuts it off at 0) never cuts anything off; sums over models and turns
move by `SumMoves`.

**The screen** (`ScreenProofs`): one inductive invariant for each of six machines. `AnswersWhatWasSeen` needs that the request pending at `resolveApproval` is, in all its contents, the one
the decision was made on unless its id was announced since (`PendingAsSeen`): the events queued before the decision are recorded before it is resolved. `UndrawnIsScheduled` needs that
`pending` and `immediatePending` are set together with what they stand for, since the key's microtask looks at nothing else. Of the drafts: a path belongs to one run
and a run saves once, so there is one draft for a path for ever, and a removal that acts on an old comparison removes nothing new. Of the steps of a turn,
`StepsInv` says that the work of the steps and the orphans are apart (`WorkApart`) and together all that was done (`WorkComplete`), and that identities are made of
the ordinal of a revision, and so are new with each (`IdentitiesApart`); `Continues` and `Retired` say what a new plan, whichever entries match, does to the steps;
`MatchesAreOneEntry` that
a step is matched, its text kept or edited, only with an entry that is its own beyond doubt, so that its work stays with it.

**The workbench's services** (`WorkbenchProofs`). What was collected fits what is composed; the process that holds the settings lock is the one whose comparison is
still true, unless it is unprotected: whose lock is removed, or who enters beside one of these, is so from that step on. Of narrations, `RequestsFit` says that a request under way is of what the step had done, and that the last one made for
a step that is shown is of what it has done by now; the cache is always the present flow (`CacheIsCurrent`), because every change of
what it is made of changes its key; `MirrorFollows` follows the last flow that was queued rather than the file. Of reviews, a packet that may be sent has left no more often
than it was refused, and one whose preview is used up does not come back (`SendsAreCounted`). Of the credential file, only the first operation of the chain has
loaded it, and what it loaded is what is there (`StoreSound`); a quota with an account was asked for after the account was last seen gone (`ProviderSound`).

**Collections** (`CollectionLemmas`). What a fold computes is not at hand for the provers: the library's induction takes an operator as a parameter. But
an induction over a *set* can be stated without one: a set that has 0 and with each number the next has all of them (`AllNumbers`, from the
well-founded order of the numbers). With it a recursion over a finite set is shown to have a solution (`SetRecursion`), and the fold to be its last value; from
there one lemma for each operator says what it does with one more element (`SelectedOneMore`, `FlattenedParts`, `SumMoves`), and an induction over the length of a
text, again as a set of numbers, says what `Patch` does to a whole text. The same gives `Max` and `Min` of finite sets.

### 7.4 What the proofs changed

Writing them found choices that TLC does not see. Four `CASE` expressions had arms that overlap (`PromptSettles`, `Lifecycle` and
`MonitorState`, `StoreAnswer`, `Status`): TLC takes the first, the logic any. They now say which one the code takes. Sentinels that must not be
members of a set (`NoTurn`, `NoItem`, `LocalItem` of `LiveProjection`; `NoProcess` and `Gone` of `ThreadSession`), and that the writers of a journal are the processes of
its thread, are now assumptions that TLC evaluates. Where a `CHOOSE` picked the newest draft, and a `SelectSeq` the missing artifacts, the step
now says which one it takes with a quantifier, and the plan and the work of a step are sets of records rather than a
`SelectSeq`; what the steps do is the same. In `Changed` of `TodoDocument` a union of unions was written so that the two parsers could read it
differently; it has parentheses now.

For the folds, `Filters` gives `Array.prototype.filter` with a set instead of an operator (`Selected`), and `TNotes`, `WorkSteps`
and `TodoDocument` use it; `Reviews` counts with `Cardinality`. That the models and turns of `UsageTracker` are finitely many, that
watches are of ledgers there are and plans sequences of statuses are assumptions now. The round trip of the Todo document could
not be proved as it was modelled, with a line break behind every line: that left out the one case in which the code goes wrong, so the break
became part of a line (5.1), the editor may drop it, and `WrittenReadsBack` was stated as a property of its own.

### 7.5 What is only model-checked

- Liveness (`ChainsGetThrough`, `EveryRunEnds`) and the runs that refute a claim.
- `ContextKept` and `ReviewTellsWhatHappened`: their definitions filter and sort sequences with an operator as argument (`SelectSeq`, `SortSeq`). The folds
  and `Selected` could be reasoned about (7.3, Collections) because they take sets; for these two the definitions would have to be written anew.
- `StorageTypeOK`, `ExecutorTypeOK` and `WorkbenchTypeOK`, the conjunctions of the components' type invariants. Those of `ChatDelivery`, `TodoLedger`,
  `TNotes`, `WorkSteps` and `JournalViews` are theorems; those of the others are implied, where the proofs need them, by their inductive invariants.

## 8. Not modelled

In the class of `ChatDelivery`: the drop of events before the journal is bound
(`SessionOpening` has it). Texts are not modelled where no property is about them: a message
is its number, an empty message is not sent. The receipt of `/cancel` and of an
approval is not recorded. Parsing and validation (`codex-app-server.ts`, lines of a Todo, slash commands, arguments),
redaction, the layout of cards and dashboards, the rendering of statistics, the validator of traceability and read-only queries of git are
functions without state or order; the requests to remote models and the OAuth dialogue are I/O. Compaction of the legacy context,
the permission and MCP commands (single assignments, or requests that `CodexRpc` covers) and the composition of the legacy session in
`project-session.ts` are left out. `PROJECT.json` lists each with its component.
