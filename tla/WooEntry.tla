------------------------------- MODULE WooEntry -------------------------------
(***************************************************************************)
(* The WES evidence that is sent with every message (woo-entry.ts): one    *)
(* refresh at a time runs a Python program through the collector           *)
(* (wes-entry-collector.ts) and replaces the snapshot, and the context     *)
(* composer puts the snapshot into the turn (context-composer.ts).  Texts  *)
(* are the lengths of their JSON, since both sides have a budget.          *)
(***************************************************************************)
EXTENDS Integers

CONSTANTS
  PayloadLengths,    \* of the five fields of a snapshot, as JSON
  RootLengths, RunnerLengths, CwdLengths,
  MaxWooRefreshes    \* bound on the refreshes of a workbench

ASSUME WooAssumption ==
  /\ MaxWooRefreshes \in 1..99
  /\ PayloadLengths \union RootLengths \union RunnerLengths \union CwdLengths \subseteq Nat

VARIABLES
  entry,             \* WooEntry.current
  entryPhase,        \* where the refresh is
  entryRun,          \* the Python process of the refresh
  found,             \* what the refresh has found so far
  entryReceipt,      \* of the command woo-entry.refresh
  lastCollection     \* history: what the last refresh that ended has collected

wooVars == <<entry, entryPhase, entryRun, found, entryReceipt, lastCollection>>

Evidence == [root : RootLengths \union {0}, runner : RunnerLengths \union {0}, payload : PayloadLengths \union {0}]
NoEvidence == [root |-> 0, runner |-> 0, payload |-> 0]
NoEntryRun == [exit |-> "none", timedOut |-> FALSE, overflow |-> FALSE, open |-> FALSE]

\* The length of the text that normalizeWooEntryPayload measures: root and runner are "/wes" and
\* "hooks/wes_entry.py" there, whatever they are called.
Measured(payload) == 161 + payload + 4 + 18
WithinBudget(payload) == Measured(payload) <= 3500

\* The length of the composed context: the paths are in it twice.
Digits(n) == IF n < 10 THEN 1 ELSE 2
Composed(snapshot, cwd) ==
  IF snapshot.state = "ready"
  THEN 417 + Digits(snapshot.revision) + snapshot.evidence.payload + 2 * snapshot.evidence.root + snapshot.evidence.runner + 2 * cwd
  ELSE 597 + 2 * cwd
MayCompose(snapshot, cwd) == Composed(snapshot, cwd) <= 4000

-----------------------------------------------------------------------------
EntrySettled(snapshot) ==
  /\ entry' = snapshot
  /\ entryPhase' = "idle" /\ entryRun' = NoEntryRun /\ found' = NoEvidence
  /\ entryReceipt' = IF entryReceipt = "waiting" THEN IF snapshot.state = "ready" THEN "accepted" ELSE "rejected"
                     ELSE entryReceipt

BlockedSnapshot == [state |-> "blocked", revision |-> entry.revision + 1, evidence |-> NoEvidence]

RefreshFails ==
  /\ EntrySettled(BlockedSnapshot)
  /\ lastCollection' = [evidence |-> NoEvidence, run |-> entryRun]

\* initialize, or the command when the workbench is ready: one after the other.
RefreshEntry ==
  /\ entryPhase = "idle" /\ entry.revision < MaxWooRefreshes
  /\ entryPhase' = "config"
  /\ entryReceipt' = IF entry.state = "loading" THEN "none" ELSE "waiting"
  /\ UNCHANGED <<entry, entryRun, found, lastCollection>>

\* collect reads the configuration, finds the root, and reads the manifest there.
ConfigurationRead ==
  /\ entryPhase = "config"
  /\ \/ \E root \in RootLengths :
          /\ entryPhase' = "runner" /\ found' = [NoEvidence EXCEPT !.root = root]
          /\ UNCHANGED <<entry, entryRun, entryReceipt, lastCollection>>
     \/ RefreshFails

\* safeRunner resolves the runner inside the root; then the process is started.
RunnerStarted ==
  /\ entryPhase = "runner"
  /\ \/ \E runner \in RunnerLengths :
          /\ entryPhase' = "running" /\ found' = [found EXCEPT !.runner = runner]
          /\ entryRun' = [NoEntryRun EXCEPT !.open = TRUE]
          /\ UNCHANGED <<entry, entryReceipt, lastCollection>>
     \/ RefreshFails

RunEvent(run) ==
  /\ entryPhase = "running" /\ entryRun' = run
  /\ UNCHANGED <<entry, entryPhase, found, entryReceipt, lastCollection>>

\* The timer, which runs until exit and both streams have been awaited, sends SIGTERM.
EntryTimesOut == ~entryRun.timedOut /\ RunEvent([entryRun EXCEPT !.timedOut = TRUE])
\* readBounded kills as well, and does not wait for the end of its stream.
EntryOverflows == entryRun.open /\ RunEvent([entryRun EXCEPT !.overflow = TRUE, !.open = FALSE])
\* A process that is sent SIGTERM may still end as it likes.
EntryExits == entryRun.exit = "none" /\ \E code \in {"zero", "other"} : RunEvent([entryRun EXCEPT !.exit = code])
\* Whoever has inherited the streams may hold them after the exit, without a limit.
EntryStreamsEnd == entryRun.exit # "none" /\ entryRun.open /\ RunEvent([entryRun EXCEPT !.open = FALSE])

\* Mutant of RunSucceeded: a run that was killed counts by its exit code.
ExitedWithZero == entryRun.exit = "zero"
RunSucceeded == entryRun.exit = "zero" /\ ~entryRun.timedOut /\ ~entryRun.overflow

\* The output is a snapshot of the right kind within the budget, or the refresh fails.
EntryRunEnds ==
  /\ entryPhase = "running" /\ entryRun.exit # "none" /\ ~entryRun.open
  /\ \/ \E payload \in PayloadLengths :
          /\ RunSucceeded /\ WithinBudget(payload)
          /\ LET evidence == [found EXCEPT !.payload = payload]
             IN  /\ lastCollection' = [evidence |-> evidence, run |-> entryRun]
                 /\ EntrySettled([state |-> "ready", revision |-> entry.revision + 1, evidence |-> evidence])
     \/ RefreshFails

-----------------------------------------------------------------------------
WooInit ==
  /\ entry = [state |-> "loading", revision |-> 0, evidence |-> NoEvidence]
  /\ entryPhase = "idle" /\ entryRun = NoEntryRun /\ found = NoEvidence /\ entryReceipt = "none"
  /\ lastCollection = [evidence |-> NoEvidence, run |-> NoEntryRun]

WooNext ==
  \/ RefreshEntry \/ ConfigurationRead \/ RunnerStarted
  \/ EntryTimesOut \/ EntryOverflows \/ EntryExits \/ EntryStreamsEnd \/ EntryRunEnds

WooSpec == WooInit /\ [][WooNext]_wooVars

-----------------------------------------------------------------------------
\* The variables have their types; the process is there while its phase is.
WooTypeOK ==
  /\ entry.state \in {"loading", "ready", "blocked"} /\ entry.revision \in 0..MaxWooRefreshes
  /\ entry.evidence \in Evidence /\ found \in Evidence /\ lastCollection.evidence \in Evidence
  /\ entryPhase \in {"idle", "config", "runner", "running"}
  /\ entryReceipt \in {"none", "waiting", "accepted", "rejected"}
  /\ entryPhase # "running" => entryRun = NoEntryRun

\* What the paths alone take from the composer is more than the largest payload leaves of its budget.
PathsTooLong(snapshot, cwd) ==
  IF snapshot.state = "ready"
  THEN 2 * snapshot.evidence.root + snapshot.evidence.runner + 2 * cwd > 266 - Digits(snapshot.revision)
  ELSE 2 * cwd > 3403

\* The evidence that a turn may carry is that of the last refresh that ended, of a process that ended
\* by itself with success: no timeout, overflow or later failure leaves any behind (refreshNow,
\* WesEntryCollector.collect).  What the budget of the collector accepts fits into the budget of
\* ContextComposer.compose, so that a message which cannot be composed, and is not sent
\* (context-composer.ts:21), fails for its paths, on whose length nothing puts a limit.
EvidenceFitsTheTurn ==
  /\ entry.evidence = lastCollection.evidence
  /\ entry.state = "ready" =>
       /\ lastCollection.run.exit = "zero" /\ ~lastCollection.run.timedOut /\ ~lastCollection.run.overflow
  /\ \A cwd \in CwdLengths : MayCompose(entry, cwd) \/ PathsTooLong(entry, cwd)
=============================================================================
