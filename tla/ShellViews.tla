------------------------------ MODULE ShellViews ------------------------------
(***************************************************************************)
(* What the screen of the workbench shows, what has the keyboard and what  *)
(* runs in the background for it (workbench-shell.ts): views, overlays,    *)
(* the navigation shortcuts, the poller of the development map, the exit   *)
(* keys.  Answers that the shell awaits - the history a dashboard is drawn *)
(* from, the receipt of a selection - come when other keys have been       *)
(* pressed.                                                                *)
(***************************************************************************)
EXTENDS Integers

CONSTANT MaxAwaited       \* answers awaited at once

ASSUME ViewsAssumption == MaxAwaited \in Nat

Observability == {"stats", "dashboard", "monitor"}
Views == Observability \union {"workbench", "map", "source"}

VARIABLES
  viewMode,
  focus,              \* what has the keyboard: "editor", "overlay", or the scroll pane of a view
  navigation,         \* observabilityNavigation
  overlayKind,        \* "none", "model" or "approval"
  composing,          \* the editor holds text
  working,            \* the phase of the snapshot
  awaitedReads,       \* histories being read for a dashboard
  awaitedReceipts,    \* activity.select under way
  historical,         \* selectedHistoricalSession is set
  detail,             \* statsTarget is a request
  pollers,            \* intervals reading the development map
  stopPolling,        \* the handle kept of one
  recentCtrlC,
  shuttingDown,
  keysTaken           \* what had the keyboard when a letter or digit was a shortcut

viewVars == <<viewMode, focus, navigation, overlayKind, composing, working, awaitedReads,
              awaitedReceipts, historical, detail, pollers, stopPolling, recentCtrlC,
              shuttingDown, keysTaken>>

-----------------------------------------------------------------------------
(* Views.                                                                  *)

\* DevelopmentMapPollingLifecycle.
EnterMap == pollers' = (IF stopPolling THEN pollers ELSE pollers + 1) /\ stopPolling' = TRUE
LeaveMap == pollers' = (IF stopPolling THEN pollers - 1 ELSE pollers) /\ stopPolling' = FALSE

\* Mutant of SetViewMode: the map is left only for the workbench.
SetViewModeByEscape(next) ==
  /\ viewMode' = next
  /\ CASE viewMode # "map" /\ next = "map" -> EnterMap
       [] viewMode = "map" /\ next = "workbench" -> LeaveMap
       [] OTHER -> UNCHANGED <<pollers, stopPolling>>
SetViewMode(next) ==
  /\ viewMode' = next
  /\ CASE viewMode # "map" /\ next = "map" -> EnterMap
       [] viewMode = "map" /\ next # "map" -> LeaveMap
       [] OTHER -> UNCHANGED <<pollers, stopPolling>>

\* createWorkbenchViewHost: of the stacked views the one that is drawn.
Visible(view) == viewMode = view

Show(view, nowFocused, navigating) ==
  SetViewMode(view) /\ focus' = nowFocused /\ navigation' = navigating

\* enterObservability: a dashboard is entered when the history has been read.
EnterObservability(next) ==
  IF next = "dashboard"
  THEN /\ awaitedReads < MaxAwaited /\ awaitedReads' = awaitedReads + 1
       /\ UNCHANGED <<viewMode, focus, navigation, pollers, stopPolling>>
  ELSE Show(next, next, TRUE) /\ UNCHANGED awaitedReads

HistoryRead ==
  /\ awaitedReads > 0 /\ awaitedReads' = awaitedReads - 1
  /\ \/ Show("dashboard", "dashboard", TRUE)
     \/ UNCHANGED <<viewMode, focus, navigation, pollers, stopPolling>>
  /\ UNCHANGED <<overlayKind, composing, working, awaitedReceipts, historical, detail,
                 recentCtrlC, shuttingDown, keysTaken>>

\* activity.select, or todo, by command: accepted, or refused.
SelectionReceipt ==
  /\ awaitedReceipts > 0 /\ awaitedReceipts' = awaitedReceipts - 1
  /\ \/ Show("source", "source", FALSE)
     \/ UNCHANGED <<viewMode, focus, navigation, pollers, stopPolling>>
  /\ UNCHANGED <<overlayKind, composing, working, awaitedReads, historical, detail, recentCtrlC,
                 shuttingDown, keysTaken>>

-----------------------------------------------------------------------------
(* Overlays.                                                               *)

OpenOverlay(kind) == overlayKind = "none" /\ overlayKind' = kind /\ focus' = "overlay"

\* closeOverlay gives the keyboard to the editor.
CloseOverlay == overlayKind' = "none" /\ focus' = "editor"

\* The subscription: an approval comes or goes, on any snapshot.
ApprovalSurfaces ==
  /\ ~shuttingDown
  /\ OpenOverlay("approval") \/ (overlayKind = "approval" /\ CloseOverlay)
  /\ UNCHANGED <<viewMode, navigation, composing, working, awaitedReads, awaitedReceipts,
                 historical, detail, pollers, stopPolling, recentCtrlC, shuttingDown, keysTaken>>

\* Esc, Ctrl+C or Ctrl+D, a choice made, or the receipt of a decision.
OverlayEnds ==
  /\ ~shuttingDown /\ overlayKind # "none" /\ CloseOverlay
  /\ UNCHANGED <<viewMode, navigation, composing, working, awaitedReads, awaitedReceipts,
                 historical, detail, pollers, stopPolling, recentCtrlC, shuttingDown, keysTaken>>

PhaseChanges ==
  /\ working' = ~working
  /\ UNCHANGED <<viewMode, focus, navigation, overlayKind, composing, awaitedReads,
                 awaitedReceipts, historical, detail, pollers, stopPolling, recentCtrlC,
                 shuttingDown, keysTaken>>

-----------------------------------------------------------------------------
(* Keys, and lines submitted in the editor.                                *)

Pressed == ~shuttingDown /\ overlayKind = "none"

Shutdown ==
  /\ shuttingDown' = TRUE /\ LeaveMap
  /\ overlayKind' = "none"
  /\ UNCHANGED <<viewMode, focus, navigation, composing, working, awaitedReads, awaitedReceipts,
                 historical, detail, recentCtrlC, keysTaken>>

\* handleLocal, for the commands that change the screen; a line is not a single key.
Submit(command) ==
  /\ Pressed /\ focus = "editor" /\ composing /\ composing' = FALSE
  /\ CASE command = "map" -> Show("map", "map", FALSE) /\ UNCHANGED <<awaitedReads, awaitedReceipts, overlayKind>>
       [] command \in Observability -> EnterObservability(command) /\ UNCHANGED <<awaitedReceipts, overlayKind>>
       [] command = "pane" -> Show("workbench", "editor", FALSE) /\ UNCHANGED <<awaitedReads, awaitedReceipts, overlayKind>>
       [] command = "select" ->
            /\ awaitedReceipts < MaxAwaited /\ awaitedReceipts' = awaitedReceipts + 1
            /\ UNCHANGED <<viewMode, focus, navigation, pollers, stopPolling, awaitedReads, overlayKind>>
       [] OTHER ->
            /\ ~working /\ OpenOverlay("model")
            /\ UNCHANGED <<viewMode, navigation, pollers, stopPolling, awaitedReads, awaitedReceipts>>
  /\ IF command = "stats" THEN historical' = FALSE /\ detail' \in BOOLEAN ELSE UNCHANGED <<historical, detail>>
  /\ UNCHANGED <<working, recentCtrlC, shuttingDown, keysTaken>>

SubmitExit == Pressed /\ focus = "editor" /\ composing /\ Shutdown

\* 1, 2, 3, r or R: shouldHandleObservabilityShortcut, or a character of the editor's text.
IsShortcut == navigation /\ viewMode \in Observability
TypeLetter(next) ==
  /\ Pressed
  /\ IF IsShortcut
     THEN /\ EnterObservability(next) /\ keysTaken' = keysTaken \union {focus}
          /\ UNCHANGED composing
     ELSE /\ composing' = (composing \/ focus = "editor")
          /\ UNCHANGED <<viewMode, focus, navigation, pollers, stopPolling, awaitedReads, keysTaken>>
  /\ UNCHANGED <<overlayKind, working, awaitedReceipts, historical, detail, recentCtrlC, shuttingDown>>

\* Enter opens the session under the cursor, then a request, then its source; where none
\* was observed it does nothing.
EnterKey ==
  /\ Pressed /\ navigation /\ viewMode \in {"dashboard", "stats"}
  /\ CASE viewMode = "dashboard" -> historical' = TRUE /\ detail' = FALSE /\ EnterObservability("stats")
       [] viewMode = "stats" /\ ~historical /\ ~detail ->
            detail' = TRUE /\ UNCHANGED <<historical, viewMode, focus, navigation, pollers, stopPolling, awaitedReads>>
       [] viewMode = "stats" /\ ~historical /\ detail ->
            Show("source", "source", FALSE) /\ UNCHANGED <<historical, detail, awaitedReads>>
       [] OTHER -> UNCHANGED <<historical, detail, viewMode, focus, navigation, pollers, stopPolling, awaitedReads>>
  /\ UNCHANGED <<overlayKind, composing, working, awaitedReceipts, recentCtrlC, shuttingDown, keysTaken>>

Escape ==
  /\ Pressed /\ viewMode # "workbench" /\ Show("workbench", "editor", FALSE)
  /\ UNCHANGED <<overlayKind, composing, working, awaitedReads, awaitedReceipts, historical, detail,
                 recentCtrlC, shuttingDown, keysTaken>>

\* ExitKeyPolicy: the second Ctrl+C within 500 ms leaves; the first stops the turn or clears.
CtrlC ==
  /\ Pressed
  /\ \/ recentCtrlC /\ Shutdown
     \/ /\ ~recentCtrlC /\ recentCtrlC' = TRUE
        /\ composing' = (composing /\ working)
        /\ UNCHANGED <<viewMode, focus, navigation, overlayKind, working, awaitedReads,
                       awaitedReceipts, historical, detail, pollers, stopPolling, shuttingDown, keysTaken>>

CtrlD == Pressed /\ ~composing /\ Shutdown

HalfSecondPasses ==
  /\ recentCtrlC /\ recentCtrlC' = FALSE
  /\ UNCHANGED <<viewMode, focus, navigation, overlayKind, composing, working, awaitedReads,
                 awaitedReceipts, historical, detail, pollers, stopPolling, shuttingDown, keysTaken>>

-----------------------------------------------------------------------------
ViewsInit ==
  /\ viewMode = "workbench" /\ focus = "editor" /\ navigation = FALSE /\ overlayKind = "none"
  /\ composing \in BOOLEAN /\ working \in BOOLEAN /\ awaitedReads = 0 /\ awaitedReceipts = 0
  /\ historical = FALSE /\ detail = FALSE /\ pollers = 0 /\ stopPolling = FALSE
  /\ recentCtrlC = FALSE /\ shuttingDown = FALSE /\ keysTaken = {}

ViewsNext ==
  \/ HistoryRead \/ SelectionReceipt \/ ApprovalSurfaces \/ OverlayEnds \/ PhaseChanges
  \/ \E command \in Observability \union {"map", "pane", "select", "model"} : Submit(command)
  \/ \E next \in Observability : TypeLetter(next)
  \/ EnterKey \/ Escape \/ CtrlC \/ CtrlD \/ SubmitExit \/ HalfSecondPasses

ViewsSpec == ViewsInit /\ [][ViewsNext]_viewVars

\* With the types: the development map is read as long as it is shown and no longer, by one
\* poller, whatever answers change the view behind the keys; none is left at the end; and no
\* key goes to the pane of a view that is not drawn.
ViewsTypeOK ==
  /\ viewMode \in Views /\ focus \in (Views \ {"workbench"}) \union {"editor", "overlay"}
  /\ overlayKind \in {"none", "model", "approval"}
  /\ {navigation, composing, working, historical, detail, stopPolling, recentCtrlC, shuttingDown} \subseteq BOOLEAN
  /\ focus \in Views => Visible(focus)
  /\ awaitedReads \in 0..MaxAwaited /\ awaitedReceipts \in 0..MaxAwaited
  /\ pollers = IF viewMode = "map" /\ ~shuttingDown THEN 1 ELSE 0
  /\ keysTaken \subseteq (Views \ {"workbench"}) \union {"editor", "overlay"}

\* While the composer has the keyboard, r, R, 1, 2 and 3 are characters of its text.
ComposerKeepsItsKeys == "editor" \notin keysTaken
=============================================================================
