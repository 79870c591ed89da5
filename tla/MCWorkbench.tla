----------------------------- MODULE MCWorkbench -----------------------------
(***************************************************************************)
(* The workbench, its terminal and the services beside the chat, on small  *)
(* instances for TLC.  The parts have no state in common: a behaviour is   *)
(* one of one part, chosen at first.                                       *)
(***************************************************************************)
EXTENDS LiveProjection, TNotes, RenderScheduler, ApprovalSurface, ShellViews, ComposerDrafts, WorkSteps,
  LegacyShell, Planning, Narrations, ModelSettings, WooEntry, JournalViews, Reviews, UsageReports

MCNoteTurns == [s |-> {"old", "t1", "t2"}]
\* An edit of "a" shows; "b" looks like "a" once its secrets are taken out.
MCTitleOf == [t \in PlanTokens |-> IF t = "a2" THEN "A2" ELSE "A"]
MCNear == {<<"a", "a2">>, <<"a2", "a">>}
MCTurnDeeds == <<[kind |-> "tool", onlyReads |-> TRUE], [kind |-> "message", onlyReads |-> TRUE],
                 [kind |-> "file-change", onlyReads |-> FALSE]>>

VARIABLE part

\* The parts in three groups, so that a step leaves the other groups as they are.
screenVars == <<renderVars, approvalVars, viewVars, composerVars, legacyVars>>
sessionVars == <<projectionVars, noteVars, stepVars, narrationVars, viewsVars>>
sideVars == <<planVars, settingsVars, wooVars, reviewVars, usageVars>>
partVars == <<screenVars, sessionVars, sideVars, part>>

MCInit ==
  /\ RenderInit /\ ApprovalInit /\ ViewsInit /\ ComposerInit /\ LegacyInit
  /\ ProjectionInit /\ NotesInit /\ StepsInit /\ NarrationInit /\ ViewsOfInit
  /\ PlanInit /\ SettingsInit /\ WooInit /\ ReviewInit /\ UsageInit
  /\ part \in {"render", "approval", "views", "composer", "legacy",
               "projection", "notes", "steps", "narration", "journal",
               "planning", "settings", "woo", "reviews", "usage"}
  /\ part # "views" => ~composing /\ ~working
  /\ part # "composer" => draftFiles = {}
  /\ part # "reviews" => cliVersion = 0
  /\ part # "legacy" => selectionInUse = "p" /\ loggedIn = {}
  /\ part # "settings" => clientKind = "workbench"
  /\ settingsFile = "a"      \* the selections are alike

ScreenNext ==
  \/ part = "render" /\ RenderNext /\ UNCHANGED <<approvalVars, viewVars, composerVars, legacyVars>>
  \/ part = "approval" /\ ApprovalNext /\ UNCHANGED <<renderVars, viewVars, composerVars, legacyVars>>
  \/ part = "views" /\ ViewsNext /\ UNCHANGED <<renderVars, approvalVars, composerVars, legacyVars>>
  \/ part = "composer" /\ ComposerNext /\ UNCHANGED <<renderVars, approvalVars, viewVars, legacyVars>>
  \/ part = "legacy" /\ LegacyNext /\ UNCHANGED <<renderVars, approvalVars, viewVars, composerVars>>

SessionNext ==
  \/ part = "projection" /\ ProjectionNext /\ UNCHANGED <<noteVars, stepVars, narrationVars, viewsVars>>
  \/ part = "notes" /\ NotesNext /\ UNCHANGED <<projectionVars, stepVars, narrationVars, viewsVars>>
  \/ part = "steps" /\ StepsNext /\ UNCHANGED <<projectionVars, noteVars, narrationVars, viewsVars>>
  \/ part = "narration" /\ NarrationNext /\ UNCHANGED <<projectionVars, noteVars, stepVars, viewsVars>>
  \/ part = "journal" /\ ViewsOfNext /\ UNCHANGED <<projectionVars, noteVars, stepVars, narrationVars>>

ServiceNext ==
  \/ part = "planning" /\ PlanNext /\ UNCHANGED <<settingsVars, wooVars, reviewVars, usageVars>>
  \/ part = "settings" /\ SettingsNext /\ UNCHANGED <<planVars, wooVars, reviewVars, usageVars>>
  \/ part = "woo" /\ WooNext /\ UNCHANGED <<planVars, settingsVars, reviewVars, usageVars>>
  \/ part = "reviews" /\ ReviewNext /\ UNCHANGED <<planVars, settingsVars, wooVars, usageVars>>
  \/ part = "usage" /\ UsageNext /\ UNCHANGED <<planVars, settingsVars, wooVars, reviewVars>>

MCNext ==
  /\ UNCHANGED part
  /\ \/ ScreenNext /\ UNCHANGED <<sessionVars, sideVars>>
     \/ SessionNext /\ UNCHANGED <<screenVars, sideVars>>
     \/ ServiceNext /\ UNCHANGED <<screenVars, sessionVars>>

MCSpec == MCInit /\ [][MCNext]_partVars

WorkbenchTypeOK ==
  /\ ProjectionTypeOK /\ NotesTypeOK /\ RenderTypeOK /\ ApprovalTypeOK /\ ViewsTypeOK
  /\ ComposerTypeOK /\ StepsTypeOK /\ LegacyTypeOK /\ PlanTypeOK /\ NarrationTypeOK
  /\ SettingsTypeOK /\ WooTypeOK /\ JournalViewsTypeOK /\ ReviewTypeOK /\ UsageTypeOK
=============================================================================
