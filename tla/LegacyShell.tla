------------------------------ MODULE LegacyShell ------------------------------
(***************************************************************************)
(* The shell of the model router (legacy-session-shell.ts with its         *)
(* model-picker-overlay.ts and auth-overlay.ts): one overlay at a time     *)
(* over the composer, a selection that goes through the picker, a login    *)
(* and the settings, and answers that come when another overlay is up.     *)
(* A selection is named by its provider; models and efforts follow from    *)
(* it.  The runtime's phase reaches the shell only when it is emitted.     *)
(***************************************************************************)
EXTENDS Integers, FiniteSets

CONSTANTS
  LegacyProviders,
  MaxOverlays,      \* bound on overlays opened by the user
  PromptStatus      \* /model learns a provider's status before anything else happens

ASSUME LegacyAssumption == "" \notin LegacyProviders /\ MaxOverlays \in Nat

VARIABLES
  ui,              \* the overlay, its lock, pendingModelSettings, and what the user wants
  settingsUpdate,  \* the change of settings in flight, and who awaits it
  logins,          \* the logins that have not answered
  statusAsked,     \* providers of /model commands that await the provider's status
  selectionInUse,  \* the settings of the session
  loggedIn,     \* providers that are logged in
  turnPhase,       \* none, recording (not yet emitted) or seen by the shell
  leaving          \* shuttingDown

legacyVars == <<ui, settingsUpdate, logins, statusAsked, selectionInUse, loggedIn, turnPhase, leaving>>

Unasked == [p \in LegacyProviders |-> "pending"]
NoLegacyOverlay == [kind |-> "none", id |-> 0, staged |-> "", confirming |-> FALSE, applying |-> FALSE, known |-> Unasked]
NoUpdate == [by |-> "none", id |-> 0, wanted |-> "", staged |-> ""]

Streaming == turnPhase = "seen"
LegacyShowing(kind) == ui.overlay.kind = kind
UserActs == ~leaving /\ ui.shown < MaxOverlays
MayOpen == UserActs /\ LegacyShowing("none")
KeepsSession == UNCHANGED <<selectionInUse, loggedIn, turnPhase, leaving>>

-----------------------------------------------------------------------------
(* Overlays.                                                               *)

Closed(u) == IF u.overlay.kind = "none" THEN u ELSE [u EXCEPT !.overlay = NoLegacyOverlay, !.locked = FALSE]
CloseOwn(u, id) == IF u.overlay.id = id THEN Closed(u) ELSE u

Shown(u, kind, staged, confirming) ==
  [u EXCEPT !.shown = @ + 1,
            !.overlay = [NoLegacyOverlay EXCEPT !.kind = kind, !.id = u.shown + 1, !.staged = staged,
                                          !.confirming = confirming]]

\* openModelSettings: not over another overlay.
WithPicker(u, staged, confirming) ==
  IF u.overlay.kind # "none" THEN u ELSE Shown([u EXCEPT !.pending = ""], "model", staged, confirming)

\* openAuthFlow: whatever is open is closed.
WithLogin(u, staged) == Shown(Closed([u EXCEPT !.pending = staged]), "auth", staged, FALSE)

\* What is pending, or else what is in use.
Initial == IF ui.pending # "" THEN ui.pending ELSE selectionInUse

OpenModel ==
  /\ MayOpen
  /\ ui' = WithPicker(ui, Initial, FALSE)
  /\ UNCHANGED <<settingsUpdate, logins, statusAsked>> /\ KeepsSession

OpenAnother(kind) ==
  /\ MayOpen /\ (kind = "selector" => ~Streaming)
  /\ ui' = Shown(ui, kind, "", FALSE)
  /\ UNCHANGED <<settingsUpdate, logins, statusAsked>> /\ KeepsSession

\* Esc or Ctrl+C: not while a change is applied; giving up the picker gives up its selection.
Dismiss ==
  /\ ~leaving /\ ui.overlay.kind \in {"model", "selector", "panel"} /\ ~ui.overlay.applying
  /\ ui' = [Closed(ui) EXCEPT !.wants = IF LegacyShowing("model") THEN "" ELSE @]
  /\ UNCHANGED <<settingsUpdate, logins, statusAsked>> /\ KeepsSession

-----------------------------------------------------------------------------
(* A change of the settings: one at a time, never over a turn the shell    *)
(* has seen.                                                               *)

MayUpdate == ~Streaming /\ settingsUpdate = NoUpdate
Updating(by, id, wanted, staged) ==
  settingsUpdate' = [by |-> by, id |-> id, wanted |-> wanted, staged |-> staged]

\* Mutant of AfterFailedLogin: the picker opens on what is in use.
AfterFailedLoginAfresh(u, update) ==
  LET unlocked == CloseOwn([u EXCEPT !.locked = FALSE, !.pending = ""], update.id)
  IN  IF update.staged # "" THEN WithPicker(unlocked, selectionInUse, TRUE) ELSE unlocked

\* The selection that was logged in for is offered again.
AfterFailedLogin(u, update) ==
  LET unlocked == CloseOwn([u EXCEPT !.locked = FALSE], update.id)
  IN  IF update.staged # "" THEN WithPicker(unlocked, update.staged, TRUE) ELSE unlocked

\* The picker's onClose closes what is open by now.
AfterUpdate(u, update, ok) ==
  CASE update.by = "picker" ->
         IF ok THEN Closed([u EXCEPT !.locked = FALSE])
         ELSE [u EXCEPT !.locked = FALSE, !.overlay.applying = @ /\ u.overlay.id # update.id]
    [] update.by = "login" ->
         IF ok THEN CloseOwn([u EXCEPT !.locked = FALSE, !.pending = ""], update.id)
         ELSE AfterFailedLogin(u, update)
    [] OTHER -> u

UpdateEnds(ok) ==
  LET next == AfterUpdate(ui, settingsUpdate, ok)
  IN  /\ settingsUpdate # NoUpdate
      /\ settingsUpdate' = NoUpdate
      /\ ui' = [next EXCEPT !.wants = IF ok /\ @ = settingsUpdate.wanted THEN "" ELSE @]
      /\ selectionInUse' = IF ok THEN settingsUpdate.wanted ELSE selectionInUse
      /\ UNCHANGED <<logins, statusAsked, loggedIn, turnPhase, leaving>>

-----------------------------------------------------------------------------
(* The picker.                                                             *)

\* start: the status of every provider is looked up; a failed lookup answers too.
Lookup(p, failed) ==
  /\ LegacyShowing("model") /\ ui.overlay.known[p] = "pending"
  /\ ui' = [ui EXCEPT !.overlay.known[p] =
              IF failed THEN "failed" ELSE IF p \in loggedIn THEN "configured" ELSE "required"]
  /\ UNCHANGED <<settingsUpdate, logins, statusAsked>> /\ KeepsSession

\* move, forward: another selection replaces what the user wanted.
Stage(p) ==
  /\ ~leaving /\ LegacyShowing("model") /\ ~ui.overlay.applying /\ ~ui.overlay.confirming
  /\ ui' = [ui EXCEPT !.overlay.staged = p, !.overlay.confirming = TRUE, !.wants = IF @ = p THEN p ELSE ""]
  /\ UNCHANGED <<settingsUpdate, logins, statusAsked>> /\ KeepsSession

Back ==
  /\ ~leaving /\ LegacyShowing("model") /\ ~ui.overlay.applying /\ ui.overlay.confirming
  /\ ui' = [ui EXCEPT !.overlay.confirming = FALSE]
  /\ UNCHANGED <<settingsUpdate, logins, statusAsked>> /\ KeepsSession

\* apply: without a status nothing happens, with one the selection is applied or logged in for.
ApplyStaged ==
  LET panel == ui.overlay
  IN  /\ ~leaving /\ LegacyShowing("model") /\ panel.confirming /\ ~panel.applying
      /\ \/ /\ panel.known[panel.staged] = "configured" /\ MayUpdate
            /\ ui' = [ui EXCEPT !.overlay.applying = TRUE, !.locked = TRUE]
            /\ Updating("picker", panel.id, panel.staged, "")
            /\ UNCHANGED logins
         \/ /\ panel.known[panel.staged] = "required" /\ ~Streaming /\ ui.shown < MaxOverlays
            /\ ui' = [WithLogin(ui, panel.staged) EXCEPT !.wants = panel.staged]
            /\ logins' = logins \union {[id |-> ui.shown + 1, provider |-> panel.staged, staged |-> panel.staged]}
            /\ UNCHANGED settingsUpdate
      /\ UNCHANGED statusAsked /\ KeepsSession

-----------------------------------------------------------------------------
(* The login.                                                              *)

LoginTo(p) ==
  /\ UserActs /\ LegacyShowing("selector")
  /\ ui' = WithLogin(ui, "")
  /\ logins' = logins \union {[id |-> ui.shown + 1, provider |-> p, staged |-> ""]}
  /\ UNCHANGED <<settingsUpdate, statusAsked>> /\ KeepsSession

\* A login whose overlay is gone changes who is logged in and nothing else.
LoginSucceeds(l) ==
  LET wanted == IF l.staged # "" THEN l.staged ELSE l.provider
      locked == [ui EXCEPT !.locked = TRUE]
  IN  /\ logins' = logins \ {l}
      /\ loggedIn' = loggedIn \union {l.provider}
      /\ \/ /\ ui.overlay.id # l.id
            /\ UNCHANGED <<ui, settingsUpdate>>
         \/ /\ ui.overlay.id = l.id /\ l.staged # "" /\ Streaming
            /\ ui' = WithPicker(Closed([ui EXCEPT !.pending = ""]), l.staged, TRUE)
            /\ UNCHANGED settingsUpdate
         \/ /\ ui.overlay.id = l.id /\ ~(l.staged # "" /\ Streaming)
            /\ IF l.staged = "" /\ l.provider = selectionInUse
               THEN ui' = AfterUpdate(ui, [NoUpdate EXCEPT !.by = "login", !.id = l.id], TRUE) /\ UNCHANGED settingsUpdate
               ELSE IF MayUpdate THEN ui' = locked /\ Updating("login", l.id, wanted, l.staged)
               ELSE /\ ui' = AfterFailedLogin(ui, [NoUpdate EXCEPT !.id = l.id, !.staged = l.staged])
                    /\ UNCHANGED settingsUpdate
      /\ UNCHANGED <<statusAsked, selectionInUse, turnPhase, leaving>>

\* The overlay shows the error and waits for Esc.
LoginFails(l) ==
  /\ logins' = logins \ {l}
  /\ UNCHANGED <<ui, settingsUpdate, statusAsked>> /\ KeepsSession

\* Esc or Ctrl+C aborts the login and returns to the selection, also while that is being applied.
CancelLogin ==
  /\ ~leaving /\ LegacyShowing("auth")
  /\ LET back == Closed([ui EXCEPT !.pending = ""])
     IN  ui' = IF ui.overlay.staged # "" THEN WithPicker(back, ui.overlay.staged, TRUE) ELSE back
  /\ logins' = {l \in logins : l.id # ui.overlay.id}
  /\ UNCHANGED <<settingsUpdate, statusAsked>> /\ KeepsSession

-----------------------------------------------------------------------------
(* Commands, turns and the end.                                            *)

\* /model with a selection asks for the status first; anything may happen until it is answered.
AskStatus(p) ==
  /\ UserActs /\ LegacyShowing("none") /\ statusAsked = {}
  /\ statusAsked' = {p}
  /\ UNCHANGED <<ui, settingsUpdate, logins>> /\ KeepsSession

StatusAnswers(p) ==
  /\ p \in statusAsked /\ statusAsked' = {}
  /\ \/ Streaming /\ UNCHANGED <<ui, settingsUpdate, logins>>
     \/ /\ ~Streaming /\ p \notin loggedIn
        /\ ui' = [WithLogin(ui, p) EXCEPT !.wants = p]
        /\ logins' = logins \union {[id |-> ui.shown + 1, provider |-> p, staged |-> p]}
        /\ UNCHANGED settingsUpdate
     \/ /\ p \in loggedIn /\ MayUpdate
        /\ Updating("command", 0, p, "") /\ UNCHANGED <<ui, logins>>
     \/ /\ p \in loggedIn /\ ~MayUpdate /\ UNCHANGED <<ui, settingsUpdate, logins>>
  /\ KeepsSession

LegacyLogout(p) ==
  /\ UserActs /\ LegacyShowing("none") /\ ~Streaming /\ p \in loggedIn
  /\ loggedIn' = loggedIn \ {p}
  /\ UNCHANGED <<ui, settingsUpdate, logins, statusAsked, selectionInUse, turnPhase, leaving>>

\* onSubmit: the runtime takes one task at a time and emits only when it is recorded.
SubmitTurn ==
  /\ ~leaving /\ LegacyShowing("none") /\ turnPhase = "none" /\ settingsUpdate = NoUpdate
  /\ turnPhase' = "recording"
  /\ UNCHANGED <<ui, settingsUpdate, logins, statusAsked, selectionInUse, loggedIn, leaving>>

TurnEmitted ==
  /\ \/ turnPhase = "recording" /\ turnPhase' = "seen"
     \/ turnPhase = "seen" /\ turnPhase' = "none"
  /\ UNCHANGED <<ui, settingsUpdate, logins, statusAsked, selectionInUse, loggedIn, leaving>>

\* Ctrl+D is passed to a login, and refused while a change is applied.
LegacyShutdown ==
  /\ ~leaving /\ ~LegacyShowing("auth") /\ ~ui.locked
  /\ leaving' = TRUE
  /\ UNCHANGED <<ui, settingsUpdate, logins, statusAsked, selectionInUse, loggedIn, turnPhase>>

-----------------------------------------------------------------------------
LegacyInit ==
  /\ ui = [overlay |-> NoLegacyOverlay, shown |-> 0, locked |-> FALSE, pending |-> "", wants |-> ""]
  /\ settingsUpdate = NoUpdate /\ logins = {} /\ statusAsked = {}
  /\ selectionInUse \in LegacyProviders /\ loggedIn \in SUBSET LegacyProviders
  /\ turnPhase = "none" /\ leaving = FALSE

LegacyStep ==
  \/ OpenModel \/ Dismiss \/ Back \/ ApplyStaged \/ CancelLogin \/ SubmitTurn \/ TurnEmitted \/ LegacyShutdown
  \/ \E kind \in {"selector", "panel"} : OpenAnother(kind)
  \/ \E ok \in BOOLEAN : UpdateEnds(ok)
  \/ \E p \in LegacyProviders :
       \/ \E failed \in BOOLEAN : Lookup(p, failed)
       \/ Stage(p) \/ LoginTo(p) \/ AskStatus(p) \/ LegacyLogout(p)
  \/ \E l \in logins : LoginSucceeds(l) \/ LoginFails(l)

LegacyNext ==
  \/ (PromptStatus => statusAsked = {}) /\ LegacyStep
  \/ \E p \in LegacyProviders : StatusAnswers(p)

LegacySpec == LegacyInit /\ [][LegacyNext]_legacyVars

-----------------------------------------------------------------------------
\* The variables have their types; the login that may still change an overlay's fate is its own.
LegacyTypeOK ==
  /\ ui.pending \in LegacyProviders \union {""} /\ selectionInUse \in LegacyProviders
  /\ settingsUpdate.by \in {"none", "picker", "login", "command"} /\ loggedIn \subseteq LegacyProviders
  /\ \A l, k \in logins : l.id = k.id => l = k

\* A selection the user went to a login for is not forgotten on the way: until it is applied, given
\* up or replaced, it is pending, on the screen or being applied.
WantedSelectionKept ==
  ui.wants # "" =>
    \/ ui.pending = ui.wants
    \/ ui.overlay.kind \in {"model", "auth"} /\ ui.overlay.staged = ui.wants
    \/ settingsUpdate.wanted = ui.wants
=============================================================================
