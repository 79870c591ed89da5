----------------------------- MODULE ModelSettings -----------------------------
(***************************************************************************)
(* The choice of a model, from the command to the settings file that the   *)
(* processes of one user share (settings-store.ts, app.ts, configureModel  *)
(* of project-workbench.ts, router-service.ts).  A choice is compared and  *)
(* swapped under a lock directory.  A workbench then takes it over; a      *)
(* router hands it to its session, takes the file back where the session   *)
(* refuses it, and reads the file again where another process was faster.  *)
(***************************************************************************)
EXTENDS Integers, FiniteSets, FiniteSetsExt

CONSTANTS
  SettingsClients, Selections, ClientKinds,
  MaxChoices,            \* bound on choices, over all clients
  MaxSettingsCrashes     \* bound on crashes

ASSUME SettingsAssumption ==
  /\ ClientKinds \subseteq {"workbench", "router"}
  /\ MaxChoices \in Nat /\ MaxSettingsCrashes \in Nat

VARIABLES
  clientKind,      \* which of the two programs shares the file
  settingsFile,    \* the selection in settings.json
  settingsLock,    \* the lock directory
  clients,         \* each process and the operation it is in
  unprotected,     \* history: the operations under the lock that others do not keep out of
  choices,         \* choices made
  settingsCrashes  \* crashes

settingsVars == <<clientKind, settingsFile, settingsLock, clients, unprotected, choices, settingsCrashes>>

NoLock == [there |-> FALSE, orphan |-> FALSE, old |-> FALSE]
HeldLock == [NoLock EXCEPT !.there = TRUE]

\* known: persistedSettings of the app, current of the router.
\* inForce: selectedModel of the workbench, the selection of the router's session.
Idle(selection) ==
  [phase |-> "idle", undoing |-> FALSE, expected |-> selection, wanted |-> selection, saved |-> FALSE,
   known |-> selection, inForce |-> selection]

To(c, next) == clients' = [clients EXCEPT ![c] = next]
In(c, phase) == clients[c].phase = phase
Phase(c, phase) == To(c, [clients[c] EXCEPT !.phase = phase])
UnderLock(c) == clients[c].phase \in {"loading", "writing", "unlocking"}
KeepsFile == UNCHANGED <<clientKind, settingsFile, settingsLock, unprotected, choices, settingsCrashes>>

-----------------------------------------------------------------------------
(* A choice.                                                               *)

\* configureModel and update: a choice of what is in force already is answered at once by the
\* workbench; a router compares and swaps all the same.
Choose(c, selection) ==
  /\ In(c, "idle") /\ choices < MaxChoices
  /\ clientKind = "workbench" => selection # clients[c].inForce
  /\ To(c, [clients[c] EXCEPT !.phase = "waiting", !.undoing = FALSE,
                              !.expected = clients[c].known, !.wanted = selection])
  /\ choices' = choices + 1
  /\ UNCHANGED <<clientKind, settingsFile, settingsLock, unprotected, settingsCrashes>>

-----------------------------------------------------------------------------
(* compareAndSwap under withLock.                                          *)

\* Mutant of MayEnter: no mkdir decides.
MayEnterAnyway(c) == TRUE
MayEnter(c) == ~settingsLock.there

TakeSettingsLock(c) ==
  /\ In(c, "waiting") /\ MayEnter(c)
  /\ settingsLock' = HeldLock
  /\ Phase(c, "loading")
  /\ unprotected' = IF \E d \in unprotected : UnderLock(d) THEN unprotected \union {c} ELSE unprotected
  /\ UNCHANGED <<clientKind, settingsFile, choices, settingsCrashes>>

\* An operation under the lock is over within STALE_LOCK_MS: only a crash leaves an old lock.
LockGrowsOld ==
  /\ settingsLock.orphan /\ ~settingsLock.old
  /\ settingsLock' = [settingsLock EXCEPT !.old = TRUE]
  /\ UNCHANGED <<clientKind, settingsFile, clients, unprotected, choices, settingsCrashes>>

SeeOldLock(c) ==
  /\ In(c, "waiting") /\ settingsLock.old
  /\ Phase(c, "removing") /\ KeepsFile

\* rm removes whatever lock is there by now: where two processes have seen the old lock, the second
\* removes the one that the first has taken since, and the first goes on without it.
RemoveOldLock(c) ==
  /\ In(c, "removing")
  /\ settingsLock' = NoLock
  /\ Phase(c, "waiting")
  /\ unprotected' = unprotected \union {d \in SettingsClients : UnderLock(d)}
  /\ UNCHANGED <<clientKind, settingsFile, choices, settingsCrashes>>

\* LOCK_WAIT_MS is over: compareAndSwap throws.
GiveUpOnLock(c) ==
  /\ In(c, "waiting") /\ settingsLock.there /\ ~settingsLock.old
  /\ Phase(c, "idle") /\ KeepsFile

CompareSettings(c) ==
  LET same == settingsFile = clients[c].expected
  IN  /\ In(c, "loading")
      /\ To(c, [clients[c] EXCEPT !.phase = IF same THEN "writing" ELSE "unlocking", !.saved = FALSE])
      /\ KeepsFile

WriteSettings(c) ==
  /\ In(c, "writing")
  /\ settingsFile' = clients[c].wanted
  /\ To(c, [clients[c] EXCEPT !.phase = "unlocking", !.saved = TRUE])
  /\ UNCHANGED <<clientKind, settingsLock, unprotected, choices, settingsCrashes>>

\* A temporary file that cannot be written or renamed is removed; the operation throws.
WriteFails(c) ==
  /\ In(c, "writing")
  /\ settingsLock' = NoLock
  /\ Phase(c, "idle")
  /\ unprotected' = unprotected \ {c}
  /\ UNCHANGED <<clientKind, settingsFile, choices, settingsCrashes>>

-----------------------------------------------------------------------------
(* What the outcome means to the client.                                   *)

\* A refused workbench rejects the command and keeps what it knew.
WorkbenchTakes(c) ==
  LET client == clients[c]
  IN  IF client.saved THEN [client EXCEPT !.phase = "idle", !.known = client.wanted, !.inForce = client.wanted]
      ELSE [client EXCEPT !.phase = "idle"]

\* A saved choice goes to the session, a saved rollback ends the update, a refusal reads the file.
RouterTakes(c) ==
  [clients[c] EXCEPT !.phase = IF ~clients[c].saved THEN "observing"
                               ELSE IF clients[c].undoing THEN "idle" ELSE "applying"]

Unlock(c) ==
  /\ In(c, "unlocking")
  /\ settingsLock' = NoLock
  /\ To(c, IF clientKind = "workbench" THEN WorkbenchTakes(c) ELSE RouterTakes(c))
  /\ unprotected' = unprotected \ {c}
  /\ UNCHANGED <<clientKind, settingsFile, choices, settingsCrashes>>

\* synchronizeObservedSettings: load, then the session.
ObserveSettings(c) ==
  /\ In(c, "observing")
  /\ To(c, [clients[c] EXCEPT !.phase = "synchronizing", !.wanted = settingsFile])
  /\ KeepsFile

SessionTakes(c) ==
  /\ clients[c].phase \in {"applying", "synchronizing"}
  /\ To(c, [clients[c] EXCEPT !.phase = "idle", !.known = clients[c].wanted, !.inForce = clients[c].wanted])
  /\ KeepsFile

\* The session refuses (closed, authentication, journal): a choice is taken back from the file.
SessionRefuses(c) ==
  /\ \/ In(c, "synchronizing") /\ Phase(c, "idle")
     \/ /\ In(c, "applying")
        /\ To(c, [clients[c] EXCEPT !.phase = "waiting", !.undoing = TRUE,
                                    !.expected = clients[c].wanted, !.wanted = clients[c].known])
  /\ KeepsFile

-----------------------------------------------------------------------------
(* Crashes.                                                                *)

\* The lock of a process that crashed is left; where another is under the lock too, that one removes it.
SettingsCrash(c) ==
  /\ ~In(c, "gone") /\ settingsCrashes < MaxSettingsCrashes
  /\ Phase(c, "gone")
  /\ settingsLock' = IF UnderLock(c) /\ settingsLock.there /\ \A d \in SettingsClients \ {c} : ~UnderLock(d)
                     THEN [settingsLock EXCEPT !.orphan = TRUE] ELSE settingsLock
  /\ unprotected' = unprotected \ {c}
  /\ settingsCrashes' = settingsCrashes + 1
  /\ UNCHANGED <<clientKind, settingsFile, choices>>

\* runApp loads the file.
SettingsRestart(c) == In(c, "gone") /\ To(c, Idle(settingsFile)) /\ KeepsFile

-----------------------------------------------------------------------------
SettingsInit ==
  /\ clientKind \in ClientKinds
  /\ settingsFile \in Selections /\ settingsLock = NoLock
  /\ clients = [c \in SettingsClients |-> Idle(settingsFile)]
  /\ unprotected = {} /\ choices = 0 /\ settingsCrashes = 0

SettingsNext ==
  \/ LockGrowsOld
  \/ \E c \in SettingsClients :
       \/ \E selection \in Selections : Choose(c, selection)
       \/ TakeSettingsLock(c) \/ SeeOldLock(c) \/ RemoveOldLock(c) \/ GiveUpOnLock(c)
       \/ CompareSettings(c) \/ WriteSettings(c) \/ WriteFails(c) \/ Unlock(c)
       \/ ObserveSettings(c) \/ SessionTakes(c) \/ SessionRefuses(c)
       \/ SettingsCrash(c) \/ SettingsRestart(c)

SettingsSpec == SettingsInit /\ [][SettingsNext]_settingsVars

-----------------------------------------------------------------------------
\* The variables have their types, and between operations what a process believes saved is what it uses.
SettingsTypeOK ==
  /\ settingsFile \in Selections /\ settingsLock \in [there : BOOLEAN, orphan : BOOLEAN, old : BOOLEAN]
  /\ \A c \in SettingsClients :
       /\ clients[c].known \in Selections /\ clients[c].inForce \in Selections
       /\ In(c, "idle") => clients[c].known = clients[c].inForce

\* What a process replaces is what it believed to be there: no choice of another process is
\* overwritten unseen (compareAndSwap under withLock, settings-store.ts).  The exception is an operation
\* whose lock was removed as an old one by a process that had seen it (line 85), and one that has
\* entered beside such an operation: these overwrite what they have not seen.
NoChoiceOverwritten ==
  \A c \in SettingsClients \ unprotected : In(c, "writing") => settingsFile = clients[c].expected
=============================================================================
