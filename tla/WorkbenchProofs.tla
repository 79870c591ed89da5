-------------------------- MODULE WorkbenchProofs ---------------------------
(***************************************************************************)
(* Proofs about what a workbench sends, chooses and tells: the evidence    *)
(* sent with a message (WooEntry), the choice of a model (ModelSettings),  *)
(* the flow of steps with its narrations and its mirror (Narrations), the  *)
(* reviews it asks other providers for (Reviews), and the usage of the     *)
(* accounts it is logged in to (UsageReports).                             *)
(***************************************************************************)
EXTENDS WooEntry, ModelSettings, Narrations, Reviews, UsageReports, FiniteSetTheorems, SequenceTheorems, TLAPS

-----------------------------------------------------------------------------
(* The evidence of a message.                                              *)

EntryRuns ==
  [exit : {"none", "zero", "other"}, timedOut : BOOLEAN, overflow : BOOLEAN, open : BOOLEAN]

\* The variables have their types, fields included.
WooTypes ==
  /\ entry \in [state : {"loading", "ready", "blocked"}, revision : Nat, evidence : Evidence]
  /\ entry.revision <= MaxWooRefreshes
  /\ entryPhase \in {"idle", "config", "runner", "running"}
  /\ entryPhase # "idle" => entry.revision < MaxWooRefreshes
  /\ entryRun \in EntryRuns /\ found \in Evidence
  /\ lastCollection \in [evidence : Evidence, run : EntryRuns]
  /\ entryReceipt \in {"none", "waiting", "accepted", "rejected"}
  /\ entryPhase # "running" => entryRun = NoEntryRun

\* The evidence that is in use is within the collector's budget.
EvidenceChecked == entry.state = "ready" => WithinBudget(entry.evidence.payload)

EvidenceCollected ==
  /\ entry.evidence = lastCollection.evidence
  /\ entry.state = "ready" =>
       /\ lastCollection.run.exit = "zero" /\ ~lastCollection.run.timedOut /\ ~lastCollection.run.overflow

WooInv == WooTypes /\ EvidenceChecked /\ EvidenceCollected

\* The invariant of the Woo entry holds always.
LEMMA WooInductive == WooSpec => []WooInv
<1>. USE WooAssumption
<1>. USE DEF Evidence, EntryRuns, NoEvidence, NoEntryRun
<1>1. WooInit => WooInv
  BY DEF WooInit, WooInv, WooTypes, EvidenceChecked, EvidenceCollected
<1>2. WooInv /\ [WooNext]_wooVars => WooInv'
  <2>. SUFFICES ASSUME WooInv, [WooNext]_wooVars PROVE WooInv'
    OBVIOUS
  <2>. USE DEF WooInv, WooTypes, EvidenceChecked, EvidenceCollected, EntrySettled
  <2>0. ASSUME RefreshFails, entryPhase # "idle" PROVE WooInv'
    BY <2>0 DEF RefreshFails, BlockedSnapshot
  <2>1. CASE RefreshEntry
    BY <2>1 DEF RefreshEntry
  <2>2. CASE ConfigurationRead
    BY <2>0, <2>2 DEF ConfigurationRead
  <2>3. CASE RunnerStarted
    BY <2>0, <2>3 DEF RunnerStarted
  <2>4. CASE EntryTimesOut \/ EntryOverflows \/ EntryExits \/ EntryStreamsEnd
    <3>0. ASSUME NEW run \in EntryRuns, RunEvent(run) PROVE WooInv'
      <4>1. entryPhase = "running" /\ entryRun' = run
            /\ UNCHANGED <<entry, entryPhase, found, entryReceipt, lastCollection>>
        BY <3>0 DEF RunEvent
      <4> QED
        BY <3>0, <4>1
    <3>5. /\ entryRun.exit \in {"none", "zero", "other"}
          /\ entryRun.timedOut \in BOOLEAN /\ entryRun.overflow \in BOOLEAN /\ entryRun.open \in BOOLEAN
      OBVIOUS
    <3>1. CASE EntryTimesOut
      <4>1. [entryRun EXCEPT !.timedOut = TRUE] \in EntryRuns
        OBVIOUS
      <4> QED
        BY <3>0, <3>1, <4>1 DEF EntryTimesOut
    <3>2. CASE EntryOverflows
      <4>1. [entryRun EXCEPT !.overflow = TRUE, !.open = FALSE] \in EntryRuns
        OBVIOUS
      <4> QED
        BY <3>0, <3>2, <4>1 DEF EntryOverflows
    <3>3. CASE EntryExits
      <4>1. \A code \in {"zero", "other"} : [entryRun EXCEPT !.exit = code] \in EntryRuns
        OBVIOUS
      <4> QED
        BY <3>0, <3>3, <4>1 DEF EntryExits
    <3>4. CASE EntryStreamsEnd
      <4>1. [entryRun EXCEPT !.open = FALSE] \in EntryRuns
        OBVIOUS
      <4> QED
        BY <3>0, <3>4, <4>1 DEF EntryStreamsEnd
    <3> QED
      BY <2>4, <3>1, <3>2, <3>3, <3>4
  <2>5. CASE EntryRunEnds
    <3>1. CASE RefreshFails
      BY <2>0, <2>5, <3>1 DEF EntryRunEnds
    <3>2. ASSUME NEW payload \in PayloadLengths, RunSucceeded, WithinBudget(payload),
                 NEW evidence, evidence = [found EXCEPT !.payload = payload],
                 lastCollection' = [evidence |-> evidence, run |-> entryRun],
                 EntrySettled([state |-> "ready", revision |-> entry.revision + 1, evidence |-> evidence])
          PROVE  WooInv'
      <4>1. evidence \in Evidence
        BY <3>2
      <4>2. entry' = [state |-> "ready", revision |-> entry.revision + 1, evidence |-> evidence]
        BY <3>2
      <4>3. WithinBudget(evidence.payload)
        BY <2>5, <3>2
      <4>4. WooTypes'
        BY <2>5, <3>2, <4>1, <4>2 DEF EntryRunEnds
      <4>5. EvidenceChecked' /\ EvidenceCollected'
        BY <3>2, <4>2, <4>3 DEF RunSucceeded
      <4>. QED
        BY <4>4, <4>5
    <3>. QED
      BY <2>5, <3>1, <3>2 DEF EntryRunEnds
  <2>6. CASE UNCHANGED wooVars
    BY <2>6 DEF wooVars
  <2>. QED
    BY <2>1, <2>2, <2>3, <2>4, <2>5, <2>6 DEF WooNext
<1>. QED
  BY <1>1, <1>2, PTL DEF WooSpec

\* EvidenceFitsTheTurn for every length of payloads and paths and every number of refreshes: what a
\* turn carries is what a process that ended well has printed, and a message with it can be composed
\* unless the paths are too long (refreshNow, WesEntryCollector.collect, ContextComposer.compose).
THEOREM EvidenceAlwaysFits == WooSpec => []EvidenceFitsTheTurn
<1>1. ASSUME WooInv PROVE EvidenceFitsTheTurn
  <2>1. ASSUME NEW cwd \in CwdLengths PROVE MayCompose(entry, cwd) \/ PathsTooLong(entry, cwd)
    BY <1>1, <2>1, WooAssumption
    DEF WooInv, WooTypes, EvidenceChecked, Evidence, WithinBudget, Measured,
        MayCompose, Composed, Digits, PathsTooLong
  <2>. QED
    BY <1>1, <2>1 DEF WooInv, EvidenceCollected, EvidenceFitsTheTurn
<1>. QED
  BY <1>1, WooInductive, PTL

-----------------------------------------------------------------------------
(* The choice of a model.                                                  *)

ClientPhases ==
  {"idle", "waiting", "removing", "loading", "writing", "unlocking", "observing",
   "synchronizing", "applying", "gone"}
Clients ==
  [phase : ClientPhases, undoing : BOOLEAN, expected : Selections, wanted : Selections,
   saved : BOOLEAN, known : Selections, inForce : Selections]
Locks == [there : BOOLEAN, orphan : BOOLEAN, old : BOOLEAN]

SettingsTypes ==
  /\ settingsFile \in Selections /\ settingsLock \in Locks
  /\ clients \in [SettingsClients -> Clients]

\* Who is under the lock is there alone, and has a lock nobody takes for left behind, except for an
\* operation that is known to be unprotected.
LockHeld ==
  /\ settingsLock.old => settingsLock.orphan
  /\ settingsLock.orphan => settingsLock.there
  /\ \A c \in SettingsClients \ unprotected : UnderLock(c) =>
       /\ settingsLock.there /\ ~settingsLock.orphan
       /\ \A d \in SettingsClients : UnderLock(d) => d = c

SettingsInv == SettingsTypes /\ LockHeld /\ NoChoiceOverwritten

\* A client that does not come under the lock disturbs nobody.
LEMMA ClientMoves ==
  ASSUME SettingsInv, NEW c \in SettingsClients, NEW next \in Clients, To(c, next),
         UNCHANGED <<settingsFile, settingsLock>>,
         unprotected' = unprotected \/ (unprotected' = unprotected \ {c} /\ next.phase = "gone"),
         next.phase # "loading",
         next.phase \in {"writing", "unlocking"} => UnderLock(c),
         next.phase = "writing" => settingsFile = next.expected
  PROVE  SettingsInv'
<1>1. clients \in [SettingsClients -> Clients] /\ clients' = [clients EXCEPT ![c] = next]
  BY DEF SettingsInv, SettingsTypes, To
<1>2. SettingsTypes'
  BY <1>1 DEF SettingsInv, SettingsTypes
<1>3. LockHeld' /\ NoChoiceOverwritten'
  BY <1>1 DEF SettingsInv, LockHeld, UnderLock, NoChoiceOverwritten, In
<1>. QED
  BY <1>2, <1>3 DEF SettingsInv

\* Who leaves the lock removes it, or leaves it behind.
LEMMA ClientLeavesLock ==
  ASSUME SettingsInv, NEW c \in SettingsClients, NEW next \in Clients, To(c, next),
         UnderLock(c), next.phase \notin {"loading", "writing", "unlocking"},
         UNCHANGED settingsFile, unprotected' = unprotected \ {c},
         \/ settingsLock' \in {NoLock, settingsLock}
         \/ settingsLock.there /\ settingsLock' = [settingsLock EXCEPT !.orphan = TRUE]
  PROVE  SettingsInv'
<1>1. clients \in [SettingsClients -> Clients] /\ clients' = [clients EXCEPT ![c] = next]
  BY DEF SettingsInv, SettingsTypes, To
<1>2. settingsLock' \in Locks /\ (settingsLock'.old => settingsLock'.orphan) /\ (settingsLock'.orphan => settingsLock'.there)
  <2>1. settingsLock \in Locks /\ (settingsLock.old => settingsLock.orphan) /\ (settingsLock.orphan => settingsLock.there)
    BY DEF SettingsInv, SettingsTypes, LockHeld
  <2>2. CASE settingsLock' = NoLock
    BY <2>2 DEF NoLock, Locks
  <2>3. CASE settingsLock' = settingsLock
    BY <2>1, <2>3
  <2>4. CASE settingsLock.there /\ settingsLock' = [settingsLock EXCEPT !.orphan = TRUE]
    BY <2>1, <2>4 DEF Locks
  <2>. QED
    BY <2>2, <2>3, <2>4
<1>3. SettingsTypes'
  BY <1>1, <1>2 DEF SettingsInv, SettingsTypes
<1>4. LockHeld' /\ NoChoiceOverwritten'
  BY <1>1, <1>2 DEF SettingsInv, LockHeld, UnderLock, NoChoiceOverwritten, In
<1>. QED
  BY <1>3, <1>4 DEF SettingsInv

\* The invariant of the settings holds always.
LEMMA SettingsInductive == SettingsSpec => []SettingsInv
<1>1. SettingsInit => SettingsInv
  BY DEF SettingsInit, Idle, NoLock, SettingsInv, SettingsTypes, Clients, ClientPhases, Locks,
         LockHeld, UnderLock, NoChoiceOverwritten, In
<1>2. SettingsInv /\ [SettingsNext]_settingsVars => SettingsInv'
  <2>. SUFFICES ASSUME SettingsInv, [SettingsNext]_settingsVars PROVE SettingsInv'
    OBVIOUS
  <2>0. ASSUME NEW c \in SettingsClients PROVE clients[c] \in Clients /\ settingsFile \in Selections
    BY DEF SettingsInv, SettingsTypes
  <2>1. CASE LockGrowsOld
    BY <2>1 DEF LockGrowsOld, SettingsInv, SettingsTypes, Locks, LockHeld, UnderLock,
       NoChoiceOverwritten, In
  <2>2. ASSUME NEW c \in SettingsClients, NEW selection \in Selections, Choose(c, selection)
        PROVE  SettingsInv'
    <3>. DEFINE next == [clients[c] EXCEPT !.phase = "waiting", !.undoing = FALSE,
                           !.expected = clients[c].known, !.wanted = selection]
    <3>1. next \in Clients /\ next.phase = "waiting"
      BY <2>0 DEF Clients, ClientPhases
    <3>2. To(c, next) /\ UNCHANGED <<settingsFile, settingsLock, unprotected>>
      BY <2>2 DEF Choose
    <3>. HIDE DEF next
    <3>. QED
      BY <3>1, <3>2, ClientMoves
  <2>3. ASSUME NEW c \in SettingsClients, TakeSettingsLock(c) PROVE SettingsInv'
    <3>. DEFINE next == [clients[c] EXCEPT !.phase = "loading"]
    <3>1. next \in Clients /\ next.phase = "loading"
      BY <2>0 DEF Clients, ClientPhases
    <3>2. /\ clients' = [clients EXCEPT ![c] = next] /\ UNCHANGED settingsFile
          /\ settingsLock' = HeldLock /\ ~settingsLock.there
          /\ unprotected' = IF \E d \in unprotected : UnderLock(d) THEN unprotected \union {c} ELSE unprotected
      BY <2>3 DEF TakeSettingsLock, MayEnter, Phase, To
    <3>. HIDE DEF next
    <3>3. HeldLock \in Locks /\ HeldLock.there /\ ~HeldLock.orphan /\ ~HeldLock.old
      BY DEF HeldLock, NoLock, Locks
    <3>4. SettingsTypes'
      BY <3>1, <3>2, <3>3 DEF SettingsInv, SettingsTypes
    <3>5. \A d \in SettingsClients : UnderLock(d) => d \in unprotected
      BY <3>2 DEF SettingsInv, LockHeld
    <3>6. LockHeld' /\ NoChoiceOverwritten'
      BY <3>1, <3>2, <3>3, <3>5 DEF SettingsInv, SettingsTypes, LockHeld, UnderLock, NoChoiceOverwritten, In
    <3>. QED
      BY <3>4, <3>6 DEF SettingsInv
  <2>4. ASSUME NEW c \in SettingsClients, SeeOldLock(c) PROVE SettingsInv'
    <3>. DEFINE next == [clients[c] EXCEPT !.phase = "removing"]
    <3>1. next \in Clients /\ next.phase = "removing"
      BY <2>0 DEF Clients, ClientPhases
    <3>2. To(c, next) /\ UNCHANGED <<settingsFile, settingsLock, unprotected>>
      BY <2>4 DEF SeeOldLock, Phase, KeepsFile
    <3>. HIDE DEF next
    <3>. QED
      BY <3>1, <3>2, ClientMoves
  <2>5. ASSUME NEW c \in SettingsClients, RemoveOldLock(c) PROVE SettingsInv'
    <3>. DEFINE next == [clients[c] EXCEPT !.phase = "waiting"]
    <3>1. next \in Clients /\ next.phase = "waiting"
      BY <2>0 DEF Clients, ClientPhases
    <3>2. /\ clients' = [clients EXCEPT ![c] = next] /\ UNCHANGED settingsFile
          /\ settingsLock' = NoLock /\ unprotected' = unprotected \union {d \in SettingsClients : UnderLock(d)}
      BY <2>5 DEF RemoveOldLock, Phase, To
    <3>. HIDE DEF next
    <3>3. NoLock \in Locks /\ ~NoLock.there /\ ~NoLock.orphan /\ ~NoLock.old
      BY DEF NoLock, Locks
    <3>4. SettingsTypes'
      BY <3>1, <3>2, <3>3 DEF SettingsInv, SettingsTypes
    <3>5. LockHeld' /\ NoChoiceOverwritten'
      BY <3>1, <3>2, <3>3 DEF SettingsInv, SettingsTypes, LockHeld, UnderLock, NoChoiceOverwritten, In
    <3>. QED
      BY <3>4, <3>5 DEF SettingsInv
  <2>6. ASSUME NEW c \in SettingsClients, GiveUpOnLock(c) PROVE SettingsInv'
    <3>1. [clients[c] EXCEPT !.phase = "idle"] \in Clients /\ [clients[c] EXCEPT !.phase = "idle"].phase = "idle"
      BY <2>0 DEF Clients, ClientPhases
    <3>2. To(c, [clients[c] EXCEPT !.phase = "idle"]) /\ UNCHANGED <<settingsFile, settingsLock, unprotected>>
      BY <2>6 DEF GiveUpOnLock, Phase, KeepsFile
    <3>. QED
      BY <3>1, <3>2, ClientMoves
  <2>7. ASSUME NEW c \in SettingsClients, CompareSettings(c) PROVE SettingsInv'
    <3>. DEFINE same == settingsFile = clients[c].expected
                next == [clients[c] EXCEPT !.phase = IF same THEN "writing" ELSE "unlocking", !.saved = FALSE]
    <3>1. next \in Clients /\ next.phase = (IF same THEN "writing" ELSE "unlocking")
          /\ next.expected = clients[c].expected
      BY <2>0 DEF Clients, ClientPhases
    <3>2. To(c, next) /\ UNCHANGED <<settingsFile, settingsLock, unprotected>> /\ UnderLock(c)
      BY <2>7 DEF CompareSettings, KeepsFile, In, UnderLock
    <3>. HIDE DEF next
    <3>. QED
      BY <3>1, <3>2, ClientMoves
  <2>8. ASSUME NEW c \in SettingsClients, WriteSettings(c) PROVE SettingsInv'
    <3>. DEFINE next == [clients[c] EXCEPT !.phase = "unlocking", !.saved = TRUE]
    <3>1. next \in Clients /\ next.phase = "unlocking" /\ clients[c].wanted \in Selections
      BY <2>0 DEF Clients, ClientPhases
    <3>2. /\ clients' = [clients EXCEPT ![c] = next] /\ settingsFile' = clients[c].wanted
          /\ UNCHANGED <<settingsLock, unprotected>> /\ UnderLock(c)
      BY <2>8 DEF WriteSettings, To, In, UnderLock
    <3>. HIDE DEF next
    <3>3. SettingsTypes'
      BY <3>1, <3>2 DEF SettingsInv, SettingsTypes
    <3>4. LockHeld' /\ NoChoiceOverwritten'
      BY <3>1, <3>2 DEF SettingsInv, SettingsTypes, LockHeld, UnderLock, NoChoiceOverwritten, In
    <3>. QED
      BY <3>3, <3>4 DEF SettingsInv
  <2>9. ASSUME NEW c \in SettingsClients, WriteFails(c) PROVE SettingsInv'
    <3>1. [clients[c] EXCEPT !.phase = "idle"] \in Clients /\ [clients[c] EXCEPT !.phase = "idle"].phase = "idle"
      BY <2>0 DEF Clients, ClientPhases
    <3>2. /\ To(c, [clients[c] EXCEPT !.phase = "idle"]) /\ UnderLock(c)
          /\ UNCHANGED settingsFile /\ settingsLock' = NoLock /\ unprotected' = unprotected \ {c}
      BY <2>9 DEF WriteFails, Phase, In, UnderLock
    <3>. QED
      BY <3>1, <3>2, ClientLeavesLock
  <2>10. ASSUME NEW c \in SettingsClients, Unlock(c) PROVE SettingsInv'
    <3>1. PICK next \in {WorkbenchTakes(c), RouterTakes(c)} : To(c, next)
      BY <2>10 DEF Unlock
    <3>2. UnderLock(c) /\ UNCHANGED settingsFile /\ settingsLock' = NoLock /\ unprotected' = unprotected \ {c}
      BY <2>10 DEF Unlock, In, UnderLock
    <3>3. next \in Clients /\ next.phase \in {"idle", "observing", "applying"}
      BY <2>0, <3>1 DEF WorkbenchTakes, RouterTakes, Clients, ClientPhases
    <3>. QED
      BY <3>1, <3>2, <3>3, ClientLeavesLock
  <2>11. ASSUME NEW c \in SettingsClients, ObserveSettings(c) \/ SessionTakes(c) PROVE SettingsInv'
    <3>1. PICK next \in {[clients[c] EXCEPT !.phase = "synchronizing", !.wanted = settingsFile],
                         [clients[c] EXCEPT !.phase = "idle", !.known = clients[c].wanted, !.inForce = clients[c].wanted]} :
            To(c, next) /\ UNCHANGED <<settingsFile, settingsLock, unprotected>>
      BY <2>11 DEF ObserveSettings, SessionTakes, KeepsFile
    <3>2. next \in Clients /\ next.phase \in {"synchronizing", "idle"}
      BY <2>0, <3>1 DEF Clients, ClientPhases
    <3>. QED
      BY <3>1, <3>2, ClientMoves
  <2>12. ASSUME NEW c \in SettingsClients, SessionRefuses(c) PROVE SettingsInv'
    <3>1. PICK next \in {[clients[c] EXCEPT !.phase = "idle"],
                         [clients[c] EXCEPT !.phase = "waiting", !.undoing = TRUE,
                                    !.expected = clients[c].wanted, !.wanted = clients[c].known]} :
            To(c, next) /\ UNCHANGED <<settingsFile, settingsLock, unprotected>>
      BY <2>12 DEF SessionRefuses, Phase, KeepsFile
    <3>2. next \in Clients /\ next.phase \in {"waiting", "idle"}
      BY <2>0, <3>1 DEF Clients, ClientPhases
    <3>. QED
      BY <3>1, <3>2, ClientMoves
  <2>13. ASSUME NEW c \in SettingsClients, SettingsCrash(c) PROVE SettingsInv'
    <3>. DEFINE next == [clients[c] EXCEPT !.phase = "gone"]
    <3>1. next \in Clients /\ next.phase = "gone"
      BY <2>0 DEF Clients, ClientPhases
    <3>2. To(c, next) /\ UNCHANGED settingsFile
          /\ unprotected' = unprotected \ {c}
          /\ \/ settingsLock' = settingsLock
             \/ UnderLock(c) /\ settingsLock.there /\ settingsLock' = [settingsLock EXCEPT !.orphan = TRUE]
      BY <2>13 DEF SettingsCrash, Phase
    <3>. HIDE DEF next
    <3>. QED
      BY <3>1, <3>2, ClientMoves, ClientLeavesLock
  <2>14. ASSUME NEW c \in SettingsClients, SettingsRestart(c) PROVE SettingsInv'
    <3>1. Idle(settingsFile) \in Clients /\ Idle(settingsFile).phase = "idle"
      BY <2>0 DEF Idle, Clients, ClientPhases
    <3>2. To(c, Idle(settingsFile)) /\ UNCHANGED <<settingsFile, settingsLock, unprotected>>
      BY <2>14 DEF SettingsRestart, KeepsFile
    <3>. QED
      BY <3>1, <3>2, ClientMoves
  <2>15. CASE UNCHANGED settingsVars
    BY <2>15 DEF settingsVars, SettingsInv, SettingsTypes, LockHeld, UnderLock, NoChoiceOverwritten, In
  <2>. QED
    BY <2>1, <2>2, <2>3, <2>4, <2>5, <2>6, <2>7, <2>8, <2>9, <2>10, <2>11, <2>12, <2>13,
       <2>14, <2>15 DEF SettingsNext
<1>. QED
  BY <1>1, <1>2, PTL DEF SettingsSpec

\* NoChoiceOverwritten for any number of processes, choices and crashes: what a process replaces
\* is what it believed to be there (compareAndSwap under withLock, settings-store.ts), unless its lock
\* was removed as an old one or it has entered beside an operation whose lock was.
THEOREM ChoicesAreKept == SettingsSpec => []NoChoiceOverwritten
BY SettingsInductive, PTL DEF SettingsInv

-----------------------------------------------------------------------------
(* Narrations.  What is cached is the flow of the present, a narration     *)
(* answers the last request of its step, and that request is of what the   *)
(* step has done; the last flow to be mirrored has the steps of the plan.  *)

Work == {"action", "observation"}
FlowNow == FlowOf(flowJournal, selectedTurn, stepNarrations)

Flows ==
  [turn : FlowTurns \union {0}, inputs : UNION {[S -> Nat] : S \in SUBSET StepIds},
   told : UNION {[S -> Nat \union {Nothing}] : S \in SUBSET StepIds}]

FlowTypes ==
  /\ flowJournal \in Seq(FlowRecord)
  /\ selectedTurn \in FlowTurns \union {0} /\ runningTurn \in {0, selectedTurn}
  /\ stepNarrations \in [StepIds -> Nat \union {Nothing}]
  /\ narrationKeys \in [StepIds -> (Nat \ {0}) \union {Nothing}]
  /\ narrating \subseteq [step : StepIds, key : Nat \ {0}]
  /\ narrationRevision \in Nat
  /\ syncQueue \in Seq(Flows)

\* A turn has no plan before its start, or its end, is in the journal.
PlansAreKnown ==
  \A i \in DOMAIN flowJournal :
    flowJournal[i].what = "plan" => flowJournal[i].turn \in FlowTurns /\ Known(flowJournal[i].turn)

CacheIsCurrent ==
  /\ flowCache.flow = FlowNow
  /\ flowCache.key = FlowKey(flowJournal, selectedTurn, narrationRevision) \/ flowCache.key[1] = -1

\* A request is of what the step had done, and what is shown answers the last.
RequestsFit ==
  /\ \A id \in StepIds :
       /\ stepNarrations[id] \in {Nothing, narrationKeys[id]}
       /\ narrationKeys[id] <= DoneBy(flowJournal, id, Work)
  /\ ~narratorOver => \A id \in DOMAIN FlowNow.inputs : narrationKeys[id] \in {Nothing, FlowNow.inputs[id]}

MirrorExplained ==
  ~narratorOver => Explained(mirrored) /\ \A i \in DOMAIN syncQueue : Explained(syncQueue[i])

SameSteps(flow) == DOMAIN flow.inputs = DOMAIN FlowNow.inputs
MirrorFollows ==
  runningTurn # 0 /\ FlowNow.turn = runningTurn =>
    IF syncQueue = <<>> THEN syncRefused \/ SameSteps(mirrored) ELSE SameSteps(syncQueue[Len(syncQueue)])

FlowInv == FlowTypes /\ PlansAreKnown /\ CacheIsCurrent /\ RequestsFit /\ MirrorExplained /\ MirrorFollows

\* The steps a flow shows.
StepsOf(journal, turn) == {turn} \X UNION {journal[i].steps : i \in LastPlan(journal, turn)}

\* A flow has the steps of its plan, with what they have done and what is said of them.
LEMMA FlowIs ==
  ASSUME NEW journal, NEW turn, NEW told
  PROVE  /\ DOMAIN FlowOf(journal, turn, told).inputs = StepsOf(journal, turn)
         /\ FlowOf(journal, turn, told).turn = IF PlansOf(journal, turn) = {} THEN 0 ELSE turn
         /\ \A id \in StepsOf(journal, turn) :
              /\ FlowOf(journal, turn, told).inputs[id] = DoneBy(journal, id, Work)
              /\ FlowOf(journal, turn, told).told[id] = told[id]
BY DEF FlowOf, StepsOf, Work

\* A turn without plan has no steps.
LEMMA NoPlanNoSteps ==
  ASSUME NEW journal, NEW turn, PlansOf(journal, turn) = {}
  PROVE  StepsOf(journal, turn) = {}
<1>1. LastPlan(journal, turn) = {}
  BY DEF LastPlan
<1> QED
  BY <1>1 DEF StepsOf

\* A record that is put behind a journal leaves what is before it.
LEMMA Appended ==
  ASSUME NEW journal \in Seq(FlowRecord), NEW record \in FlowRecord
  PROVE  /\ Append(journal, record) \in Seq(FlowRecord)
         /\ Len(Append(journal, record)) = Len(journal) + 1
         /\ DOMAIN Append(journal, record) = DOMAIN journal \union {Len(journal) + 1}
         /\ Len(journal) + 1 \notin DOMAIN journal
         /\ \A i \in DOMAIN journal : Append(journal, record)[i] = journal[i]
         /\ Append(journal, record)[Len(journal) + 1] = record
OBVIOUS

\* What a step has done is a number.
LEMMA DoneIsNat ==
  ASSUME NEW journal \in Seq(FlowRecord), NEW id, NEW kinds
  PROVE  DoneBy(journal, id, kinds) \in Nat
<1> DEFINE D == {i \in DOMAIN journal : journal[i].what \in kinds /\ journal[i].turn = id[1] /\ id[2] \in journal[i].steps}
<1>1. Len(journal) \in Nat /\ DOMAIN journal = 1..Len(journal)
  OBVIOUS
<1>2. IsFiniteSet(1..Len(journal))
  BY <1>1, FS_Interval
<1>3. D \in SUBSET (1..Len(journal))
  BY <1>1
<1>4. IsFiniteSet(D)
  BY <1>2, <1>3, FS_Subset
<1> QED
  BY <1>4, FS_CardinalityType DEF DoneBy

\* What a step has done does not become less.
LEMMA DoneGrows ==
  ASSUME NEW journal \in Seq(FlowRecord), NEW record \in FlowRecord, NEW id, NEW kinds
  PROVE  DoneBy(journal, id, kinds) <= DoneBy(Append(journal, record), id, kinds)
<1> DEFINE next == Append(journal, record)
           Done(j) == {i \in DOMAIN j : j[i].what \in kinds /\ j[i].turn = id[1] /\ id[2] \in j[i].steps}
<1> HIDE DEF next
<1>1. next \in Seq(FlowRecord) /\ Len(next) \in Nat /\ DOMAIN next = 1..Len(next)
  BY Appended DEF next
<1>2. IsFiniteSet(1..Len(next))
  BY <1>1, FS_Interval
<1>3. Done(next) \in SUBSET (1..Len(next))
  BY <1>1
<1>4. IsFiniteSet(Done(next))
  BY <1>2, <1>3, FS_Subset
<1>5. Done(journal) \in SUBSET Done(next)
  BY Appended DEF next
<1>6. Cardinality(Done(journal)) <= Cardinality(Done(next))
  BY <1>4, <1>5, FS_Subset
<1> QED
  BY <1>6 DEF DoneBy, next

\* Only a plan of the turn changes the steps that are shown of it.
LEMMA PlansStay ==
  ASSUME NEW journal \in Seq(FlowRecord), NEW record \in FlowRecord, NEW turn,
         record.what # "plan" \/ record.turn # turn
  PROVE  /\ PlansOf(Append(journal, record), turn) = PlansOf(journal, turn)
         /\ StepsOf(Append(journal, record), turn) = StepsOf(journal, turn)
<1> DEFINE next == Append(journal, record)
<1> HIDE DEF next
<1>1. PlansOf(next, turn) = PlansOf(journal, turn)
  BY Appended DEF PlansOf, next
<1>2. LastPlan(next, turn) = LastPlan(journal, turn)
  BY <1>1 DEF LastPlan
<1>3. \A i \in LastPlan(journal, turn) : next[i] = journal[i]
  BY Appended DEF LastPlan, PlansOf, next
<1>4. {next[i].steps : i \in LastPlan(next, turn)} = {journal[i].steps : i \in LastPlan(journal, turn)}
  BY <1>2, <1>3
<1> QED
  BY <1>1, <1>4 DEF StepsOf, next

\* The steps of a flow are steps of its turn, finitely many.
LEMMA StepsAre ==
  ASSUME NEW journal \in Seq(FlowRecord), NEW turn
  PROVE  /\ StepsOf(journal, turn) \subseteq {turn} \X FlowSteps
         /\ IsFiniteSet(StepsOf(journal, turn))
         /\ PlansOf(journal, turn) # {} => \E i \in DOMAIN journal : journal[i].what = "plan" /\ journal[i].turn = turn
<1>1. ASSUME NEW i \in LastPlan(journal, turn) PROVE journal[i].steps \subseteq FlowSteps
  <2>1. i \in DOMAIN journal
    BY DEF LastPlan, PlansOf
  <2>2. journal[i] \in FlowRecord
    BY <2>1
  <2> QED
    BY <2>2 DEF FlowRecord
<1>2. StepsOf(journal, turn) \subseteq {turn} \X FlowSteps
  BY <1>1 DEF StepsOf
<1> DEFINE second == [p \in {turn} \X FlowSteps |-> p[2]]
<1>3. second \in Injection({turn} \X FlowSteps, FlowSteps)
  BY DEF Injection, IsInjective
<1>4. IsFiniteSet({turn} \X FlowSteps)
  BY <1>3, FS_Injection, NarrationAssumption
<1>5. IsFiniteSet(StepsOf(journal, turn))
  BY <1>2, <1>4, FS_Subset
<1> QED
  BY <1>2, <1>5 DEF PlansOf

\* The steps of a flow have their identity.
LEMMA StepsAreIds ==
  ASSUME NEW journal \in Seq(FlowRecord), NEW turn,
         \A i \in DOMAIN journal : journal[i].what = "plan" => journal[i].turn \in FlowTurns
  PROVE  StepsOf(journal, turn) \subseteq StepIds /\ (PlansOf(journal, turn) # {} => turn \in FlowTurns)
<1>1. CASE PlansOf(journal, turn) = {}
  BY <1>1, NoPlanNoSteps
<1>2. CASE PlansOf(journal, turn) # {}
  <2>1. turn \in FlowTurns
    BY <1>2, StepsAre
  <2>2. StepsOf(journal, turn) \subseteq {turn} \X FlowSteps
    BY StepsAre
  <2> QED
    BY <2>1, <2>2 DEF StepIds
<1> QED
  BY <1>1, <1>2

\* A flow is a flow.
LEMMA FlowsAre ==
  ASSUME NEW journal \in Seq(FlowRecord), NEW turn \in FlowTurns \union {0},
         NEW told \in [StepIds -> Nat \union {Nothing}], StepsOf(journal, turn) \subseteq StepIds
  PROVE  FlowOf(journal, turn, told) \in Flows
<1> DEFINE steps == StepsOf(journal, turn)
<1>1. [id \in steps |-> DoneBy(journal, id, Work)] \in [steps -> Nat]
  BY DoneIsNat
<1>2. [id \in steps |-> told[id]] \in [steps -> Nat \union {Nothing}]
  OBVIOUS
<1>3. FlowOf(journal, turn, told) =
        [turn |-> IF PlansOf(journal, turn) = {} THEN 0 ELSE turn,
         inputs |-> [id \in steps |-> DoneBy(journal, id, Work)], told |-> [id \in steps |-> told[id]]]
  BY DEF FlowOf, StepsOf, Work
<1>4. (IF PlansOf(journal, turn) = {} THEN 0 ELSE turn) \in FlowTurns \union {0}
  OBVIOUS
<1> HIDE DEF steps
<1>5. steps \in SUBSET StepIds
  BY DEF steps
<1> QED
  BY <1>1, <1>2, <1>3, <1>4, <1>5 DEF Flows

\* A flow is explained when its narrations answer the last requests, which are of what was done.
LEMMA FlowExplained ==
  ASSUME NEW journal, NEW turn, NEW told, NEW keys, StepsOf(journal, turn) \subseteq StepIds,
         \A id \in StepIds : told[id] \in {Nothing, keys[id]},
         \A id \in StepsOf(journal, turn) : keys[id] \in {Nothing, DoneBy(journal, id, Work)}
  PROVE  Explained(FlowOf(journal, turn, told))
BY FlowIs DEF Explained

\* What is projected for another key than the cached one is made anew.
LEMMA MadeAnew ==
  ASSUME NEW journal, NEW turn, NEW told, NEW revision,
         flowCache.key # FlowKey(journal, turn, revision)
  PROVE  /\ Projected(journal, turn, told, revision).flow = FlowOf(journal, turn, told)
         /\ Projected(journal, turn, told, revision).key = FlowKey(journal, turn, revision)
BY DEF Projected

\* What a record asks of the narrator is of what the steps have done by now.
LEMMA Schedules ==
  ASSUME FlowInv, NEW record \in FlowRecord, record.what = "plan" => record.turn \in FlowTurns, Appends(record)
  PROVE  /\ FlowTypes /\ flowJournal' \in Seq(FlowRecord) /\ flowJournal' = Append(flowJournal, record)
         /\ stepNarrations' \in [StepIds -> Nat \union {Nothing}]
         /\ narrationKeys' \in [StepIds -> (Nat \ {0}) \union {Nothing}]
         /\ narrating' \subseteq [step : StepIds, key : Nat \ {0}]
         /\ narrationRevision' \in Nat
         /\ \A id \in StepIds : /\ stepNarrations'[id] \in {Nothing, narrationKeys'[id]}
                                /\ narrationKeys'[id] <= DoneBy(flowJournal', id, Work)
         /\ StepsOf(flowJournal', selectedTurn) \subseteq StepIds
         /\ ~narratorOver => \A id \in StepsOf(flowJournal', selectedTurn) :
                               narrationKeys'[id] \in {Nothing, DoneBy(flowJournal', id, Work)}
<1> DEFINE next == flowJournal'
           flow == FlowOf(next, selectedTurn, stepNarrations)
           again == Asked(flow)
<1>1. FlowTypes /\ PlansAreKnown /\ RequestsFit
  BY DEF FlowInv
<1>2. flowJournal \in Seq(FlowRecord) /\ next = Append(flowJournal, record) /\ next \in Seq(FlowRecord)
  BY <1>1, Appended DEF FlowTypes, Appends
<1>3. \A i \in DOMAIN next : next[i].what = "plan" => next[i].turn \in FlowTurns
  BY <1>1, <1>2, Appended DEF PlansAreKnown
<1>4. StepsOf(next, selectedTurn) \subseteq StepIds
  BY <1>2, <1>3, StepsAreIds
<1>5. /\ DOMAIN flow.inputs = StepsOf(next, selectedTurn)
      /\ \A id \in StepsOf(next, selectedTurn) : flow.inputs[id] = DoneBy(next, id, Work)
  BY FlowIs
<1>6. \A id \in StepIds : DoneBy(next, id, Work) \in Nat
  BY <1>2, DoneIsNat
<1>7. \A id \in StepIds : narrationKeys[id] <= DoneBy(next, id, Work)
  <2> SUFFICES ASSUME NEW id \in StepIds PROVE narrationKeys[id] <= DoneBy(next, id, Work)
    OBVIOUS
  <2>1. narrationKeys[id] \in Int
    BY <1>1 DEF FlowTypes, Nothing
  <2>2. DoneBy(flowJournal, id, Work) \in Nat /\ DoneBy(flowJournal, id, Work) <= DoneBy(next, id, Work)
    BY <1>2, DoneIsNat, DoneGrows
  <2>3. narrationKeys[id] <= DoneBy(flowJournal, id, Work)
    BY <1>1 DEF RequestsFit
  <2> QED
    BY <2>1, <2>2, <2>3, <1>6
<1>8. ScheduleNarrations(flow)
  BY DEF Appends
<1> HIDE DEF next, flow
<1>9. CASE narratorOver
  BY <1>1, <1>2, <1>4, <1>7, <1>8, <1>9 DEF ScheduleNarrations, FlowTypes, RequestsFit, next
<1>10. CASE ~narratorOver
  <2>1. /\ narrationKeys' = [id \in StepIds |-> IF id \in again THEN flow.inputs[id] ELSE narrationKeys[id]]
        /\ narrating' = narrating \union {[step |-> id, key |-> flow.inputs[id]] : id \in again}
        /\ stepNarrations' = [id \in StepIds |-> IF id \in again THEN Nothing ELSE stepNarrations[id]]
        /\ narrationRevision' = narrationRevision + Cardinality({id \in again : stepNarrations[id] # Nothing})
    BY <1>8, <1>10 DEF ScheduleNarrations
  <2>2. again \subseteq StepsOf(next, selectedTurn) /\ again \subseteq StepIds
    BY <1>4, <1>5 DEF Asked
  <2>3. \A id \in again : flow.inputs[id] = DoneBy(next, id, Work) /\ flow.inputs[id] \in Nat \ {0}
    BY <2>2, <1>5, <1>6 DEF Asked
  <2>4. narrationRevision' \in Nat
    <3>1. {id \in again : stepNarrations[id] # Nothing} \in SUBSET StepsOf(next, selectedTurn)
      BY <2>2
    <3>2. IsFiniteSet(StepsOf(next, selectedTurn))
      BY <1>2, StepsAre DEF next
    <3>3. Cardinality({id \in again : stepNarrations[id] # Nothing}) \in Nat
      BY <3>1, <3>2, FS_Subset, FS_CardinalityType
    <3> QED
      BY <3>3, <2>1, <1>1 DEF FlowTypes
  <2>5. /\ stepNarrations' \in [StepIds -> Nat \union {Nothing}]
        /\ narrationKeys' \in [StepIds -> (Nat \ {0}) \union {Nothing}]
        /\ narrating' \subseteq [step : StepIds, key : Nat \ {0}]
    BY <2>1, <2>2, <2>3, <1>1 DEF FlowTypes
  <2>6. \A id \in StepIds : /\ stepNarrations'[id] \in {Nothing, narrationKeys'[id]}
                            /\ narrationKeys'[id] <= DoneBy(next, id, Work)
    BY <2>1, <2>3, <1>1, <1>6, <1>7 DEF RequestsFit
  <2>7. ASSUME NEW id \in StepsOf(next, selectedTurn) PROVE narrationKeys'[id] \in {Nothing, DoneBy(next, id, Work)}
    <3>1. id \in StepIds /\ id \in DOMAIN flow.inputs /\ flow.inputs[id] = DoneBy(next, id, Work)
      BY <1>4, <1>5
    <3>2. CASE id \in again
      BY <3>1, <3>2, <2>1
    <3>3. CASE id \notin again
      <4>1. narrationKeys'[id] = narrationKeys[id]
        BY <3>1, <3>3, <2>1
      <4>2. ~(DoneBy(next, id, Work) > 0) \/ narrationKeys[id] = DoneBy(next, id, Work)
        BY <3>1, <3>3 DEF Asked
      <4>3. narrationKeys[id] \in (Nat \ {0}) \union {Nothing} /\ narrationKeys[id] <= DoneBy(next, id, Work)
        BY <3>1, <1>1, <1>7 DEF FlowTypes
      <4> QED
        BY <4>1, <4>2, <4>3, <3>1, <1>6
    <3> QED
      BY <3>2, <3>3
  <2> QED
    BY <1>1, <1>2, <1>4, <2>4, <2>5, <2>6, <2>7 DEF next
<1> QED
  BY <1>9, <1>10

\* What any record leaves behind, but for which flow is mirrored last.
LEMMA RecordFits ==
  ASSUME FlowInv, NEW record \in FlowRecord, record.what = "plan" => record.turn \in FlowTurns /\ Known(record.turn),
         Appends(record), Publishes, selectedTurn' \in FlowTurns \union {0}, runningTurn' \in {0, selectedTurn'},
         selectedTurn' = selectedTurn \/ PlansOf(flowJournal', selectedTurn') = {}
  PROVE  /\ FlowTypes' /\ PlansAreKnown' /\ CacheIsCurrent' /\ RequestsFit' /\ MirrorExplained'
         /\ syncQueue' = IF MirrorsRecord(record, FlowOf(flowJournal', selectedTurn, stepNarrations'))
                         THEN Append(syncQueue, FlowOf(flowJournal', selectedTurn, stepNarrations')) ELSE syncQueue
<1> DEFINE flow == FlowOf(flowJournal', selectedTurn, stepNarrations')
<1> USE Schedules
<1>1. FlowTypes /\ PlansAreKnown /\ CacheIsCurrent /\ MirrorExplained
  BY DEF FlowInv
<1>2. /\ flowJournal' = Append(flowJournal, record) /\ Len(flowJournal') = Len(flowJournal) + 1
      /\ flowJournal \in Seq(FlowRecord) /\ flowJournal' \in Seq(FlowRecord) /\ Len(flowJournal) \in Nat
  BY <1>1, Appended DEF FlowTypes
<1>3. \A turn, revision : flowCache.key # FlowKey(flowJournal', turn, revision)
  BY <1>1, <1>2 DEF CacheIsCurrent, FlowKey
<1>4. Projected(flowJournal', selectedTurn, stepNarrations', narrationRevision').flow = flow
  BY <1>3, MadeAnew
<1>5. syncQueue' = IF MirrorsRecord(record, flow) THEN Append(syncQueue, flow) ELSE syncQueue
  BY <1>4 DEF Appends, Enqueued
<1>6. flow \in Flows
  BY <1>1, <1>2, FlowsAre DEF FlowTypes
<1> HIDE DEF flow
<1>7. FlowTypes'
  <2>1. syncQueue' \in Seq(Flows)
    BY <1>1, <1>5, <1>6 DEF FlowTypes
  <2> QED
    BY <1>1, <1>2, <2>1 DEF FlowTypes
<1>8. PlansAreKnown'
  <2>1. \A turn : Known(turn) => Known(turn)'
    BY <1>2, Appended DEF Known
  <2>2. ASSUME NEW i \in DOMAIN flowJournal', flowJournal'[i].what = "plan"
        PROVE  flowJournal'[i].turn \in FlowTurns /\ Known(flowJournal'[i].turn)
    BY <1>1, <1>2, <2>2, Appended DEF PlansAreKnown
  <2> QED
    BY <2>1, <2>2 DEF PlansAreKnown
<1>9. CacheIsCurrent'
  BY <1>3, MadeAnew DEF CacheIsCurrent, Publishes, FlowNow
<1>10. RequestsFit'
  <2>1. narratorOver' = narratorOver
    BY DEF Appends
  <2>2. /\ DOMAIN FlowNow'.inputs = StepsOf(flowJournal', selectedTurn')
        /\ \A id \in StepsOf(flowJournal', selectedTurn') : FlowNow'.inputs[id] = DoneBy(flowJournal', id, Work)
    BY FlowIs DEF FlowNow
  <2>3. StepsOf(flowJournal', selectedTurn') \subseteq StepsOf(flowJournal', selectedTurn)
    BY NoPlanNoSteps
  <2> QED
    BY <2>1, <2>2, <2>3 DEF RequestsFit
<1>11. MirrorExplained'
  <2>1. narratorOver' = narratorOver /\ mirrored' = mirrored
    BY DEF Appends
  <2>2. ~narratorOver => Explained(flow)
    BY FlowExplained DEF flow
  <2>3. syncQueue \in Seq(Flows)
    BY <1>1 DEF FlowTypes
  <2>4. ASSUME ~narratorOver, NEW i \in DOMAIN syncQueue' PROVE Explained(syncQueue'[i])
    <3>1. CASE syncQueue' = syncQueue
      BY <1>1, <2>4, <3>1 DEF MirrorExplained
    <3>2. CASE syncQueue' = Append(syncQueue, flow)
      <4>1. (i \in DOMAIN syncQueue /\ syncQueue'[i] = syncQueue[i]) \/ syncQueue'[i] = flow
        BY <2>3, <1>6, <3>2
      <4> QED
        BY <4>1, <1>1, <2>2, <2>4 DEF MirrorExplained
    <3> QED
      BY <1>5, <3>1, <3>2
  <2> QED
    BY <1>1, <2>1, <2>4 DEF MirrorExplained
<1> QED
  BY <1>5, <1>7, <1>8, <1>9, <1>10, <1>11 DEF flow

\* The last flow that is mirrored, or waits for it, is of the plan as recorded.
LEMMA NotifiedKeeps ==
  ASSUME FlowInv, NEW record \in FlowRecord, TurnNotified(record),
         record.what = "plan" => record.turn \in FlowTurns /\ record.turn = runningTurn
  PROVE  FlowInv'
<1>1. FlowTypes /\ MirrorFollows
  BY DEF FlowInv
<1>2. /\ Appends(record) /\ Publishes /\ selectedTurn' = selectedTurn /\ runningTurn' \in {0, runningTurn}
      /\ record.what = "plan" => Known(record.turn)
  BY DEF TurnNotified
<1>3. runningTurn' \in {0, selectedTurn'} /\ selectedTurn' \in FlowTurns \union {0}
  BY <1>1, <1>2 DEF FlowTypes
<1> DEFINE flow == FlowOf(flowJournal', selectedTurn, stepNarrations')
<1>4. /\ FlowTypes' /\ PlansAreKnown' /\ CacheIsCurrent' /\ RequestsFit' /\ MirrorExplained'
      /\ syncQueue' = IF MirrorsRecord(record, flow) THEN Append(syncQueue, flow) ELSE syncQueue
  BY <1>2, <1>3, RecordFits
<1>5. /\ flowJournal' = Append(flowJournal, record) /\ flowJournal \in Seq(FlowRecord) /\ syncQueue \in Seq(Flows)
      /\ mirrored' = mirrored /\ syncRefused' = syncRefused
  BY <1>1, <1>2 DEF FlowTypes, Appends
<1>6. /\ FlowNow' = flow /\ DOMAIN flow.inputs = StepsOf(flowJournal', selectedTurn)
      /\ DOMAIN FlowNow.inputs = StepsOf(flowJournal, selectedTurn)
      /\ flow.turn = IF PlansOf(flowJournal', selectedTurn) = {} THEN 0 ELSE selectedTurn
      /\ FlowNow.turn = IF PlansOf(flowJournal, selectedTurn) = {} THEN 0 ELSE selectedTurn
  BY <1>2, FlowIs DEF FlowNow
<1> HIDE DEF flow
<1>7. MirrorFollows'
  <2>1. CASE syncQueue' = Append(syncQueue, flow)
    <3>1. syncQueue' # <<>> /\ syncQueue'[Len(syncQueue')] = flow
      BY <1>5, <2>1
    <3> QED
      BY <3>1, <1>6 DEF MirrorFollows, SameSteps
  <2>2. CASE syncQueue' = syncQueue /\ ~MirrorsRecord(record, flow)
    <3>1. CASE runningTurn' = 0
      BY <3>1 DEF MirrorFollows
    <3>2. CASE runningTurn' # 0 /\ record.what = "plan" /\ record.turn = selectedTurn
      <4>1. flow.turn # runningTurn'
        BY <2>2, <3>2, <1>1, <1>2 DEF MirrorsRecord, FlowTypes
      <4> QED
        BY <4>1, <1>6 DEF MirrorFollows
    <3>3. CASE runningTurn' # 0 /\ (record.what # "plan" \/ record.turn # selectedTurn)
      <4>1. /\ PlansOf(flowJournal', selectedTurn) = PlansOf(flowJournal, selectedTurn)
            /\ StepsOf(flowJournal', selectedTurn) = StepsOf(flowJournal, selectedTurn)
        BY <3>3, <1>5, PlansStay
      <4>2. flow.turn = FlowNow.turn /\ DOMAIN flow.inputs = DOMAIN FlowNow.inputs /\ runningTurn' = runningTurn
        BY <4>1, <1>2, <1>6, <3>3
      <4> QED
        BY <4>2, <2>2, <1>1, <1>5, <1>6 DEF MirrorFollows, SameSteps
    <3> QED
      BY <3>1, <3>2, <3>3
  <2> QED
    BY <1>4, <2>1, <2>2
<1> QED
  BY <1>4, <1>7 DEF FlowInv

\* A turn that nobody heard of has no plan.
LEMMA UnknownHasNoPlan ==
  ASSUME FlowTypes, PlansAreKnown, NEW turn, ~Known(turn)
  PROVE  PlansOf(flowJournal, turn) = {}
BY DEF PlansAreKnown, PlansOf

\* A turn that starts shows no steps yet, and nothing of an earlier one.
LEMMA StartsKeep ==
  ASSUME FlowInv, NEW turn \in FlowTurns, StartReturns(turn) \/ StartNotified(turn)
  PROVE  FlowInv'
<1>1. FlowTypes /\ PlansAreKnown /\ CacheIsCurrent /\ RequestsFit /\ MirrorExplained
  BY DEF FlowInv
<1>2. turn # 0
  BY NarrationAssumption
<1>3. CASE StartNotified(turn)
  <2>1. PICK record \in FlowRecord : record = [what |-> "start", turn |-> turn, steps |-> {}]
    BY DEF FlowRecord
  <2>2. /\ Appends(record) /\ Publishes /\ selectedTurn' = turn /\ runningTurn' = turn /\ ~Known(turn)
        /\ record.what = "start"
    BY <1>3, <2>1 DEF StartNotified
  <2>3. flowJournal' = Append(flowJournal, record) /\ flowJournal \in Seq(FlowRecord)
    BY <1>1, <2>2 DEF Appends, FlowTypes
  <2>4. PlansOf(flowJournal', turn) = {}
    BY <1>1, <2>2, <2>3, UnknownHasNoPlan, PlansStay
  <2>5. FlowTypes' /\ PlansAreKnown' /\ CacheIsCurrent' /\ RequestsFit' /\ MirrorExplained'
    BY <2>2, <2>4, RecordFits
  <2>6. FlowNow'.turn = 0
    BY <2>2, <2>4, FlowIs DEF FlowNow
  <2> QED
    BY <2>2, <2>5, <2>6, <1>2 DEF FlowInv, MirrorFollows
<1>4. CASE StartReturns(turn)
  <2>1. /\ selectedTurn' = turn /\ runningTurn' = turn /\ ~Known(turn) /\ selectedTurn < turn /\ Publishes
        /\ UNCHANGED <<flowJournal, stepNarrations, narrationKeys, narrating, narrationRevision, syncQueue,
                       narratorOver, mirrored, syncRefused>>
    BY <1>4 DEF StartReturns, KeepsMirror
  <2>2. PlansOf(flowJournal, turn) = {} /\ StepsOf(flowJournal, turn) = {}
    BY <1>1, <2>1, UnknownHasNoPlan, NoPlanNoSteps
  <2>3. FlowNow'.turn = 0 /\ DOMAIN FlowNow'.inputs = {}
    BY <2>1, <2>2, FlowIs DEF FlowNow
  <2>4. FlowTypes'
    BY <1>1, <2>1 DEF FlowTypes
  <2>5. PlansAreKnown'
    BY <1>1, <2>1 DEF PlansAreKnown, Known
  <2>6. CacheIsCurrent'
    <3>1. selectedTurn # turn /\ Len(flowJournal) \in Nat
      BY <1>1, <2>1, NarrationAssumption DEF FlowTypes
    <3>2. flowCache.key # FlowKey(flowJournal', selectedTurn', narrationRevision')
      BY <3>1, <1>1, <2>1 DEF CacheIsCurrent, FlowKey
    <3> QED
      BY <3>2, <2>1, MadeAnew DEF Publishes, CacheIsCurrent, FlowNow
  <2>7. RequestsFit' /\ MirrorExplained'
    BY <1>1, <2>1, <2>3 DEF RequestsFit, MirrorExplained
  <2> QED
    BY <2>1, <2>3, <2>4, <2>5, <2>6, <2>7, <1>2 DEF FlowInv, MirrorFollows
<1> QED
  BY <1>3, <1>4

\* The steps of the present flow have their identity.
LEMMA NowAreIds ==
  ASSUME FlowTypes, PlansAreKnown
  PROVE  /\ StepsOf(flowJournal, selectedTurn) \subseteq StepIds
         /\ DOMAIN FlowNow.inputs = StepsOf(flowJournal, selectedTurn)
         /\ \A id \in StepsOf(flowJournal, selectedTurn) : FlowNow.inputs[id] = DoneBy(flowJournal, id, Work)
BY StepsAreIds, FlowIs DEF FlowTypes, PlansAreKnown, FlowNow

\* An answer is shown, and mirrored, when it is that of the last request.
LEMMA AnswersKeep ==
  ASSUME FlowInv, NEW request \in narrating, Narrated(request)
  PROVE  FlowInv'
<1>1. FlowTypes /\ PlansAreKnown /\ CacheIsCurrent /\ RequestsFit /\ MirrorExplained /\ MirrorFollows
  BY DEF FlowInv
<1>2. /\ narrating' = narrating \ {request} /\ KeepsMirror
      /\ UNCHANGED <<flowJournal, selectedTurn, runningTurn, narrationKeys, narratorOver>>
  BY DEF Narrated
<1>3. CASE UNCHANGED <<stepNarrations, narrationRevision, syncQueue, flowCache>>
  BY <1>1, <1>2, <1>3 DEF FlowInv, FlowTypes, PlansAreKnown, Known, CacheIsCurrent, RequestsFit, MirrorExplained,
     MirrorFollows, SameSteps, FlowNow, KeepsMirror
<1>4. CASE ~narratorOver /\ InTime(request)
  <2> DEFINE flow == FlowOf(flowJournal, selectedTurn, stepNarrations')
  <2>1. /\ stepNarrations' = [stepNarrations EXCEPT ![request.step] = request.key]
        /\ narrationRevision' = narrationRevision + 1 /\ Publishes
        /\ syncQueue' = IF flow.turn # 0 /\ flow.turn = runningTurn /\ DOMAIN flow.inputs # {}
                        THEN Append(syncQueue, flow) ELSE syncQueue
    BY <1>4 DEF Narrated, Enqueued
  <2>2. request.step \in StepIds /\ request.key \in Nat \ {0} /\ request.key = narrationKeys[request.step]
    BY <1>1, <1>4 DEF FlowTypes, InTime
  <2>3. /\ stepNarrations' \in [StepIds -> Nat \union {Nothing}]
        /\ \A id \in StepIds : stepNarrations'[id] \in {Nothing, narrationKeys[id]}
    BY <1>1, <2>1, <2>2 DEF FlowTypes, RequestsFit
  <2>4. flow \in Flows
    BY <1>1, <2>3, NowAreIds, FlowsAre DEF FlowTypes
  <2>5. DOMAIN flow.inputs = StepsOf(flowJournal, selectedTurn) /\ flow.turn = FlowNow.turn /\ FlowNow' = flow
    BY <1>2, FlowIs DEF FlowNow
  <2>6. \A id \in StepsOf(flowJournal, selectedTurn) : narrationKeys[id] \in {Nothing, DoneBy(flowJournal, id, Work)}
    BY <1>1, <1>4, NowAreIds DEF RequestsFit
  <2>7. Explained(flow)
    BY <1>1, <2>3, <2>6, NowAreIds, FlowExplained
  <2>8. \A id \in StepsOf(flowJournal, selectedTurn) : FlowNow'.inputs[id] = DoneBy(flowJournal, id, Work)
    BY <2>5, FlowIs
  <2> HIDE DEF flow
  <2>9. FlowTypes'
    <3>1. syncQueue' \in Seq(Flows)
      BY <1>1, <2>1, <2>4 DEF FlowTypes
    <3> QED
      BY <1>1, <1>2, <2>1, <2>3, <3>1 DEF FlowTypes
  <2>10. PlansAreKnown'
    BY <1>1, <1>2 DEF PlansAreKnown, Known
  <2>11. CacheIsCurrent'
    <3>1. narrationRevision \in Nat /\ Len(flowJournal) \in Nat
      BY <1>1 DEF FlowTypes
    <3>2. flowCache.key # FlowKey(flowJournal', selectedTurn', narrationRevision')
      BY <3>1, <1>1, <1>2, <2>1 DEF CacheIsCurrent, FlowKey
    <3> QED
      BY <3>2, <2>1, MadeAnew DEF Publishes, CacheIsCurrent, FlowNow
  <2>12. RequestsFit'
    BY <1>1, <1>2, <2>3, <2>5, <2>6, <2>8 DEF RequestsFit
  <2>13. syncQueue \in Seq(Flows)
    BY <1>1 DEF FlowTypes
  <2>14. MirrorExplained'
    <3>1. ASSUME NEW i \in DOMAIN syncQueue' PROVE Explained(syncQueue'[i])
      <4>1. (i \in DOMAIN syncQueue /\ syncQueue'[i] = syncQueue[i]) \/ syncQueue'[i] = flow
        BY <2>1, <2>4, <2>13
      <4> QED
        BY <4>1, <2>7, <1>1, <1>4 DEF MirrorExplained
    <3> QED
      BY <3>1, <1>1, <1>2, <1>4 DEF MirrorExplained, KeepsMirror
  <2>15. MirrorFollows'
    <3>1. CASE syncQueue' = Append(syncQueue, flow)
      <4>1. syncQueue' # <<>> /\ syncQueue'[Len(syncQueue')] = flow
        BY <2>4, <2>13, <3>1
      <4> QED
        BY <4>1, <2>5 DEF MirrorFollows, SameSteps
    <3>2. CASE syncQueue' = syncQueue
      BY <3>2, <1>1, <1>2, <2>5, NowAreIds DEF MirrorFollows, SameSteps, KeepsMirror
    <3> QED
      BY <2>1, <3>1, <3>2
  <2> QED
    BY <2>9, <2>10, <2>11, <2>12, <2>14, <2>15 DEF FlowInv
<1> QED
  BY <1>3, <1>4 DEF Narrated

\* A flow that has been mirrored, or refused, leaves the rest as they were.
LEMMA SyncKeeps ==
  ASSUME FlowInv, SyncEnds
  PROVE  FlowInv'
<1>1. FlowTypes /\ PlansAreKnown /\ CacheIsCurrent /\ RequestsFit /\ MirrorExplained /\ MirrorFollows
  BY DEF FlowInv
<1>2. /\ syncQueue # <<>> /\ syncQueue' = Tail(syncQueue) /\ Publishes
      /\ mirrored' = Head(syncQueue) \/ (syncRefused' = TRUE /\ mirrored' = mirrored)
      /\ UNCHANGED <<flowJournal, selectedTurn, runningTurn, stepNarrations, narrationKeys, narrating,
                     narrationRevision, narratorOver>>
  BY DEF SyncEnds
<1>3. /\ syncQueue \in Seq(Flows) /\ syncQueue' \in Seq(Flows) /\ Len(syncQueue') = Len(syncQueue) - 1
      /\ Len(syncQueue) \in Nat \ {0} /\ Head(syncQueue) = syncQueue[1]
      /\ \A i \in DOMAIN syncQueue' : i + 1 \in DOMAIN syncQueue /\ syncQueue'[i] = syncQueue[i + 1]
  BY <1>1, <1>2 DEF FlowTypes
<1>4. FlowTypes' /\ PlansAreKnown' /\ RequestsFit' /\ FlowNow' = FlowNow
  BY <1>1, <1>2, <1>3 DEF FlowTypes, PlansAreKnown, Known, RequestsFit, FlowNow
<1>5. CacheIsCurrent'
  <2>1. CASE flowCache' = flowCache
    BY <2>1, <1>1, <1>2, <1>4 DEF CacheIsCurrent
  <2>2. CASE flowCache.key # FlowKey(flowJournal', selectedTurn', narrationRevision')
    BY <2>2, <1>2, <1>4, MadeAnew DEF Publishes, CacheIsCurrent, FlowNow
  <2> QED
    BY <2>1, <2>2, <1>2 DEF Publishes, Projected
<1>6. MirrorExplained'
  BY <1>1, <1>2, <1>3 DEF MirrorExplained
<1>7. MirrorFollows'
  <2>1. CASE syncQueue' = <<>>
    <3>1. Len(syncQueue) = 1
      BY <1>3, <2>1
    <3> QED
      BY <3>1, <2>1, <1>1, <1>2, <1>3, <1>4 DEF MirrorFollows, SameSteps
  <2>2. CASE syncQueue' # <<>>
    <3>1. Len(syncQueue') \in DOMAIN syncQueue' /\ Len(syncQueue') + 1 = Len(syncQueue)
      BY <1>3, <2>2
    <3>2. syncQueue'[Len(syncQueue')] = syncQueue[Len(syncQueue)]
      BY <3>1, <1>3
    <3> QED
      BY <3>2, <2>2, <1>1, <1>2, <1>4 DEF MirrorFollows, SameSteps
  <2> QED
    BY <2>1, <2>2
<1> QED
  BY <1>4, <1>5, <1>6, <1>7 DEF FlowInv

\* The workbench opens with no flow, no request and nothing to mirror.
LEMMA FlowStarts == NarrationInit => FlowInv
<1> SUFFICES ASSUME NarrationInit PROVE FlowInv
  OBVIOUS
<1>1. /\ flowJournal = <<>> /\ selectedTurn = 0 /\ runningTurn = 0 /\ syncQueue = <<>> /\ narrating = {}
      /\ stepNarrations = [id \in StepIds |-> Nothing] /\ narrationKeys = [id \in StepIds |-> Nothing]
      /\ narrationRevision = 0 /\ mirrored = FlowNow
      /\ flowCache = [key |-> <<-1, 0, 0>>, flow |-> FlowNow]
  BY DEF NarrationInit, FlowNow
<1>2. flowJournal \in Seq(FlowRecord) /\ syncQueue \in Seq(Flows)
  BY <1>1
<1>3. FlowTypes
  BY <1>1, <1>2 DEF FlowTypes
<1>4. PlansAreKnown /\ PlansOf(flowJournal, selectedTurn) = {}
  BY <1>1 DEF PlansAreKnown, PlansOf
<1>5. DOMAIN FlowNow.inputs = {}
  BY <1>4, FlowIs, NoPlanNoSteps DEF FlowNow
<1>6. \A id \in StepIds : DoneBy(flowJournal, id, Work) \in Nat
  BY <1>2, DoneIsNat
<1>7. RequestsFit
  BY <1>1, <1>5, <1>6 DEF RequestsFit, Nothing
<1>8. CacheIsCurrent /\ MirrorFollows
  BY <1>1 DEF CacheIsCurrent, MirrorFollows
<1>9. MirrorExplained
  BY <1>1, <1>5 DEF MirrorExplained, Explained
<1> QED
  BY <1>3, <1>4, <1>7, <1>8, <1>9 DEF FlowInv

\* What keeps the flow, the requests and the mirror keeps the invariant.
LEMMA FlowStutters ==
  ASSUME FlowInv, narrating' \subseteq narrating, narratorOver' \/ narratorOver' = narratorOver,
         UNCHANGED <<flowJournal, selectedTurn, runningTurn, stepNarrations, narrationKeys, narrationRevision,
                     flowCache, syncQueue, mirrored, syncRefused>>
  PROVE  FlowInv'
BY DEF FlowInv, FlowTypes, PlansAreKnown, Known, CacheIsCurrent, RequestsFit, MirrorExplained, MirrorFollows, SameSteps,
   FlowNow

\* Every step keeps the invariant.
LEMMA FlowKept == FlowInv /\ [NarrationNext]_narrationVars => FlowInv'
<1> SUFFICES ASSUME FlowInv, [NarrationNext]_narrationVars PROVE FlowInv'
  OBVIOUS
<1>1. ASSUME NEW turn \in FlowTurns, StartReturns(turn) \/ StartNotified(turn) PROVE FlowInv'
  BY <1>1, StartsKeep
<1>2. ASSUME NEW turn \in FlowTurns, FlowTurnEnds(turn) PROVE FlowInv'
  <2>1. [what |-> "end", turn |-> turn, steps |-> {}] \in FlowRecord
    BY DEF FlowRecord
  <2> QED
    BY <1>2, <2>1, NotifiedKeeps DEF FlowTurnEnds
<1>3. ASSUME NEW turn \in FlowTurns, NEW steps \in SUBSET FlowSteps, PlanRecorded(turn, steps) PROVE FlowInv'
  <2>1. [what |-> "plan", turn |-> turn, steps |-> steps] \in FlowRecord
    BY DEF FlowRecord
  <2> QED
    BY <1>3, <2>1, NotifiedKeeps DEF PlanRecorded
<1>4. ASSUME NEW turn \in FlowTurns, NEW step \in FlowSteps, NEW what \in {"action", "observation"},
             StepWorks(turn, step, what)
      PROVE  FlowInv'
  <2>1. [what |-> what, turn |-> turn, steps |-> {step}] \in FlowRecord
    BY DEF FlowRecord
  <2> QED
    BY <1>4, <2>1, NotifiedKeeps DEF StepWorks
<1>5. ASSUME ChildWorks PROVE FlowInv'
  <2>1. [what |-> "child", turn |-> 0, steps |-> {}] \in FlowRecord
    BY DEF FlowRecord
  <2> QED
    BY <1>5, <2>1, NotifiedKeeps DEF ChildWorks
<1>6. ASSUME NEW request \in narrating, NarrationFails(request) PROVE FlowInv'
  BY <1>6, FlowStutters DEF NarrationFails, KeepsMirror
<1>7. ASSUME CloseNarrator PROVE FlowInv'
  BY <1>7, FlowStutters DEF CloseNarrator, KeepsMirror
<1>8. ASSUME UNCHANGED narrationVars PROVE FlowInv'
  BY <1>8, FlowStutters DEF narrationVars
<1> QED
  BY <1>1, <1>2, <1>3, <1>4, <1>5, <1>6, <1>7, <1>8, AnswersKeep, SyncKeeps DEF NarrationNext

\* The cached flow is the present one, so what holds of that is what the screen shows.
LEMMA FlowIsTold == FlowInv => FlowToldTruly
<1> SUFFICES ASSUME FlowInv PROVE FlowToldTruly
  OBVIOUS
<1>1. FlowTypes /\ PlansAreKnown /\ CacheIsCurrent /\ RequestsFit /\ MirrorExplained /\ MirrorFollows
  BY DEF FlowInv
<1>2. flowCache.flow = FlowNow
  BY <1>1 DEF CacheIsCurrent
<1>3. FlowNow.turn \in {0, selectedTurn}
  BY FlowIs DEF FlowNow
<1>4. ~narratorOver => Explained(FlowNow)
  BY <1>1, NowAreIds, FlowExplained DEF RequestsFit, FlowNow
<1> QED
  BY <1>1, <1>2, <1>3, <1>4 DEF FlowToldTruly, MirrorExplained, MirrorFollows, SameSteps

\* For any turns, steps and records, and answers of the narrator in any order or not at all: a step is
\* explained, on the screen and in every flow that is mirrored, by what it has done, and the Todo file
\* follows the plan of the running turn (scheduleNarrations, enqueueNativeTodoSync).
THEOREM StepsAreExplained == NarrationSpec => []FlowToldTruly
<1> QED
  BY FlowStarts, FlowKept, FlowIsTold, PTL DEF NarrationSpec

-----------------------------------------------------------------------------
(* Reviews: what goes out is on the record, and once.                      *)

Packets == [note : ReviewNotes, text : Nat, at : Nat]
ReviewRecords == [digest : Packets, provider : Providers]

ReviewTypes ==
  /\ noteTexts \in [ReviewNotes -> Nat] /\ reviewSteps \in Nat /\ cliVersion \in 0..2
  /\ DOMAIN previews \subseteq Packets
  /\ \A d \in DOMAIN previews : previews[d].provider \in Providers /\ previews[d].packet = d
  /\ \/ reviewShown = NothingShown
     \/ reviewShown \in [kind : {"preview", "result"}, provider : Providers, digest : Packets]
  /\ \/ underReview = NoSend
     \/ underReview \in [phase : {"away", "failed", "recording"}, digest : Packets,
                         provider : Providers, version : 0..2]
  /\ transmitted \in Seq(ReviewRecords) /\ provenance \in Seq(ReviewRecords) /\ refusals \in Seq(Packets)

Sending(d) == underReview.phase \in {"away", "recording"} /\ underReview.digest = d

\* The inductive invariant.  A packet that may be sent - it has a preview and is not on its
\* way - has left no more often than it was refused; one whose preview is used up does not come
\* back, not even in the millisecond of its preview.
SendsAreCounted ==
  /\ \A d \in DOMAIN previews : d.at < reviewSteps /\ d.text <= noteTexts[d.note]
  /\ \A r \in ToSet(transmitted) : r.digest.at < reviewSteps
  /\ underReview.phase # "idle" => underReview.digest \in DOMAIN previews
  /\ reviewShown.kind = "preview" => reviewShown.digest \in DOMAIN previews
  /\ reviewShown.kind = "preview" =>
       \A r \in ToSet(transmitted) : r.digest.at = reviewShown.digest.at => r.digest \in DOMAIN previews
  /\ \A d \in Packets :
       ReviewTimes(d, transmitted)
         <= TimesRefused(d) + (IF d \notin DOMAIN previews \/ Sending(d) THEN 1 ELSE 0)

RecordsFit ==
  /\ underReview.phase \in {"away", "recording"} => ReviewRecord \in ToSet(transmitted)
  /\ reviewShown.kind = "result" => [digest |-> reviewShown.digest, provider |-> reviewShown.provider] \in ToSet(provenance)
  /\ ToSet(provenance) \subseteq ToSet(transmitted)

ReviewInv == ReviewTypes /\ SendsAreCounted /\ RecordsFit

\* What is appended is in the sequence, and nothing else is new.
LEMMA ToSetGrows ==
  ASSUME NEW S, NEW h \in Seq(S), NEW x \in S
  PROVE  ToSet(Append(h, x)) = ToSet(h) \union {x}
<1>1. /\ DOMAIN Append(h, x) = 1..(Len(h) + 1) /\ DOMAIN h = 1..Len(h) /\ Len(h) \in Nat
      /\ Append(h, x)[Len(h) + 1] = x
      /\ \A i \in 1..Len(h) : Append(h, x)[i] = h[i] /\ i \in 1..(Len(h) + 1)
      /\ \A i \in 1..(Len(h) + 1) : i \in 1..Len(h) \/ i = Len(h) + 1
  OBVIOUS
<1>2. ASSUME NEW y \in ToSet(Append(h, x)) PROVE y \in ToSet(h) \union {x}
  BY <1>1 DEF ToSet
<1>3. ASSUME NEW y \in ToSet(h) PROVE y \in ToSet(Append(h, x))
  BY <1>1 DEF ToSet
<1>4. x \in ToSet(Append(h, x))
  <2>1. Len(h) + 1 \in 1..(Len(h) + 1)
    BY <1>1
  <2> QED
    BY <1>1, <2>1 DEF ToSet
<1> QED
  BY <1>2, <1>3, <1>4

\* One more record counts for its own digest only.
LEMMA CountGrows ==
  ASSUME NEW S, NEW h \in Seq(S), NEW x \in S, NEW d
  PROVE  /\ ReviewTimes(d, h) \in Nat
         /\ ReviewTimes(d, Append(h, x)) = ReviewTimes(d, h) + (IF x.digest = d THEN 1 ELSE 0)
<1> DEFINE C == {i \in DOMAIN h : h[i].digest = d}
           D == {i \in DOMAIN Append(h, x) : Append(h, x)[i].digest = d}
<1>1. C \in SUBSET (1..Len(h)) /\ IsFiniteSet(C) /\ Cardinality(C) \in Nat
  <2>1. C \in SUBSET (1..Len(h)) /\ IsFiniteSet(1..Len(h))
    BY FS_Interval
  <2> QED
    BY <2>1, FS_Subset, FS_CardinalityType
<1>2. D = IF x.digest = d THEN C \union {Len(h) + 1} ELSE C
  OBVIOUS
<1>3. Len(h) + 1 \notin C
  BY <1>1
<1>4. Cardinality(C \union {Len(h) + 1}) = Cardinality(C) + 1
  BY <1>1, <1>3, FS_AddElement
<1>5. ReviewTimes(d, h) = Cardinality(C) /\ ReviewTimes(d, Append(h, x)) = Cardinality(D)
  BY DEF ReviewTimes
<1> HIDE DEF C, D
<1> QED
  BY <1>1, <1>2, <1>4, <1>5

\* So does one more refusal.
LEMMA RefusalGrows ==
  ASSUME NEW x \in Packets, NEW d, refusals \in Seq(Packets), refusals' = Append(refusals, x)
  PROVE  /\ TimesRefused(d) \in Nat /\ refusals' \in Seq(Packets)
         /\ TimesRefused(d)' = TimesRefused(d) + (IF x = d THEN 1 ELSE 0)
<1> DEFINE C == {i \in DOMAIN refusals : refusals[i] = d}
           D == {i \in DOMAIN refusals' : refusals'[i] = d}
<1>1. C \in SUBSET (1..Len(refusals)) /\ IsFiniteSet(C) /\ Cardinality(C) \in Nat
  <2>1. C \in SUBSET (1..Len(refusals)) /\ Len(refusals) \in Nat
    OBVIOUS
  <2>2. IsFiniteSet(1..Len(refusals))
    BY <2>1, FS_Interval
  <2> QED
    BY <2>1, <2>2, FS_Subset, FS_CardinalityType
<1>2. D = IF x = d THEN C \union {Len(refusals) + 1} ELSE C
  OBVIOUS
<1>3. Len(refusals) + 1 \notin C
  BY <1>1
<1>4. Cardinality(C \union {Len(refusals) + 1}) = Cardinality(C) + 1
  BY <1>1, <1>3, FS_AddElement
<1>5. TimesRefused(d)' = Cardinality(D)
  BY DEF TimesRefused
<1>6. refusals' \in Seq(Packets)
  OBVIOUS
<1> HIDE DEF C, D
<1>7. TimesRefused(d) = Cardinality(C)
  BY DEF TimesRefused, C
<1> QED
  BY <1>1, <1>2, <1>4, <1>5, <1>6, <1>7

\* The counts stay where nothing is appended.
LEMMA CountsAreNatural ==
  ASSUME ReviewTypes, NEW d
  PROVE  ReviewTimes(d, transmitted) \in Nat /\ TimesRefused(d) \in Nat
<1>1. {i \in DOMAIN transmitted : transmitted[i].digest = d} \in SUBSET (1..Len(transmitted))
      /\ {i \in DOMAIN refusals : refusals[i] = d} \in SUBSET (1..Len(refusals))
  BY DEF ReviewTypes
<1>2. IsFiniteSet(1..Len(transmitted)) /\ IsFiniteSet(1..Len(refusals))
  BY FS_Interval DEF ReviewTypes
<1>3. IsFiniteSet({i \in DOMAIN transmitted : transmitted[i].digest = d})
  BY <1>1, <1>2, FS_Subset
<1>4. IsFiniteSet({i \in DOMAIN refusals : refusals[i] = d})
  BY <1>1, <1>2, FS_Subset
<1> QED
  BY <1>3, <1>4, FS_CardinalityType DEF ReviewTimes, TimesRefused

\* What was transmitted are records of reviews.
LEMMA SentRecords ==
  ASSUME ReviewTypes
  PROVE  \A r \in ToSet(transmitted) : r \in ReviewRecords
  BY DEF ReviewTypes, ToSet

\* What no record has the digest of was never transmitted.
LEMMA NeverSent ==
  ASSUME ReviewTypes, NEW d, \A r \in ToSet(transmitted) : r.digest # d
  PROVE  ReviewTimes(d, transmitted) = 0
<1>1. {i \in DOMAIN transmitted : transmitted[i].digest = d} = {}
  BY DEF ToSet
<1> QED
  BY <1>1, FS_EmptySet DEF ReviewTimes

\* The invariant holds before the first preview.
LEMMA ReviewInitial == ReviewInit => ReviewInv
<1> SUFFICES ASSUME ReviewInit PROVE ReviewInv
  OBVIOUS
<1>1. ReviewTypes
  BY DEF ReviewInit, ReviewTypes
<1>2. ToSet(transmitted) = {} /\ ToSet(provenance) = {}
  BY DEF ReviewInit, ToSet
<1>3. \A d : ReviewTimes(d, transmitted) = 0
  BY <1>1, <1>2, NeverSent
<1>4. \A d : TimesRefused(d) \in Nat
  BY <1>1, CountsAreNatural
<1> QED
  BY <1>1, <1>2, <1>3, <1>4 DEF ReviewInit, ReviewInv, SendsAreCounted, RecordsFit, NoSend, NothingShown

\* An edit of the note keeps it.
LEMMA EditKeeps ==
  ASSUME ReviewInv, NEW note \in ReviewNotes, EditNote(note)
  PROVE  ReviewInv'
<1>1. /\ reviewSteps' = reviewSteps + 1 /\ noteTexts' = [noteTexts EXCEPT ![note] = @ + 1]
      /\ UNCHANGED <<previews, reviewShown, underReview, transmitted, refusals, provenance, cliVersion>>
  BY DEF EditNote
<1>2. noteTexts' \in [ReviewNotes -> Nat] /\ \A n \in ReviewNotes : noteTexts[n] <= noteTexts'[n]
  BY <1>1 DEF ReviewInv, ReviewTypes
<1>3. ReviewTypes'
  BY <1>1, <1>2 DEF ReviewInv, ReviewTypes
<1>4. \A d \in DOMAIN previews : d.at < reviewSteps + 1 /\ d.text <= noteTexts'[d.note]
  <2> SUFFICES ASSUME NEW d \in DOMAIN previews PROVE d.at < reviewSteps + 1 /\ d.text <= noteTexts'[d.note]
    OBVIOUS
  <2>1. d \in Packets /\ d.note \in ReviewNotes /\ d.text \in Nat /\ d.at \in Nat
    BY DEF ReviewInv, ReviewTypes, Packets
  <2>2. noteTexts[d.note] \in Nat /\ noteTexts'[d.note] \in Nat /\ noteTexts[d.note] <= noteTexts'[d.note]
    BY <1>2, <2>1 DEF ReviewInv, ReviewTypes
  <2>3. d.at < reviewSteps /\ d.text <= noteTexts[d.note] /\ reviewSteps \in Nat
    BY DEF ReviewInv, ReviewTypes, SendsAreCounted
  <2> QED
    BY <2>1, <2>2, <2>3
<1>5. \A r \in ToSet(transmitted) : r.digest.at < reviewSteps + 1
  <2> SUFFICES ASSUME NEW r \in ToSet(transmitted) PROVE r.digest.at < reviewSteps + 1
    OBVIOUS
  <2>1. r.digest.at \in Nat /\ reviewSteps \in Nat
    BY SentRecords DEF ReviewInv, ReviewTypes, ReviewRecords, Packets
  <2> QED
    BY <2>1 DEF ReviewInv, SendsAreCounted
<1>6. SendsAreCounted'
  BY <1>1, <1>4, <1>5 DEF ReviewInv, SendsAreCounted, Sending, TimesRefused
<1> QED
  BY <1>1, <1>3, <1>6 DEF ReviewInv, RecordsFit, ReviewRecord

\* So does a preview,
LEMMA PreviewKeeps ==
  ASSUME ReviewInv, NEW note \in ReviewNotes, NEW provider \in Providers, PreviewReview(note, provider)
  PROVE  ReviewInv'
<1>0. /\ underReview.phase = "idle" /\ reviewSteps' = reviewSteps + 1 /\ reviewSteps \in Nat
      /\ UNCHANGED <<noteTexts, underReview, transmitted, refusals, provenance, cliVersion>>
  BY DEF PreviewReview, ReviewInv, ReviewTypes
<1>1. PICK at \in {reviewSteps} \union SameMillisecond :
        LET packet == Packet(note, noteTexts[note], at)
        IN  /\ previews' = [d \in DOMAIN previews \union {Digest(packet)} |->
                              IF d = Digest(packet) THEN [provider |-> provider, packet |-> packet] ELSE previews[d]]
            /\ reviewShown' = [kind |-> "preview", provider |-> provider, digest |-> Digest(packet)]
  BY DEF PreviewReview
<1> DEFINE packet == Packet(note, noteTexts[note], at)
<1>2. \/ at = reviewSteps
      \/ /\ reviewShown.kind = "preview" /\ at = reviewShown.digest.at
         /\ reviewShown \in [kind : {"preview", "result"}, provider : Providers, digest : Packets]
  BY DEF SameMillisecond, ReviewInv, ReviewTypes, NothingShown
<1>3. at \in Nat
  BY <1>0, <1>2 DEF Packets
<1>4. /\ packet \in Packets /\ packet.at = at /\ packet.note = note /\ packet.text = noteTexts[note]
      /\ noteTexts[note] \in Nat
  BY <1>3 DEF Packet, Packets, ReviewInv, ReviewTypes
<1> HIDE DEF packet
<1>5. /\ DOMAIN previews' = DOMAIN previews \union {packet}
      /\ previews'[packet].provider = provider /\ previews'[packet].packet = packet
      /\ \A d \in DOMAIN previews : d # packet => previews'[d] = previews[d]
      /\ reviewShown' = [kind |-> "preview", provider |-> provider, digest |-> packet]
  BY <1>1 DEF packet, Digest
<1>6. ReviewTypes'
  BY <1>0, <1>4, <1>5 DEF ReviewInv, ReviewTypes
<1>7. at <= reviewSteps
  <2>1. CASE at = reviewSteps
    BY <1>0, <2>1
  <2>2. CASE at # reviewSteps
    <3>1. reviewShown.kind = "preview" /\ at = reviewShown.digest.at
      BY <1>2, <2>2
    <3> QED
      BY <1>0, <1>3, <3>1, <2>2 DEF ReviewInv, SendsAreCounted
  <2> QED
    BY <2>1, <2>2
<1>8. \A d \in DOMAIN previews' : d.at < reviewSteps' /\ d.text <= noteTexts'[d.note]
  <2> SUFFICES ASSUME NEW d \in DOMAIN previews' PROVE d.at < reviewSteps' /\ d.text <= noteTexts'[d.note]
    OBVIOUS
  <2>1. CASE d = packet
    BY <2>1, <1>0, <1>3, <1>4, <1>7
  <2>2. CASE d # packet
    <3>1. d \in DOMAIN previews /\ d \in Packets /\ d.at \in Nat
      BY <1>5, <2>2 DEF ReviewInv, ReviewTypes, Packets
    <3> QED
      BY <3>1, <1>0 DEF ReviewInv, SendsAreCounted
  <2> QED
    BY <2>1, <2>2
<1>9. \A r \in ToSet(transmitted) : r.digest.at < reviewSteps' /\ r.digest.at < reviewSteps /\ r.digest.at \in Nat
  <2> SUFFICES ASSUME NEW r \in ToSet(transmitted)
               PROVE  r.digest.at < reviewSteps' /\ r.digest.at < reviewSteps /\ r.digest.at \in Nat
    OBVIOUS
  <2>1. r.digest.at \in Nat
    BY SentRecords DEF ReviewInv, ReviewRecords, Packets
  <2> QED
    BY <2>1, <1>0 DEF ReviewInv, SendsAreCounted
\* What has left and was made at this time has its preview still.
<1>10. \A r \in ToSet(transmitted) : r.digest.at = at => r.digest \in DOMAIN previews
  BY <1>0, <1>2, <1>9 DEF ReviewInv, SendsAreCounted
<1>11. ASSUME NEW d \in Packets
       PROVE  ReviewTimes(d, transmitted)
                <= TimesRefused(d) + (IF d \notin DOMAIN previews' \/ Sending(d) THEN 1 ELSE 0)
  <2>0. ReviewTimes(d, transmitted) \in Nat /\ TimesRefused(d) \in Nat
    BY CountsAreNatural DEF ReviewInv
  <2>1. CASE d = packet /\ packet \notin DOMAIN previews
    <3>1. \A r \in ToSet(transmitted) : r.digest # d
      BY <2>1, <1>4, <1>10
    <3>2. ReviewTimes(d, transmitted) = 0
      BY <3>1, NeverSent DEF ReviewInv
    <3> QED
      BY <2>0, <3>2
  <2>2. CASE ~(d = packet /\ packet \notin DOMAIN previews)
    <3>1. d \in DOMAIN previews' <=> d \in DOMAIN previews
      BY <2>2, <1>5
    <3> QED
      BY <3>1 DEF ReviewInv, SendsAreCounted
  <2> QED
    BY <2>1, <2>2
<1>12. SendsAreCounted'
  BY <1>0, <1>4, <1>5, <1>8, <1>9, <1>10, <1>11 DEF SendsAreCounted, Sending, TimesRefused, ReviewTimes
<1> QED
  BY <1>0, <1>5, <1>6, <1>12 DEF ReviewInv, RecordsFit, ReviewRecord

\* the transmission of an approved one,
LEMMA SendKeeps ==
  ASSUME ReviewInv, NEW d \in DOMAIN previews, SendReview(d)
  PROVE  ReviewInv'
<1> DEFINE phase == IF previews[d].provider = "google" \/ cliVersion # 0 THEN "away" ELSE "failed"
           sent == [digest |-> d, provider |-> previews[d].provider]
<1>1. /\ underReview.phase = "idle"
      /\ underReview' = [phase |-> phase, digest |-> d, provider |-> previews[d].provider, version |-> cliVersion]
      /\ transmitted' = IF phase = "away" THEN Append(transmitted, sent) ELSE transmitted
      /\ UNCHANGED <<noteTexts, previews, reviewShown, refusals, provenance, cliVersion, reviewSteps>>
  BY DEF SendReview
<1>2. d \in Packets /\ previews[d].provider \in Providers /\ sent \in ReviewRecords /\ phase \in {"away", "failed"}
  BY DEF ReviewInv, ReviewTypes, ReviewRecords
<1> HIDE DEF phase
<1>3. transmitted' \in Seq(ReviewRecords)
  BY <1>1, <1>2 DEF ReviewInv, ReviewTypes
<1>4. ReviewTypes'
  BY <1>1, <1>2, <1>3 DEF ReviewInv, ReviewTypes
<1>5. \A r : r \in ToSet(transmitted') <=> r \in ToSet(transmitted) \/ (phase = "away" /\ r = sent)
  <2>1. transmitted \in Seq(ReviewRecords)
    BY DEF ReviewInv, ReviewTypes
  <2>2. CASE phase = "away"
    <3> HIDE DEF sent
    <3>1. ToSet(Append(transmitted, sent)) = ToSet(transmitted) \union {sent}
      BY <1>2, <2>1, ToSetGrows
    <3> QED
      BY <1>1, <2>2, <3>1
  <2> QED
    BY <1>1, <2>2
<1>6. /\ \A r \in ToSet(transmitted') : r.digest.at < reviewSteps
      /\ reviewShown.kind = "preview" =>
           \A r \in ToSet(transmitted') : r.digest.at = reviewShown.digest.at => r.digest \in DOMAIN previews
  <2>1. sent.digest = d
    OBVIOUS
  <2> HIDE DEF sent
  <2> QED
    BY <1>5, <2>1 DEF ReviewInv, SendsAreCounted
<1>7. ASSUME NEW e \in Packets
      PROVE  ReviewTimes(e, transmitted')
               <= TimesRefused(e) + (IF e \notin DOMAIN previews \/ Sending(e)' THEN 1 ELSE 0)
  <2>0. ReviewTimes(e, transmitted) \in Nat /\ TimesRefused(e) \in Nat
    BY CountsAreNatural DEF ReviewInv
  <2>1. ReviewTimes(e, transmitted) <= TimesRefused(e) + (IF e \notin DOMAIN previews THEN 1 ELSE 0)
    BY <1>1 DEF ReviewInv, SendsAreCounted, Sending
  <2>2. CASE phase = "away"
    <3>1. ReviewTimes(e, transmitted') = ReviewTimes(e, transmitted) + (IF sent.digest = e THEN 1 ELSE 0)
      BY <1>1, <1>2, <2>2, CountGrows DEF ReviewInv, ReviewTypes
    <3>2. Sending(e)' <=> e = d
      BY <1>1, <2>2 DEF Sending
    <3> QED
      BY <2>0, <2>1, <3>1, <3>2
  <2>3. CASE phase # "away"
    BY <1>1, <1>2, <2>0, <2>1, <2>3
  <2> QED
    BY <2>2, <2>3
<1>8. SendsAreCounted'
  BY <1>1, <1>2, <1>6, <1>7 DEF ReviewInv, SendsAreCounted, TimesRefused, ReviewTimes
<1>9. RecordsFit'
  <2>1. underReview'.phase = "away" => phase = "away" /\ ReviewRecord' = sent
    BY <1>1 DEF ReviewRecord
  <2>2. underReview'.phase # "recording"
    BY <1>1, <1>2
  <2> HIDE DEF sent
  <2> QED
    BY <1>1, <1>5, <2>1, <2>2 DEF ReviewInv, RecordsFit
<1> QED
  BY <1>4, <1>8, <1>9 DEF ReviewInv

\* A send that ends without a result: it is refused once more, and may be made again.
LEMMA RefuseKeeps ==
  ASSUME ReviewInv, underReview.phase # "idle", underReview' = NoSend,
         refusals' = Append(refusals, underReview.digest),
         \/ UNCHANGED <<previews, reviewShown>>
         \/ previews' = <<>> /\ reviewShown' = NothingShown,
         provenance' \in {provenance, Append(provenance, ReviewRecord)},
         underReview.phase # "recording" => provenance' = provenance,
         UNCHANGED <<transmitted, noteTexts, cliVersion, reviewSteps>>
  PROVE  ReviewInv'
<1>1. underReview.digest \in Packets /\ underReview.provider \in Providers
  BY DEF ReviewInv, ReviewTypes, NoSend
<1>2. refusals' \in Seq(Packets)
  BY <1>1, RefusalGrows DEF ReviewInv, ReviewTypes
<1>3. DOMAIN previews' \subseteq DOMAIN previews /\ \A d \in DOMAIN previews' : previews'[d] = previews[d]
  OBVIOUS
<1>4. provenance' \in Seq(ReviewRecords) /\ ToSet(provenance') \subseteq ToSet(transmitted)
      /\ ToSet(provenance) \subseteq ToSet(provenance')
  <2>1. provenance \in Seq(ReviewRecords) /\ ReviewRecord \in ReviewRecords
    BY <1>1 DEF ReviewInv, ReviewTypes, ReviewRecord, ReviewRecords
  <2>2. CASE provenance' = provenance
    BY <2>1, <2>2 DEF ReviewInv, RecordsFit
  <2>3. CASE provenance' # provenance
    <3>1. provenance' = Append(provenance, ReviewRecord) /\ ReviewRecord \in ToSet(transmitted)
      BY <2>3 DEF ReviewInv, RecordsFit
    <3>2. ToSet(Append(provenance, ReviewRecord)) = ToSet(provenance) \union {ReviewRecord}
      BY <2>1, ToSetGrows
    <3> QED
      BY <2>1, <3>1, <3>2 DEF ReviewInv, RecordsFit
  <2> QED
    BY <2>2, <2>3
<1>5. ReviewTypes'
  BY <1>2, <1>3, <1>4 DEF ReviewInv, ReviewTypes
<1>6. ASSUME NEW e \in Packets
      PROVE  ReviewTimes(e, transmitted)
               <= TimesRefused(e)' + (IF e \notin DOMAIN previews' THEN 1 ELSE 0)
  <2>0. ReviewTimes(e, transmitted) \in Nat /\ TimesRefused(e) \in Nat
    BY CountsAreNatural DEF ReviewInv
  <2>1. TimesRefused(e)' = TimesRefused(e) + (IF underReview.digest = e THEN 1 ELSE 0)
    BY <1>1, RefusalGrows DEF ReviewInv, ReviewTypes
  <2>2. ReviewTimes(e, transmitted) <= TimesRefused(e) + (IF e \notin DOMAIN previews \/ Sending(e) THEN 1 ELSE 0)
    BY DEF ReviewInv, SendsAreCounted
  <2>3. e \notin DOMAIN previews => e \notin DOMAIN previews' /\ underReview.digest # e
    BY <1>3 DEF ReviewInv, SendsAreCounted
  <2>4. Sending(e) => underReview.digest = e
    BY DEF Sending
  <2> QED
    BY <2>0, <2>1, <2>2, <2>3, <2>4
<1>7. SendsAreCounted'
  <2>1. ~Sending(underReview.digest)' /\ underReview'.phase = "idle" /\ \A e : ~Sending(e)'
    BY DEF Sending, NoSend
  <2>2. reviewShown'.kind = "preview" => previews' = previews /\ reviewShown' = reviewShown
    BY DEF NothingShown
  <2> QED
    BY <1>3, <1>6, <2>1, <2>2 DEF ReviewInv, SendsAreCounted, ReviewTimes
<1>8. RecordsFit'
  <2>1. underReview'.phase = "idle"
    BY DEF NoSend
  <2>2. reviewShown'.kind = "result" => reviewShown' = reviewShown
    BY DEF NothingShown
  <2> QED
    BY <1>4, <2>1, <2>2 DEF ReviewInv, RecordsFit
<1> QED
  BY <1>5, <1>7, <1>8 DEF ReviewInv

\* and the record of its provenance, or the failure to store it.
LEMMA RecordKeeps ==
  ASSUME ReviewInv, RecordReview
  PROVE  ReviewInv'
<1>1. /\ underReview.phase = "recording" /\ provenance' = Append(provenance, ReviewRecord)
      /\ previews' = [d \in DOMAIN previews \ {underReview.digest} |-> previews[d]]
      /\ reviewShown' = [kind |-> "result", provider |-> underReview.provider, digest |-> underReview.digest]
      /\ underReview' = NoSend
      /\ UNCHANGED <<transmitted, refusals, noteTexts, cliVersion, reviewSteps>>
  BY DEF RecordReview, Recorded, KeepsReviews
<1>2. underReview.digest \in Packets /\ underReview.provider \in Providers
  BY <1>1 DEF ReviewInv, ReviewTypes, NoSend
<1>3. /\ ReviewRecord \in ReviewRecords /\ provenance \in Seq(ReviewRecords)
      /\ ReviewRecord \in ToSet(transmitted)
      /\ ReviewRecord = [digest |-> underReview.digest, provider |-> underReview.provider]
  BY <1>1, <1>2 DEF ReviewInv, ReviewTypes, RecordsFit, ReviewRecord, ReviewRecords
<1>4. ToSet(provenance') = ToSet(provenance) \union {ReviewRecord} /\ provenance' \in Seq(ReviewRecords)
  BY <1>1, <1>3, ToSetGrows
<1>5. ReviewTypes'
  BY <1>1, <1>2, <1>4 DEF ReviewInv, ReviewTypes
<1>6. ASSUME NEW e \in Packets
      PROVE  ReviewTimes(e, transmitted)
               <= TimesRefused(e) + (IF e \notin DOMAIN previews' THEN 1 ELSE 0)
  <2>2. ReviewTimes(e, transmitted) <= TimesRefused(e) + (IF e \notin DOMAIN previews \/ Sending(e) THEN 1 ELSE 0)
    BY DEF ReviewInv, SendsAreCounted
  <2>3. e \notin DOMAIN previews \/ Sending(e) => e \notin DOMAIN previews'
    BY <1>1 DEF Sending
  <2>4. ReviewTimes(e, transmitted) \in Nat /\ TimesRefused(e) \in Nat
    BY CountsAreNatural DEF ReviewInv
  <2> QED
    BY <2>2, <2>3, <2>4
<1>7. SendsAreCounted'
  <2>1. underReview'.phase = "idle" /\ \A e : ~Sending(e)'
    BY <1>1 DEF Sending, NoSend
  <2>2. reviewShown'.kind # "preview"
    BY <1>1
  <2> QED
    BY <1>1, <1>6, <2>1, <2>2 DEF ReviewInv, SendsAreCounted, ReviewTimes, TimesRefused
<1>8. RecordsFit'
  <2>1. underReview'.phase = "idle"
    BY <1>1 DEF NoSend
  <2>2. reviewShown'.digest = underReview.digest /\ reviewShown'.provider = underReview.provider
    BY <1>1
  <2> QED
    BY <1>1, <1>3, <1>4, <2>1, <2>2 DEF ReviewInv, RecordsFit
<1> QED
  BY <1>5, <1>7, <1>8 DEF ReviewInv

\* Every step keeps it.
LEMMA ReviewStep == ReviewInv /\ [ReviewNext]_reviewVars => ReviewInv'
<1> SUFFICES ASSUME ReviewInv, [ReviewNext]_reviewVars PROVE ReviewInv'
  OBVIOUS
<1> USE DEF KeepsReviews
<1>1. CASE UNCHANGED reviewVars
  BY <1>1 DEF reviewVars, ReviewInv, ReviewTypes, SendsAreCounted, RecordsFit, Sending, TimesRefused,
              ReviewTimes, ReviewRecord
<1>2. CASE CliChanges
  <2>1. cliVersion' \in 0..2
        /\ UNCHANGED <<noteTexts, previews, reviewShown, underReview, transmitted, refusals, provenance, reviewSteps>>
    BY <1>2 DEF CliChanges
  <2> QED
    BY <2>1 DEF ReviewInv, ReviewTypes, SendsAreCounted, RecordsFit, Sending, TimesRefused, ReviewTimes, ReviewRecord
<1>3. CASE ReviewFails
  BY <1>3, RefuseKeeps DEF ReviewFails, Refuse
<1>4. CASE ReviewUnavailable
  BY <1>4, RefuseKeeps DEF ReviewUnavailable, Refuse
<1>5. CASE ReviewAnswers
  <2>1. CASE ~FitsAdapter
    BY <1>5, <2>1, RefuseKeeps DEF ReviewAnswers, Refuse
  <2>2. CASE FitsAdapter
    <3>1. /\ underReview.phase = "away" /\ underReview' = [underReview EXCEPT !.phase = "recording"]
          /\ UNCHANGED <<noteTexts, previews, reviewShown, transmitted, refusals, provenance, cliVersion, reviewSteps>>
      BY <1>5, <2>2 DEF ReviewAnswers, SendTo
    <3>2. underReview \in [phase : {"away", "failed", "recording"}, digest : Packets, provider : Providers, version : 0..2]
      BY <3>1 DEF ReviewInv, ReviewTypes, NoSend
    <3>3. /\ underReview' \in [phase : {"away", "failed", "recording"}, digest : Packets, provider : Providers, version : 0..2]
          /\ underReview'.phase = "recording" /\ underReview'.digest = underReview.digest
          /\ underReview'.provider = underReview.provider
      BY <3>1, <3>2
    <3>4. \A e : Sending(e)' <=> Sending(e)
      BY <3>1, <3>3 DEF Sending
    <3>5. ReviewRecord' = ReviewRecord
      BY <3>3 DEF ReviewRecord
    <3>6. ReviewTypes'
      BY <3>1, <3>3 DEF ReviewInv, ReviewTypes
    <3>7. SendsAreCounted'
      BY <3>1, <3>3, <3>4 DEF ReviewInv, SendsAreCounted, TimesRefused, ReviewTimes
    <3> QED
      BY <3>1, <3>3, <3>5, <3>6, <3>7 DEF ReviewInv, RecordsFit
  <2> QED
    BY <2>1, <2>2
<1>6. CASE RecordFails
  BY <1>6, RefuseKeeps DEF RecordFails, Refuse
<1>7. CASE ReviewerRestarts
  <2>1. CASE underReview.phase # "idle"
    BY <1>7, <2>1, RefuseKeeps DEF ReviewerRestarts
  <2>2. CASE underReview.phase = "idle"
    <3>1. /\ previews' = <<>> /\ reviewShown' = NothingShown /\ underReview' = NoSend
          /\ UNCHANGED <<noteTexts, transmitted, refusals, provenance, cliVersion, reviewSteps>>
      BY <1>7, <2>2 DEF ReviewerRestarts
    <3>2. ASSUME NEW e \in Packets PROVE ReviewTimes(e, transmitted) <= TimesRefused(e) + 1
      <4>1. ReviewTimes(e, transmitted) <= TimesRefused(e) + (IF e \notin DOMAIN previews \/ Sending(e) THEN 1 ELSE 0)
        BY DEF ReviewInv, SendsAreCounted
      <4>2. ReviewTimes(e, transmitted) \in Nat /\ TimesRefused(e) \in Nat
        BY CountsAreNatural DEF ReviewInv
      <4> QED
        BY <4>1, <4>2
    <3>3. ReviewTypes'
      BY <3>1 DEF ReviewInv, ReviewTypes
    <3>4. SendsAreCounted'
      BY <3>1, <3>2 DEF ReviewInv, SendsAreCounted, ReviewTimes, TimesRefused, NoSend, NothingShown
    <3> QED
      BY <3>1, <3>3, <3>4 DEF ReviewInv, RecordsFit, NoSend, NothingShown
  <2> QED
    BY <2>1, <2>2
<1>8. CASE RecordReview
  BY <1>8, RecordKeeps
<1> QED
  BY <1>1, <1>2, <1>3, <1>4, <1>5, <1>6, <1>7, <1>8, EditKeeps, PreviewKeeps, SendKeeps DEF ReviewNext

\* It says that what is shown is on record, and how often a packet may have left.
LEMMA ReviewInvImplies == ReviewInv => ReviewsOnRecord
<1> SUFFICES ASSUME ReviewInv PROVE ReviewsOnRecord
  OBVIOUS
<1>1. ASSUME NEW r \in ToSet(transmitted)
      PROVE  ReviewTimes(r.digest, transmitted) <= 1 + TimesRefused(r.digest)
  <2>1. r.digest \in Packets
    BY SentRecords DEF ReviewInv, ReviewRecords
  <2>2. ReviewTimes(r.digest, transmitted) \in Nat /\ TimesRefused(r.digest) \in Nat
    BY CountsAreNatural DEF ReviewInv
  <2>3. ReviewTimes(r.digest, transmitted)
          <= TimesRefused(r.digest) + (IF r.digest \notin DOMAIN previews \/ Sending(r.digest) THEN 1 ELSE 0)
    BY <2>1 DEF ReviewInv, SendsAreCounted
  <2> QED
    BY <2>2, <2>3
<1> QED
  BY <1>1 DEF ReviewInv, RecordsFit, ReviewsOnRecord

\* A result that is shown has its record, a packet leaves again only after a send of it that ended
\* without a result, and nothing is on record that did not leave (ReviewService.send, sendReview).
THEOREM ReviewsAreOnRecord == ReviewSpec => []ReviewsOnRecord
<1>1. ReviewInit => ReviewInv
  BY ReviewInitial
<1>2. ReviewInv /\ [ReviewNext]_reviewVars => ReviewInv'
  BY ReviewStep
<1>3. ReviewInv => ReviewsOnRecord
  BY ReviewInvImplies
<1> QED
  BY <1>1, <1>2, <1>3, PTL DEF ReviewSpec

-----------------------------------------------------------------------------
(* Usage reports: an account's quota is shown with that account's login.   *)

Credentials == [account : Accounts \union {"none"}, token : Nat]
Quotas == [state : {"loading", "auth-required", "error", "ready"}, account : Accounts \union {"none"},
           at : Nat, stale : BOOLEAN, fetch : Nat]
Askings == [phase : {"idle", "auth", "rotating", "read", "fetch", "done"}, with : Credentials,
            result : Quotas, fetch : Nat]
Operations == [on : StoreProviders, does : {"login", "logout", "rotate"}, loaded : BOOLEAN,
               file : [StoreProviders -> Credentials]]

\* The operations of the store: only the first has loaded the file, which is still as it loaded it.
StoreSound ==
  /\ credentials \in [StoreProviders -> Credentials] /\ settled = credentials
  /\ writeChain \in Seq(Operations)
  /\ \A i \in DOMAIN writeChain : writeChain[i].loaded => i = 1 /\ writeChain[i].file = credentials

\* A quota that has an account was asked for after the last time that none was stored.
After(quota, out) == quota.account # "none" => quota.fetch > out

\* What the service knows of one provider.
ProviderSound(p) ==
  /\ seenOut[p] <= refreshes
  /\ asking[p].phase \in {"auth", "rotating", "read", "fetch"} => seenOut[p] < refreshes
  /\ asking[p].phase = "fetch" => asking[p].fetch = refreshes
  /\ After(lastReady[p], seenOut[p])
  /\ asking[p].phase = "done" => After(asking[p].result, seenOut[p])
  /\ asking[p].phase = "idle" => After(quotas[p], seenOut[p])

ServiceTypes ==
  /\ clock \in Nat /\ refreshes \in Nat /\ seenOut \in [UsageProviders -> Nat]
  /\ asking \in [UsageProviders -> Askings]
  /\ lastReady \in [UsageProviders -> Quotas] /\ quotas \in [UsageProviders -> Quotas]

ReportsInv == StoreSound /\ ServiceTypes /\ \A p \in UsageProviders : ProviderSound(p)

\* The invariant holds before the first login.
LEMMA ReportsInit == UsageInit => ReportsInv
<1> SUFFICES ASSUME UsageInit PROVE ReportsInv
  OBVIOUS
<1>1. NoCredential \in Credentials /\ NoQuota \in Quotas /\ NotAsked \in Askings
  BY DEF NoCredential, NoQuota, NotAsked, Credentials, Quotas, Askings
<1>2. StoreSound
  BY <1>1 DEF UsageInit, StoreSound
<1>3. ServiceTypes
  BY <1>1 DEF UsageInit, ServiceTypes
<1> QED
  BY <1>2, <1>3 DEF UsageInit, ReportsInv, ProviderSound, NotAsked, NoQuota, After

\* A further operation waits behind the others and changes no file.
LEMMA EnqueueKeepsStore ==
  ASSUME StoreSound, NEW p \in StoreProviders, NEW does \in {"login", "logout", "rotate"}, Enqueue(p, does)
  PROVE  StoreSound'
<1> DEFINE op == [on |-> p, does |-> does, loaded |-> FALSE, file |-> credentials]
<1>1. writeChain' = Append(writeChain, op) /\ UNCHANGED <<credentials, settled>> /\ op \in Operations
  BY DEF Enqueue, StoreSound, Operations
<1>2. writeChain' \in Seq(Operations)
  BY <1>1 DEF StoreSound
<1>3. ASSUME NEW i \in DOMAIN writeChain', writeChain'[i].loaded
      PROVE  i = 1 /\ writeChain'[i].file = credentials'
  <2>1. i \in DOMAIN writeChain /\ writeChain'[i] = writeChain[i]
    <3>1. op.loaded = FALSE
      OBVIOUS
    <3> QED
      BY <1>1, <1>3, <3>1 DEF StoreSound
  <2> QED
    BY <1>1, <1>3, <2>1 DEF StoreSound
<1> QED
  BY <1>1, <1>2, <1>3 DEF StoreSound

\* An operation that is over leaves the others, none of which has loaded anything.
LEMMA FirstIsOver ==
  ASSUME StoreSound, 1 \in DOMAIN writeChain
  PROVE  /\ RemoveAt(writeChain, 1) \in Seq(Operations)
         /\ \A i \in DOMAIN RemoveAt(writeChain, 1) : ~RemoveAt(writeChain, 1)[i].loaded
<1>1. RemoveAt(writeChain, 1) = Tail(writeChain)
  <2>1. writeChain # <<>> /\ Len(writeChain) \in Nat
    BY DEF StoreSound
  <2>2. RemoveAt(writeChain, 1) = SubSeq(writeChain, 1, 0) \o SubSeq(writeChain, 2, Len(writeChain))
    BY DEF RemoveAt
  <2>3. SubSeq(writeChain, 1, 0) = <<>> /\ SubSeq(writeChain, 2, Len(writeChain)) = Tail(writeChain)
    BY <2>1 DEF StoreSound
  <2> QED
    BY <2>1, <2>2, <2>3 DEF StoreSound
<1>2. \A i \in DOMAIN Tail(writeChain) : i + 1 \in DOMAIN writeChain /\ i + 1 # 1 /\ Tail(writeChain)[i] = writeChain[i + 1]
  BY DEF StoreSound
<1>3. Tail(writeChain) \in Seq(Operations)
  <2>1. writeChain # <<>>
    BY DEF StoreSound
  <2> QED
    BY <2>1 DEF StoreSound
<1> QED
  BY <1>1, <1>2, <1>3 DEF StoreSound

\* An operation on the credential file loads, saves or fails on what it alone is at.
LEMMA StoreStep ==
  ASSUME ReportsInv, NEW i \in 1..MaxCredentialOps, LoadFile(i) \/ SaveFile(i) \/ OperationFails(i)
  PROVE  StoreSound'
<1>1. i \in DOMAIN writeChain /\ i = 1
  BY DEF LoadFile, SaveFile, OperationFails, Turn
<1>2. writeChain[1] \in Operations /\ writeChain \in Seq(Operations)
  BY <1>1 DEF ReportsInv, StoreSound
<1>3. CASE LoadFile(i)
  <2>1. /\ writeChain' = [writeChain EXCEPT ![1].loaded = TRUE, ![1].file = credentials]
        /\ UNCHANGED <<credentials, settled>>
    BY <1>1, <1>3 DEF LoadFile
  <2>2. [writeChain[1] EXCEPT !.loaded = TRUE, !.file = credentials] \in Operations
    BY <1>2 DEF Operations, ReportsInv, StoreSound
  <2>3. writeChain' = [writeChain EXCEPT ![1] = [writeChain[1] EXCEPT !.loaded = TRUE, !.file = credentials]]
    BY <2>1
  <2>4. writeChain' \in Seq(Operations) /\ DOMAIN writeChain' = DOMAIN writeChain
    BY <1>1, <1>2, <2>2, <2>3, ExceptSeq
  <2>5. writeChain'[1].file = credentials /\ \A j \in DOMAIN writeChain : j # 1 => writeChain'[j] = writeChain[j]
    BY <1>1, <1>2, <2>3 DEF Operations
  <2> QED
    BY <2>1, <2>4, <2>5 DEF ReportsInv, StoreSound
<1>4. CASE SaveFile(i)
  <2>1. PICK new \in Updated(writeChain[1]) :
          /\ credentials' = [writeChain[1].file EXCEPT ![writeChain[1].on] = new]
          /\ settled' = [settled EXCEPT ![writeChain[1].on] = new]
    BY <1>1, <1>4 DEF SaveFile
  <2>2. writeChain[1].file = credentials
    BY <1>1, <1>4 DEF SaveFile, ReportsInv, StoreSound
  <2>3. new \in Credentials
    <3>1. writeChain[1].file[writeChain[1].on] \in Credentials
      BY <1>2 DEF Operations
    <3>2. CASE writeChain[1].does = "login"
      <4>1. new \in {[account |-> a, token |-> writeChain[1].file[writeChain[1].on].token + 1] : a \in Accounts}
        BY <3>2 DEF Updated
      <4> QED
        BY <3>1, <4>1 DEF Credentials
    <3>3. CASE writeChain[1].does = "logout"
      BY <3>3 DEF Updated, Credentials, NoCredential
    <3>4. CASE writeChain[1].does = "rotate"
      <4> DEFINE old == writeChain[1].file[writeChain[1].on]
      <4>1. new = IF old = NoCredential THEN old ELSE [old EXCEPT !.token = @ + 1]
        BY <3>4 DEF Updated
      <4> QED
        BY <3>1, <4>1 DEF Credentials
    <3> QED
      BY <1>2, <3>2, <3>3, <3>4 DEF Operations
  <2>4. credentials' \in [StoreProviders -> Credentials] /\ settled' = credentials'
    BY <1>2, <2>1, <2>2, <2>3 DEF Operations, ReportsInv, StoreSound
  <2>5. writeChain' = RemoveAt(writeChain, 1)
    BY <1>1, <1>4 DEF SaveFile
  <2> QED
    BY <1>1, <2>4, <2>5, FirstIsOver DEF ReportsInv, StoreSound
<1>5. CASE OperationFails(i)
  <2>1. writeChain' = RemoveAt(writeChain, 1) /\ UNCHANGED <<credentials, settled>>
    BY <1>1, <1>5 DEF OperationFails
  <2> QED
    BY <1>1, <2>1, FirstIsOver DEF ReportsInv, StoreSound
<1> QED
  BY <1>3, <1>4, <1>5

-----------------------------------------------------------------------------
\* What one provider's chain does leaves the others as they are.
Advances(p) ==
  /\ asking' \in [UsageProviders -> Askings] /\ lastReady' \in [UsageProviders -> Quotas]
  /\ seenOut' \in [UsageProviders -> Nat]
  /\ UNCHANGED <<clock, quotas, refreshes>>
  /\ \A q \in UsageProviders :
       q # p => asking'[q] = asking[q] /\ lastReady'[q] = lastReady[q] /\ seenOut'[q] = seenOut[q]

\* A step of one provider's report leaves the others' as they are.
LEMMA OneAdvances ==
  ASSUME ReportsInv, NEW p \in UsageProviders, Advances(p), ProviderSound(p)'
  PROVE  ServiceTypes' /\ \A q \in UsageProviders : ProviderSound(q)'
<1>1. ServiceTypes'
  BY DEF ReportsInv, ServiceTypes, Advances
<1>2. ASSUME NEW q \in UsageProviders, q # p PROVE ProviderSound(q)'
  BY <1>2 DEF ReportsInv, ProviderSound, Advances
<1> QED
  BY <1>1, <1>2

\* An asking that goes on keeps what is known of its provider.
LEMMA AskToAdvances ==
  ASSUME ReportsInv, NEW p \in UsageProviders, NEW phase \in {"rotating", "read"}, AskTo(p, phase),
         asking[p].phase \in {"auth", "rotating"},
         UNCHANGED <<clock, quotas, refreshes, lastReady, seenOut>>
  PROVE  ServiceTypes' /\ \A q \in UsageProviders : ProviderSound(q)'
<1>1. asking[p] \in Askings /\ asking' = [asking EXCEPT ![p] = [asking[p] EXCEPT !.phase = phase]]
  BY DEF AskTo, ReportsInv, ServiceTypes
<1>2. [asking[p] EXCEPT !.phase = phase] \in Askings
  BY <1>1 DEF Askings
<1>3. asking' \in [UsageProviders -> Askings] /\ asking'[p].phase = phase
  BY <1>1, <1>2 DEF ReportsInv, ServiceTypes, Askings
<1>4. Advances(p)
  BY <1>1, <1>3 DEF Advances, ReportsInv, ServiceTypes
<1>5. ProviderSound(p)'
  BY <1>3 DEF ProviderSound, ReportsInv
<1> QED
  BY <1>4, <1>5, OneAdvances

\* An answer fetched after the last time the account was seen gone keeps the reports sound.
LEMMA AnswersAdvance ==
  ASSUME ReportsInv, NEW p \in UsageProviders, NEW quota \in Quotas, Answers(p, quota),
         lastReady' \in [UsageProviders -> Quotas], seenOut' \in [UsageProviders -> Nat],
         \A q \in UsageProviders : q # p => lastReady'[q] = lastReady[q] /\ seenOut'[q] = seenOut[q],
         UNCHANGED <<clock, quotas, refreshes>>,
         seenOut'[p] <= refreshes, After(quota, seenOut'[p]), After(lastReady'[p], seenOut'[p])
  PROVE  ServiceTypes' /\ \A q \in UsageProviders : ProviderSound(q)'
<1> DEFINE answered == [NotAsked EXCEPT !.phase = "done", !.result = quota]
<1>1. /\ answered \in Askings /\ answered.phase = "done" /\ answered.result = quota
      /\ asking' = [asking EXCEPT ![p] = answered]
  BY DEF Answers, NotAsked, Askings, NoCredential, Credentials, Quotas, NoQuota
<1> HIDE DEF answered
<1>2. asking' \in [UsageProviders -> Askings] /\ asking'[p] = answered
  BY <1>1 DEF ReportsInv, ServiceTypes
<1>3. Advances(p)
  BY <1>1, <1>2 DEF Advances, ReportsInv, ServiceTypes
<1>4. ProviderSound(p)'
  BY <1>1, <1>2 DEF ProviderSound
<1> QED
  BY <1>3, <1>4, OneAdvances

\* What is shown when asking fails was fetched after the account was last seen gone.
LEMMA DegradedIsAfter ==
  ASSUME ReportsInv, NEW p \in UsageProviders
  PROVE  Degraded(p) \in Quotas /\ After(Degraded(p), seenOut[p]) /\ After(lastReady[p], seenOut[p])
         /\ lastReady[p] \in Quotas /\ seenOut[p] <= refreshes
<1>1. lastReady[p] \in Quotas /\ ProviderSound(p)
  BY DEF ReportsInv, ServiceTypes
<1>2. CASE lastReady[p] = NoQuota
  BY <1>1, <1>2 DEF Degraded, NoQuota, Quotas, After, ProviderSound
<1>3. CASE lastReady[p] # NoQuota
  <2>1. Degraded(p) = [lastReady[p] EXCEPT !.stale = TRUE]
    BY <1>3 DEF Degraded
  <2>2. Degraded(p) \in Quotas /\ Degraded(p).account = lastReady[p].account /\ Degraded(p).fetch = lastReady[p].fetch
    BY <1>1, <2>1 DEF Quotas
  <2> QED
    BY <1>1, <2>2 DEF After, ProviderSound
<1> QED
  BY <1>2, <1>3

\* The credential that is read says whether there is a login.
LEMMA ReadStoredAdvances ==
  ASSUME ReportsInv, NEW p \in UsageProviders, ReadStored(p)
  PROVE  ServiceTypes' /\ \A q \in UsageProviders : ProviderSound(q)'
<1>1. asking[p].phase = "read" /\ UNCHANGED <<clock, quotas, refreshes>>
  BY DEF ReadStored, KeepsUsage
<1>2. asking[p] \in Askings /\ ProviderSound(p) /\ p \in StoreProviders
  BY UsageAssumption DEF ReportsInv, ServiceTypes
<1>3. CASE credentials[p] = NoCredential
  <2> DEFINE quota == [NoQuota EXCEPT !.state = "auth-required"]
  <2>1. /\ Answers(p, quota) /\ lastReady' = [lastReady EXCEPT ![p] = NoQuota]
        /\ seenOut' = [seenOut EXCEPT ![p] = refreshes]
    BY <1>3 DEF ReadStored, NotStored, ClearProviderState
  <2>2. quota \in Quotas /\ quota.account = "none" /\ NoQuota \in Quotas /\ NoQuota.account = "none"
    BY DEF NoQuota, Quotas
  <2> HIDE DEF quota
  <2>3. /\ lastReady' \in [UsageProviders -> Quotas] /\ seenOut' \in [UsageProviders -> Nat]
        /\ \A q \in UsageProviders : q # p => lastReady'[q] = lastReady[q] /\ seenOut'[q] = seenOut[q]
        /\ seenOut'[p] <= refreshes
        /\ lastReady'[p] = NoQuota
    BY <2>1, <2>2 DEF ReportsInv, ServiceTypes
  <2> QED
    BY <1>1, <2>1, <2>2, <2>3, AnswersAdvance DEF After
<1>4. CASE credentials[p] # NoCredential
  <2>1. UNCHANGED <<lastReady, seenOut>>
    BY <1>4 DEF ReadStored
  <2>2. \/ Answers(p, lastReady[p]) \/ Answers(p, Degraded(p))
        \/ asking' = [asking EXCEPT ![p].phase = "fetch", ![p].with = credentials[p], ![p].fetch = refreshes]
    BY <1>4 DEF ReadStored
  <2>3. CASE Answers(p, lastReady[p]) \/ Answers(p, Degraded(p))
    BY <1>1, <2>1, <2>3, DegradedIsAfter, AnswersAdvance DEF ReportsInv, ServiceTypes
  <2>4. CASE asking' = [asking EXCEPT ![p].phase = "fetch", ![p].with = credentials[p], ![p].fetch = refreshes]
    <3> DEFINE asked == [asking[p] EXCEPT !.phase = "fetch", !.with = credentials[p], !.fetch = refreshes]
    <3>1. /\ asked \in Askings /\ asked.phase = "fetch" /\ asked.fetch = refreshes
          /\ asking' = [asking EXCEPT ![p] = asked]
      BY <1>2, <2>4 DEF Askings, ReportsInv, ServiceTypes, StoreSound
    <3> HIDE DEF asked
    <3>2. asking' \in [UsageProviders -> Askings] /\ asking'[p] = asked
      BY <3>1 DEF ReportsInv, ServiceTypes
    <3>3. Advances(p)
      BY <1>1, <2>1, <3>1, <3>2 DEF Advances, ReportsInv, ServiceTypes
    <3>4. ProviderSound(p)'
      BY <1>1, <1>2, <2>1, <3>1, <3>2 DEF ProviderSound
    <3> QED
      BY <3>3, <3>4, OneAdvances
  <2> QED
    BY <2>2, <2>3, <2>4
<1> QED
  BY <1>3, <1>4

\* A quota fetched with it is that login's.
LEMMA FetchAdvances ==
  ASSUME ReportsInv, NEW p \in UsageProviders, FetchSucceeds(p)
  PROVE  ServiceTypes' /\ \A q \in UsageProviders : ProviderSound(q)'
<1> DEFINE quota == [state |-> "ready", account |-> asking[p].with.account, at |-> clock, stale |-> FALSE,
                     fetch |-> asking[p].fetch]
<1>1. /\ asking[p].phase = "fetch" /\ Answers(p, quota) /\ lastReady' = [lastReady EXCEPT ![p] = quota]
      /\ UNCHANGED <<clock, quotas, refreshes, seenOut>>
  BY DEF FetchSucceeds, KeepsUsage
<1>2. asking[p] \in Askings /\ ProviderSound(p)
  BY DEF ReportsInv, ServiceTypes
<1>3. quota \in Quotas
  BY <1>2 DEF Quotas, Askings, Credentials, ReportsInv, ServiceTypes
<1>4. quota.fetch = refreshes /\ seenOut[p] < refreshes
  BY <1>1, <1>2 DEF ProviderSound
<1> HIDE DEF quota
<1>5. After(quota, seenOut[p]) /\ seenOut[p] \in Nat /\ refreshes \in Nat
  BY <1>4 DEF After, ReportsInv, ServiceTypes
<1>6. /\ lastReady' \in [UsageProviders -> Quotas] /\ lastReady'[p] = quota
      /\ \A q \in UsageProviders : q # p => lastReady'[q] = lastReady[q]
  BY <1>1, <1>3 DEF ReportsInv, ServiceTypes
<1> QED
  BY <1>1, <1>3, <1>4, <1>5, <1>6, AnswersAdvance DEF ReportsInv, ServiceTypes

\* So every step of the usage service keeps the invariant,
LEMMA ServiceStep ==
  ASSUME ReportsInv, NEW p \in UsageProviders,
         AuthRotates(p) \/ AuthReady(p) \/ ReadStored(p) \/ FetchSucceeds(p) \/ AskingFails(p)
  PROVE  ReportsInv'
<1>1. CASE AuthRotates(p)
  <2>1. p \in StoreProviders /\ Enqueue(p, "rotate")
    BY <1>1, UsageAssumption DEF AuthRotates
  <2>2. StoreSound'
    BY <2>1, EnqueueKeepsStore DEF ReportsInv
  <2>3. ServiceTypes' /\ \A q \in UsageProviders : ProviderSound(q)'
    BY <1>1, AskToAdvances DEF AuthRotates
  <2> QED
    BY <2>2, <2>3 DEF ReportsInv
<1>2. CASE AuthReady(p)
  <2>1. UNCHANGED <<credentials, writeChain, settled>>
    BY <1>2 DEF AuthReady, KeepsUsage, storeVars
  <2>2. asking[p].phase \in {"auth", "rotating"}
    BY <1>2 DEF AuthReady, Rotated
  <2>3. ServiceTypes' /\ \A q \in UsageProviders : ProviderSound(q)'
    BY <1>2, <2>2, AskToAdvances DEF AuthReady, KeepsUsage
  <2> QED
    BY <2>1, <2>3 DEF ReportsInv, StoreSound
<1>3. CASE ReadStored(p)
  <2>1. UNCHANGED <<credentials, writeChain, settled>>
    BY <1>3 DEF ReadStored, KeepsUsage, storeVars
  <2> QED
    BY <1>3, <2>1, ReadStoredAdvances DEF ReportsInv, StoreSound
<1>4. CASE FetchSucceeds(p)
  <2>1. UNCHANGED <<credentials, writeChain, settled>>
    BY <1>4 DEF FetchSucceeds, KeepsUsage, storeVars
  <2> QED
    BY <1>4, <2>1, FetchAdvances DEF ReportsInv, StoreSound
<1>5. CASE AskingFails(p)
  <2>1. UNCHANGED <<credentials, writeChain, settled, clock, quotas, refreshes, lastReady, seenOut>>
    BY <1>5 DEF AskingFails, KeepsUsage, storeVars
  <2>2. Answers(p, Degraded(p))
    BY <1>5 DEF AskingFails
  <2>3. ServiceTypes' /\ \A q \in UsageProviders : ProviderSound(q)'
    BY <2>1, <2>2, DegradedIsAfter, AnswersAdvance DEF ReportsInv, ServiceTypes
  <2> QED
    BY <2>1, <2>3 DEF ReportsInv, StoreSound
<1> QED
  BY <1>1, <1>2, <1>3, <1>4, <1>5

\* as does the start of a refresh
LEMMA RefreshKeeps == ReportsInv /\ Refresh => ReportsInv'
<1> SUFFICES ASSUME ReportsInv, Refresh PROVE ReportsInv'
  OBVIOUS
<1>1. /\ refreshes' = refreshes + 1 /\ asking' = [p \in UsageProviders |-> [asking[p] EXCEPT !.phase = "auth"]]
      /\ UNCHANGED <<clock, credentials, writeChain, settled, lastReady, quotas, seenOut>>
  BY DEF Refresh, storeVars
<1>2. \A p \in UsageProviders : asking'[p] \in Askings /\ asking'[p].phase = "auth"
  BY <1>1 DEF ReportsInv, ServiceTypes, Askings
<1>3. asking' \in [UsageProviders -> Askings]
  BY <1>1, <1>2
<1>4. ServiceTypes'
  BY <1>1, <1>3 DEF ReportsInv, ServiceTypes
<1>5. ASSUME NEW p \in UsageProviders PROVE ProviderSound(p)'
  <2>1. seenOut[p] \in Nat /\ refreshes \in Nat /\ seenOut[p] <= refreshes /\ After(lastReady[p], seenOut[p])
    BY DEF ReportsInv, ServiceTypes, ProviderSound
  <2> QED
    BY <1>1, <1>2, <2>1 DEF ProviderSound, After
<1> QED
  BY <1>1, <1>4, <1>5 DEF ReportsInv, StoreSound

\* and its end.
LEMMA ReportKeeps == ReportsInv /\ Report => ReportsInv'
<1> SUFFICES ASSUME ReportsInv, Report PROVE ReportsInv'
  OBVIOUS
<1>1. /\ quotas' = [p \in UsageProviders |-> asking[p].result]
      /\ asking' = [p \in UsageProviders |-> NotAsked]
      /\ UNCHANGED <<clock, credentials, writeChain, settled, lastReady, seenOut, refreshes>>
      /\ \A p \in UsageProviders : asking[p].phase = "done"
  BY DEF Report, storeVars
<1>2. NotAsked \in Askings /\ NotAsked.phase = "idle"
  BY DEF NotAsked, NoCredential, NoQuota, Credentials, Quotas, Askings
<1>3. \A p \in UsageProviders : quotas'[p] \in Quotas /\ asking'[p].phase = "idle"
  BY <1>1, <1>2 DEF ReportsInv, ServiceTypes, Askings
<1>4. quotas' \in [UsageProviders -> Quotas] /\ asking' \in [UsageProviders -> Askings]
  BY <1>1, <1>2, <1>3
<1>5. ServiceTypes'
  BY <1>1, <1>4 DEF ReportsInv, ServiceTypes
<1>6. ASSUME NEW p \in UsageProviders PROVE ProviderSound(p)'
  <2>1. After(quotas'[p], seenOut[p])
    BY <1>1 DEF ReportsInv, ProviderSound
  <2> QED
    BY <1>1, <1>3, <2>1 DEF ReportsInv, ProviderSound
<1> QED
  BY <1>1, <1>5, <1>6 DEF ReportsInv, StoreSound

\* Every step keeps it.
LEMMA ReportsStep == ReportsInv /\ [UsageNext]_usageVars => ReportsInv'
<1> SUFFICES ASSUME ReportsInv, [UsageNext]_usageVars PROVE ReportsInv'
  OBVIOUS
<1>1. CASE UNCHANGED usageVars
  BY <1>1 DEF usageVars, ReportsInv, StoreSound, ServiceTypes, ProviderSound
<1>2. CASE UsageTick
  <2>1. clock' \in Nat
    BY <1>2 DEF UsageTick, SuccessTTL, ReportsInv, ServiceTypes
  <2>2. UNCHANGED <<credentials, writeChain, settled, asking, lastReady, quotas, seenOut, refreshes>>
    BY <1>2 DEF UsageTick, storeVars, serviceVars
  <2> QED
    BY <2>1, <2>2 DEF ReportsInv, StoreSound, ServiceTypes, ProviderSound
<1>3. ASSUME NEW i \in 1..MaxCredentialOps, LoadFile(i) \/ SaveFile(i) \/ OperationFails(i)
      PROVE  ReportsInv'
  <2>1. UNCHANGED <<clock, asking, lastReady, quotas, seenOut, refreshes>>
    BY <1>3 DEF LoadFile, SaveFile, OperationFails, serviceVars
  <2> QED
    BY <1>3, <2>1, StoreStep DEF ReportsInv, ServiceTypes, ProviderSound
<1>4. ASSUME NEW p \in StoreProviders, Login(p) \/ Logout(p)
      PROVE  ReportsInv'
  <2>1. UNCHANGED <<clock, asking, lastReady, quotas, seenOut, refreshes>>
    BY <1>4 DEF Login, Logout, serviceVars
  <2>2. Enqueue(p, "login") \/ Enqueue(p, "logout")
    BY <1>4 DEF Login, Logout
  <2> QED
    BY <2>1, <2>2, EnqueueKeepsStore DEF ReportsInv, ServiceTypes, ProviderSound
<1> QED
  BY <1>1, <1>2, <1>3, <1>4, RefreshKeeps, ReportKeeps, ServiceStep DEF UsageNext

\* What the credential file holds is what the last of its operations left, and no quota is
\* shown once a refresh has found its account gone (FileCredentialStore.modify, fetchProvider).
THEOREM LoginsAgree == UsageSpec => []LoginsAndQuotasAgree
<1>1. UsageInit => ReportsInv
  BY ReportsInit
<1>2. ReportsInv /\ [UsageNext]_usageVars => ReportsInv'
  BY ReportsStep
<1>3. ReportsInv => LoginsAndQuotasAgree
  BY DEF ReportsInv, StoreSound, ProviderSound, After, LoginsAndQuotasAgree
<1> QED
  BY <1>1, <1>2, <1>3, PTL DEF UsageSpec
=============================================================================
