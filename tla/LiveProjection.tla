---------------------------- MODULE LiveProjection ----------------------------
(***************************************************************************)
(* What the workbench shows of a turn while it runs and once it is over:   *)
(* recordNativeEvent and applyDelta of ProjectWorkbench                    *)
(* (src/application/project-workbench.ts).                                 *)
(*                                                                         *)
(* Notifications are handled one at a time, each as one step here;         *)
(* ChatDelivery has the awaits within it and the other chain.  The root    *)
(* thread is bound.  Ids of turns are unique, those of items are not: the  *)
(* identity of an item is its turn and its id.  A notification may lack    *)
(* the thread or the turn it is about.                                     *)
(***************************************************************************)
EXTENDS Integers, FiniteSets

CONSTANTS
  RootTurns,         \* turns of the root thread
  ChildTurns,        \* turns of a sub-agent's thread
  Items,             \* ids of items
  Slots,             \* of the snapshot: draft, reasoning, summary, activity
  MaxNotifications

LiveTurns == RootTurns \union ChildTurns
NoTurn == "no turn"
NoItem == "no item"
LocalItem == "missing final"     \* local-missing-final:<turn>

ASSUME ProjectionAssumption ==
  /\ RootTurns \intersect ChildTurns = {} /\ NoTurn \notin LiveTurns
  /\ NoItem \notin Items /\ LocalItem \notin Items
  /\ "draft" \in Slots /\ MaxNotifications \in Nat

Identity(t, i) == [turn |-> t, item |-> i]
Nowhere == Identity(NoTurn, NoItem)

VARIABLES
  activeTurn,
  boundTurns,     \* turns the usage tracker knows
  endedTurns,     \* terminalTurns
  endedItems,     \* terminalItems
  shown,          \* slot -> the identity whose deltas it shows, or Nowhere
  draftText,      \* the draft is not blank
  owners,         \* identities seen with their thread and turn
  knownTurns,     \* turns seen with their thread
  firstOutputs,   \* firstOutputObservedTurns
  messages,       \* assistant messages in the journal: [at, text]
  notifications,
  endedActive,    \* turns whose end came while they were active
  completed,      \* identities the harness has completed
  answered,       \* those it completed with text, the first time it did
  early           \* identities preserved before their own completion

projectionVars == <<activeTurn, boundTurns, endedTurns, endedItems, shown, draftText, owners,
                    knownTurns, firstOutputs, messages, notifications, endedActive, completed, answered, early>>

-----------------------------------------------------------------------------
(* normalizeNativeRefs and rememberNativeRefs.  A turn stands for its      *)
(* thread, which is known when the notification carries it or the turn has *)
(* been seen with it; without turn, the item's only owner is taken.        *)

Completeness == {"full", "without thread", "without turn"}

OwnersOf(t, i) == {o \in owners : o.item = i /\ (o.turn \in RootTurns <=> t \in RootTurns)}
Normalized(t, i, how) ==
  CASE how = "full" -> Identity(t, i)
    [] how = "without thread" -> IF t \in knownTurns THEN Identity(t, i) ELSE Identity(NoTurn, i)
    [] OTHER -> IF i # NoItem /\ Cardinality(OwnersOf(t, i)) = 1
                THEN CHOOSE o \in OwnersOf(t, i) : TRUE ELSE Identity(NoTurn, i)

RememberRefs(at) ==
  /\ knownTurns' = knownTurns \union ({at.turn} \ {NoTurn})
  /\ owners' = IF at.turn # NoTurn /\ at.item # NoItem THEN owners \union {at} ELSE owners

Owned(at) == at.turn # NoTurn /\ at.item # NoItem
IsRoot(at) == at.turn \in RootTurns

HasTerminalItem(at) == at \in endedItems

Notified == notifications < MaxNotifications /\ notifications' = notifications + 1

-----------------------------------------------------------------------------
(* applyDelta.                                                             *)

\* Mutant of IsLate: only the item is looked up.
IsLateForItem(at) == HasTerminalItem(at)
IsLate(at) == at.turn \in endedTurns \/ HasTerminalItem(at)

Delta(slot, at, blank) ==
  /\ Notified /\ RememberRefs(at)
  /\ IF ~IsRoot(at) \/ IsLate(at) THEN UNCHANGED <<shown, draftText, firstOutputs>>
     ELSE /\ firstOutputs' =
               IF slot = "draft" /\ ~blank /\ at.turn \in boundTurns
               THEN firstOutputs \union {at.turn} ELSE firstOutputs
          /\ IF Owned(at)
             THEN /\ shown' = [shown EXCEPT ![slot] = at]
                  /\ draftText' = IF slot = "draft"
                                  THEN ~blank \/ (draftText /\ shown.draft = at)
                                  ELSE draftText
             ELSE UNCHANGED <<shown, draftText>>
  /\ UNCHANGED <<activeTurn, boundTurns, endedTurns, endedItems, messages, endedActive,
                 completed, answered, early>>

-----------------------------------------------------------------------------
(* The other notifications.                                                *)

Clear(Test(_)) ==
  /\ shown' = [s \in Slots |-> IF Test(shown[s]) THEN Nowhere ELSE shown[s]]
  /\ draftText' = (draftText /\ ~Test(shown.draft))

\* preserveUnfinalizedAssistantResponse: the draft of the turn becomes the message of
\* the draft's item; without a draft there is a notice.
Preserved(at) ==
  LET matching == draftText /\ shown.draft.turn = at.turn
      target == IF matching THEN shown.draft ELSE at
      there == {m \in messages : m.at.turn = at.turn /\ (Owned(target) => m.at = target)}
  IN  IF at.turn \in endedTurns \/ there # {} THEN {}
      ELSE IF matching THEN {[at |-> shown.draft, text |-> "partial"]}
      ELSE {[at |-> Identity(at.turn, IF at.item = NoItem THEN LocalItem ELSE at.item),
             text |-> "notice"]}

Record(more) ==
  /\ messages' = messages \union more
  /\ early' = early \union {m.at : m \in {n \in more : n.text = "partial"}}

\* An item that is not an assistant's message, or has not ended, changes no message.
ItemCompleted(at, message, text) ==
  LET preserved == IF IsRoot(at) /\ message /\ ~text THEN Preserved(at) ELSE {}
      own == IF IsRoot(at) /\ message /\ text THEN {[at |-> at, text |-> "final"]} ELSE {}
  IN  /\ Notified /\ RememberRefs(at)
      /\ IF HasTerminalItem(at) \/ (message /\ ~Owned(at))
         THEN UNCHANGED <<endedItems, shown, draftText, messages, early>>
         ELSE /\ Record(preserved \union own)
              /\ endedItems' = endedItems \union {m.at : m \in preserved}
                                          \union (IF Owned(at) THEN {at} ELSE {})
              /\ IF IsRoot(at) THEN Clear(LAMBDA s : Owned(at) /\ s = at)
                 ELSE UNCHANGED <<shown, draftText>>
      /\ completed' = IF Owned(at) THEN completed \union {at} ELSE completed
      /\ answered' = IF IsRoot(at) /\ Owned(at) /\ message /\ text /\ at \notin completed
                     THEN answered \union {at} ELSE answered
      /\ UNCHANGED <<activeTurn, boundTurns, endedTurns, firstOutputs, endedActive>>

ItemStarted(at) ==
  /\ Notified /\ RememberRefs(at)
  /\ UNCHANGED <<activeTurn, boundTurns, endedTurns, endedItems, shown, draftText, firstOutputs,
                 messages, endedActive, completed, answered, early>>

\* A completion that is neither of a turn nor of an item clears all.
HookCompleted(at) ==
  /\ Notified /\ RememberRefs(at)
  /\ IF IsRoot(at) THEN Clear(LAMBDA s : TRUE) ELSE UNCHANGED <<shown, draftText>>
  /\ UNCHANGED <<activeTurn, boundTurns, endedTurns, endedItems, firstOutputs, messages,
                 endedActive, completed, answered, early>>

\* A start that comes after the end of its turn is only recorded.
TurnStarted(at) ==
  /\ Notified /\ RememberRefs(at)
  /\ IF IsRoot(at) /\ at.turn \notin endedTurns
     THEN activeTurn' = at.turn /\ boundTurns' = boundTurns \union {at.turn}
     ELSE UNCHANGED <<activeTurn, boundTurns>>
  /\ UNCHANGED <<endedTurns, endedItems, shown, draftText, firstOutputs, messages,
                 endedActive, completed, answered, early>>

TurnEnded(at) ==
  LET active == IsRoot(at) /\ at.turn = activeTurn
      preserved == IF active THEN Preserved(at) ELSE {}
  IN  /\ Notified /\ RememberRefs(at)
      /\ Record(preserved)
      /\ endedItems' = endedItems \union {m.at : m \in preserved}
      /\ endedTurns' = endedTurns \union ({at.turn} \ {NoTurn})
      /\ endedActive' = IF active /\ at.turn \notin endedTurns
                        THEN endedActive \union {at.turn} ELSE endedActive
      /\ IF IsRoot(at) THEN Clear(LAMBDA s : s.turn = at.turn) ELSE UNCHANGED <<shown, draftText>>
      /\ activeTurn' = IF activeTurn \in endedTurns' THEN NoTurn ELSE activeTurn
      /\ UNCHANGED <<boundTurns, firstOutputs, completed, answered>>

\* The answer of turn/start, on the chain of commands.
TurnAnswered(t) ==
  /\ t \notin boundTurns \/ activeTurn = NoTurn
  /\ activeTurn' = t /\ boundTurns' = boundTurns \union {t}
  /\ UNCHANGED <<endedTurns, endedItems, shown, draftText, owners, knownTurns, firstOutputs,
                 messages, notifications, endedActive, completed, answered, early>>

ProjectionInit ==
  /\ activeTurn = NoTurn /\ boundTurns = {} /\ endedTurns = {} /\ endedItems = {}
  /\ shown = [s \in Slots |-> Nowhere] /\ draftText = FALSE
  /\ owners = {} /\ knownTurns = {} /\ firstOutputs = {} /\ messages = {}
  /\ notifications = 0 /\ endedActive = {} /\ completed = {} /\ answered = {} /\ early = {}

\* What notifications of an item, or of none, are taken to be about.
About(i, completeness) == {Normalized(t, i, how) : t \in LiveTurns, how \in completeness}

ProjectionNext ==
  \/ \E at \in About(NoItem, {"full", "without thread"}) :
       TurnStarted(at) \/ TurnEnded(at) \/ HookCompleted(at)
  \/ \E i \in Items : \E at \in About(i, Completeness) :
       \/ ItemStarted(at)
       \/ \E slot \in Slots, blank \in BOOLEAN : (slot = "draft" \/ ~blank) /\ Delta(slot, at, blank)
       \/ \E message, text \in BOOLEAN : (message \/ ~text) /\ ItemCompleted(at, message, text)
  \/ \E t \in RootTurns : TurnAnswered(t)

ProjectionSpec == ProjectionInit /\ [][ProjectionNext]_projectionVars

-----------------------------------------------------------------------------
(* Properties.                                                             *)

Identities == [turn : LiveTurns, item : Items \union {LocalItem}]
ProjectionTypeOK ==
  /\ activeTurn \in RootTurns \union {NoTurn} /\ boundTurns \subseteq RootTurns
  /\ endedTurns \subseteq LiveTurns /\ endedItems \subseteq Identities
  /\ shown \in [Slots -> Identities \union {Nowhere}]
  /\ draftText \in BOOLEAN /\ (draftText => shown.draft # Nowhere)
  /\ \A m \in messages : m.at \in Identities /\ m.at.turn \in RootTurns
  /\ firstOutputs \subseteq boundTurns

\* What is shown as being written is: no slot shows a sub-agent's turn, a turn that has
\* ended or an item that has, whatever deltas come late, sparse or out of order.  (An
\* item whose draft was preserved for another's sake stays in the draft.)  And a turn that
\* ends leaves an answer in the conversation: its own, what there was of it, or a notice
\* that there is none.  The text an item was completed with is what the conversation shows
\* of that item, be there an item of the same id in another turn; but for items preserved
\* before.
ScreenFitsTheTurns ==
  /\ \A s \in Slots : shown[s] # Nowhere =>
       IsRoot(shown[s]) /\ shown[s].turn \notin endedTurns /\ shown[s] \notin endedItems \ early
  /\ \A t \in endedActive : \E m \in messages : m.at.turn = t
  /\ \A at \in answered \ early : [at |-> at, text |-> "final"] \in messages
=============================================================================
