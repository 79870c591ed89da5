------------------------------ MODULE Narrations ------------------------------
(***************************************************************************)
(* The flow of steps that the workbench shows, what a small model says of  *)
(* each step, and the mirror of the flow in the Todo file                  *)
(* (ProjectWorkbench.scheduleNarrations, projectCurrentWorkFlow,           *)
(* enqueueNativeTodoSync).  WorkSteps says how a plan and the records of a *)
(* turn become steps; here a plan is a set of steps, and a request to the  *)
(* narrator is told by how much its step has done.  Answers come in any    *)
(* order, or not at all; the file is written by one sync after another.    *)
(***************************************************************************)
EXTENDS Integers, Sequences, SequencesExt, FiniteSets

CONSTANTS
  FlowTurns, FlowSteps,
  MaxFlowRecords,     \* bound on the journal
  MaxSyncFailures     \* bound on syncs that are refused

ASSUME NarrationAssumption ==
  /\ FlowTurns \subseteq Nat \ {0} /\ IsFiniteSet(FlowSteps)
  /\ MaxFlowRecords \in Nat /\ MaxSyncFailures \in Nat

VARIABLES
  flowJournal,     \* records: a start, a plan, an action, an observation, an end, or a child's
  selectedTurn,    \* selectedPlanTurnId
  runningTurn,     \* activeTurnId
  stepNarrations,  \* step -> the request its narration answers
  narrationKeys,   \* narrationRequestKeys: step -> the last request made for it
  narrating,       \* requests to the model under way
  narrationRevision,
  flowCache,       \* workFlowProjection
  syncQueue,       \* flows to be mirrored, the first of them under way
  mirrored,        \* the flow the Todo file has
  syncRefused,     \* the last sync failed, and actionResult says so
  syncFailures,
  narratorOver     \* narrationAbort, at close

narrationVars == <<flowJournal, selectedTurn, runningTurn, stepNarrations, narrationKeys, narrating,
                   narrationRevision, flowCache, syncQueue, mirrored, syncRefused, syncFailures, narratorOver>>

StepIds == FlowTurns \X FlowSteps      \* the identity of a step includes its turn
FlowRecord == [what : {"start", "plan", "action", "observation", "end", "child"}, turn : FlowTurns \union {0},
               steps : SUBSET FlowSteps]

\* projectWorkFlow: the last plan of the selected turn, and what each of its steps has done.
DoneBy(journal, id, kinds) ==
  Cardinality({i \in DOMAIN journal :
                 journal[i].what \in kinds /\ journal[i].turn = id[1] /\ id[2] \in journal[i].steps})
PlansOf(journal, turn) == {i \in DOMAIN journal : journal[i].what = "plan" /\ journal[i].turn = turn}
LastPlan(journal, turn) == {i \in PlansOf(journal, turn) : \A k \in PlansOf(journal, turn) : k <= i}
FlowOf(journal, turn, told) ==
  LET steps == {turn} \X UNION {journal[i].steps : i \in LastPlan(journal, turn)}
  IN  [turn |-> IF PlansOf(journal, turn) = {} THEN 0 ELSE turn,
       inputs |-> [id \in steps |-> DoneBy(journal, id, {"action", "observation"})],
       told |-> [id \in steps |-> told[id]]]

\* projectCurrentWorkFlow makes the flow anew only when one of its keys is not what it was.
FlowKey(journal, turn, revision) == <<Len(journal), turn, revision>>
Projected(journal, turn, told, revision) ==
  IF flowCache.key = FlowKey(journal, turn, revision) THEN flowCache
  ELSE [key |-> FlowKey(journal, turn, revision), flow |-> FlowOf(journal, turn, told)]

Nothing == -1

\* scheduleNarrations: what is asked again is forgotten at once.
Asked(flow) == {id \in DOMAIN flow.inputs : flow.inputs[id] > 0 /\ narrationKeys[id] # flow.inputs[id]}
ScheduleNarrations(flow) ==
  IF narratorOver THEN UNCHANGED <<narrationKeys, narrating, stepNarrations, narrationRevision>>
  ELSE LET again == Asked(flow)
       IN  /\ narrationKeys' = [id \in StepIds |-> IF id \in again THEN flow.inputs[id] ELSE narrationKeys[id]]
           /\ narrating' = narrating \union {[step |-> id, key |-> flow.inputs[id]] : id \in again}
           /\ stepNarrations' = [id \in StepIds |-> IF id \in again THEN Nothing ELSE stepNarrations[id]]
           /\ narrationRevision' = narrationRevision + Cardinality({id \in again : stepNarrations[id] # Nothing})

\* enqueueNativeTodoSync
Enqueued(queue, flow) == Append(queue, flow)

\* scheduleNativeTodoSync: a plan of the running turn, or an action of one of its steps.
MirrorsRecord(record, flow) ==
  /\ flow.turn # 0 /\ flow.turn = runningTurn /\ record.turn = flow.turn
  /\ record.what = "plan" \/ (record.what = "action" /\ \E id \in DOMAIN flow.inputs : id[2] \in record.steps)

\* appendActivity, when the journal has taken a record.
Appends(record) ==
  /\ Len(flowJournal) < MaxFlowRecords
  /\ flowJournal' = Append(flowJournal, record)
  /\ ScheduleNarrations(FlowOf(flowJournal', selectedTurn, stepNarrations))
  /\ LET now == Projected(flowJournal', selectedTurn, stepNarrations', narrationRevision')
     IN  syncQueue' = IF MirrorsRecord(record, now.flow) THEN Enqueued(syncQueue, now.flow) ELSE syncQueue
  /\ UNCHANGED <<mirrored, syncRefused, syncFailures, narratorOver>>

Publishes == flowCache' = Projected(flowJournal', selectedTurn', stepNarrations', narrationRevision')
KeepsMirror == UNCHANGED <<mirrored, syncRefused, syncFailures>>

-----------------------------------------------------------------------------
Known(turn) == \E i \in DOMAIN flowJournal : flowJournal[i].turn = turn /\ flowJournal[i].what \in {"start", "end"}

\* The answer of turn/start names the turn before any record of it is in the journal.
StartReturns(turn) ==
  /\ runningTurn = 0 /\ ~Known(turn) /\ selectedTurn < turn
  /\ runningTurn' = turn /\ selectedTurn' = turn
  /\ UNCHANGED <<flowJournal, stepNarrations, narrationKeys, narrating, narrationRevision, syncQueue, narratorOver>>
  /\ Publishes /\ KeepsMirror

StartNotified(turn) ==
  /\ runningTurn \in {0, turn} /\ ~Known(turn) /\ selectedTurn <= turn
  /\ Appends([what |-> "start", turn |-> turn, steps |-> {}])
  /\ runningTurn' = turn /\ selectedTurn' = turn
  /\ Publishes

\* What a notification of the running turn, or of a child thread, records.
TurnNotified(record) ==
  /\ record.what = "child" \/ Known(record.turn)
  /\ Appends(record)
  /\ runningTurn' = IF record.what = "end" /\ record.turn = runningTurn THEN 0 ELSE runningTurn
  /\ UNCHANGED selectedTurn
  /\ Publishes

PlanRecorded(turn, steps) ==
  runningTurn = turn /\ TurnNotified([what |-> "plan", turn |-> turn, steps |-> steps])
StepWorks(turn, step, what) ==
  /\ runningTurn = turn /\ <<turn, step>> \in DOMAIN flowCache.flow.inputs
  /\ TurnNotified([what |-> what, turn |-> turn, steps |-> {step}])
ChildWorks == TurnNotified([what |-> "child", turn |-> 0, steps |-> {}])
FlowTurnEnds(turn) == runningTurn = turn /\ TurnNotified([what |-> "end", turn |-> turn, steps |-> {}])

\* An answer is taken while it is the last request of its step that it answers.
\* Mutant of InTime: any answer is taken.
TakenAnyway(request) == TRUE
InTime(request) == narrationKeys[request.step] = request.key

Narrated(request) ==
  /\ narrating' = narrating \ {request}
  /\ UNCHANGED <<flowJournal, selectedTurn, runningTurn, narrationKeys, narratorOver>>
  /\ IF narratorOver \/ ~InTime(request)
     THEN UNCHANGED <<stepNarrations, narrationRevision, syncQueue, flowCache>>
     ELSE /\ stepNarrations' = [stepNarrations EXCEPT ![request.step] = request.key]
          /\ narrationRevision' = narrationRevision + 1
          /\ LET flow == FlowOf(flowJournal, selectedTurn, stepNarrations')
             IN  syncQueue' = IF flow.turn # 0 /\ flow.turn = runningTurn /\ DOMAIN flow.inputs # {}
                              THEN Enqueued(syncQueue, flow) ELSE syncQueue
          /\ Publishes
  /\ KeepsMirror

\* The model fails, calls a tool, or answers in another form: nothing is shown, nothing asked again.
NarrationFails(request) ==
  /\ narrating' = narrating \ {request}
  /\ UNCHANGED <<flowJournal, selectedTurn, runningTurn, stepNarrations, narrationKeys, narrationRevision,
                 flowCache, syncQueue, narratorOver>>
  /\ KeepsMirror

SyncEnds ==
  /\ syncQueue # <<>>
  /\ syncQueue' = Tail(syncQueue)
  /\ \/ mirrored' = Head(syncQueue) /\ syncRefused' = FALSE /\ UNCHANGED syncFailures
     \/ /\ syncFailures < MaxSyncFailures /\ syncFailures' = syncFailures + 1
        /\ syncRefused' = TRUE /\ UNCHANGED mirrored
  /\ UNCHANGED <<flowJournal, selectedTurn, runningTurn, stepNarrations, narrationKeys, narrating,
                 narrationRevision, narratorOver>>
  /\ Publishes

\* close() aborts the narrator and awaits the queue of syncs.
CloseNarrator ==
  /\ ~narratorOver /\ narratorOver' = TRUE
  /\ UNCHANGED <<flowJournal, selectedTurn, runningTurn, stepNarrations, narrationKeys, narrating,
                 narrationRevision, flowCache, syncQueue>>
  /\ KeepsMirror

-----------------------------------------------------------------------------
NarrationInit ==
  /\ flowJournal = <<>> /\ selectedTurn = 0 /\ runningTurn = 0
  /\ stepNarrations = [id \in StepIds |-> Nothing] /\ narrationKeys = [id \in StepIds |-> Nothing]
  /\ narrating = {} /\ narrationRevision = 0
  /\ flowCache = [key |-> <<-1, 0, 0>>, flow |-> FlowOf(<<>>, 0, stepNarrations)]
  /\ syncQueue = <<>> /\ mirrored = FlowOf(<<>>, 0, stepNarrations)
  /\ syncRefused = FALSE /\ syncFailures = 0 /\ narratorOver = FALSE

NarrationNext ==
  \/ \E turn \in FlowTurns :
       \/ StartReturns(turn) \/ StartNotified(turn) \/ FlowTurnEnds(turn)
       \/ \E steps \in SUBSET FlowSteps \ {{}} : PlanRecorded(turn, steps)
       \/ \E step \in FlowSteps, what \in {"action", "observation"} : StepWorks(turn, step, what)
  \/ ChildWorks \/ SyncEnds \/ CloseNarrator
  \/ \E request \in narrating : Narrated(request) \/ NarrationFails(request)

NarrationSpec == NarrationInit /\ [][NarrationNext]_narrationVars

-----------------------------------------------------------------------------
\* The variables have their types; what the cache is asked for is the flow of the present state.
NarrationTypeOK ==
  /\ ToSet(flowJournal) \subseteq FlowRecord
  /\ runningTurn \in {0, selectedTurn}
  /\ \A request \in narrating : request.step \in StepIds /\ request.key \in Nat
  /\ flowCache.key = FlowKey(flowJournal, selectedTurn, narrationRevision) \/ flowJournal = <<>>

\* A step is explained, on the screen and in every flow that is mirrored, by a narration of what it
\* has done as shown there, never by the late answer to an earlier request or the flow of another
\* turn (scheduleNarrations; after close nothing is asked any more).  And once the syncs have been
\* written and the last was not refused, the Todo file has the steps of the plan that the running
\* turn follows (scheduleNativeTodoSync, enqueueNativeTodoSync).
Explained(flow) == \A id \in DOMAIN flow.inputs : flow.told[id] \in {Nothing, flow.inputs[id]}
FlowToldTruly ==
  /\ ~narratorOver => /\ Explained(flowCache.flow) /\ Explained(mirrored)
                      /\ \A i \in DOMAIN syncQueue : Explained(syncQueue[i])
                      /\ flowCache.flow.turn \in {0, selectedTurn}
  /\ (syncQueue = <<>> /\ ~syncRefused /\ runningTurn # 0 /\ flowCache.flow.turn = runningTurn)
       => DOMAIN mirrored.inputs = DOMAIN flowCache.flow.inputs
=============================================================================
