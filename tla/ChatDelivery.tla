---------------------------- MODULE ChatDelivery ----------------------------
(***************************************************************************)
(* Delivery of chat messages by ProjectWorkbench                           *)
(* (src/application/project-workbench.ts).                                 *)
(*                                                                         *)
(* Two promise chains work on the same fields: the command chain runs the  *)
(* user's commands one at a time, the event chain applies the native       *)
(* harness's notifications one at a time.  Each chain gives way to the     *)
(* other at every await, so one action below is the code between two       *)
(* awaits.  Both chains can start a turn: the command chain for a direct   *)
(* send or for the drain at the end of a /cancel, the event chain for the  *)
(* drain after a turn or an approval ended.                                *)
(*                                                                         *)
(* A message is a number: messages are numbered in the order of dispatch.  *)
(* A native turn is its index in `turns'.                                  *)
(***************************************************************************)
EXTENDS Integers, Sequences, FiniteSets, Functions

CONSTANTS
  MaxMessages,    \* chat.send commands in a behaviour
  MaxCancels,     \* chat.cancel commands in a behaviour
  MaxApprovals,   \* approval requests of the native harness in a behaviour
  MaxGiveUps,     \* turn/start requests whose answer never comes
  MaxFaults,      \* journal, lease or binding operations that throw
  Modes           \* what the native harness may do, a subset of NativeModes

NativeModes == {"orderly", "racing", "late"}

ASSUME BoundsAssumption ==
  /\ MaxMessages \in Nat /\ MaxCancels \in Nat /\ MaxApprovals \in Nat
  /\ MaxGiveUps \in Nat /\ MaxFaults \in Nat
ASSUME ModesAssumption == Modes \subseteq NativeModes

Messages  == 1..MaxMessages
NoMessage == 0
NoTurn    == 0
NoRequest == 0           \* no approval request

Chains == {"cmd", "evt"} \* commandQueue and eventQueue

\* Where a chain stands: which await it is suspended at.
StartPoints == {"record", "handed", "started", "refused", "uncertain"}
CommandPoints ==
  {"idle", "wait", "enqueue", "thread", "read", "abandon", "reconcile",
   "interrupt", "approve"} \union StartPoints
EventPoints == {"idle", "append", "resume"} \union StartPoints

NoCommand == [type |-> "none", arg |-> 0]
Commands ==
  [type : {"send"}, arg : Messages] \union [type : {"cancel"}, arg : {0}]
    \union [type : {"approve"}, arg : 1..MaxApprovals] \union {NoCommand}

VARIABLES
  \* fields of ProjectWorkbench
  hasThread,        \* threadId is set
  activeTurnId,
  pendingApproval,
  chatQueue,
  blockedChat,      \* chatDeliveryBlocked holds exactly when it is not NoMessage
  terminalTurns,
  phase,            \* "open", "closing" (closed = true), "closed" (native closed)
  \* the two chains
  pc,               \* the await each chain is suspended at
  job,              \* the message startChatTurn (or cancelChat) works on
  command,          \* the command being dispatched
  awaited,          \* events the command still waits for (await this.eventQueue)
  events,           \* notifications not yet handled; the head is in work
  completedActive,  \* completedActiveTurn of the event in work
  longer,           \* the chain that has stood longer at its await
  \* the native harness
  turns,            \* every turn it ever created
  answer,           \* the turn that answers a chain's turn/start, once created
  limbo,            \* given-up requests the harness may still receive
  asked,            \* the approvals it waits for
  mode,             \* its mode, chosen once
  \* what the user and the bounds know
  submitted,        \* messages dispatched so far
  receipt,          \* what dispatch() answered for each message
  handed,           \* messages passed to native.startTurn
  cancels, approvals, giveUps, faults

workbenchVars == <<hasThread, activeTurnId, pendingApproval, chatQueue,
                   blockedChat, terminalTurns, phase>>
chainVars  == <<pc, job, command, awaited, events, completedActive, longer>>
nativeVars == <<turns, answer, limbo, asked, mode>>
userVars   == <<submitted, receipt, handed, cancels, approvals, giveUps, faults>>
vars == <<workbenchVars, chainVars, nativeVars, userVars>>
-----------------------------------------------------------------------------
(* Helpers.                                                                *)

Fault   == faults < MaxFaults /\ faults' = faults + 1
NoFault == UNCHANGED faults

\* Mutants of Shift: no look at the head; no shift.
ShiftAnyHead(q, id) == IF q # <<>> THEN Tail(q) ELSE q
ShiftNothing(q, id) == q

\* if (this.chatQueue[0]?.id === id) this.chatQueue.shift()
Shift(q, id) == IF q # <<>> /\ Head(q) = id THEN Tail(q) ELSE q

\* The `queued' argument of startChatTurn: the message comes from the queue.
FromQueue(p) == p = "evt" \/ command.type = "cancel"

Other(p) == IF p = "cmd" THEN "evt" ELSE "cmd"

\* The await is a single append to the journal.
AppendsOnce(p) ==
  \/ pc[p] \in {"abandon", "resume"}
  \/ pc[p] = "append" /\ ~completedActive
  \/ pc[p] = "record" /\ FromQueue(p)

\* The journal completes appends in the order of the calls: whatever p appends
\* comes after the append the other chain called before p began to wait.
InTurn(p) == AppendsOnce(Other(p)) => longer = p

Reply(p, r) ==
  receipt' = IF p = "cmd" /\ command.type = "send"
             THEN [receipt EXCEPT ![command.arg] = r] ELSE receipt

\* Mutant of EventSettled: counts events that came after the command, too.
EveryEventSettled == awaited - 1

\* One event less to wait for.
EventSettled == IF awaited > 0 THEN awaited - 1 ELSE 0

\* The chain's operation settles: the next one of the chain may begin.
Leave(p) ==
  /\ pc' = [pc EXCEPT ![p] = "idle"]
  /\ job' = [job EXCEPT ![p] = NoMessage]
  /\ longer' = Other(p)
  /\ \/ /\ p = "cmd"
        /\ command' = NoCommand
        /\ UNCHANGED <<events, awaited, completedActive>>
     \/ /\ p = "evt"
        /\ events' = Tail(events)
        /\ awaited' = EventSettled
        /\ completedActive' = FALSE
        /\ UNCHANGED command

\* The chain suspends at another await of the same operation.
GoTo(p, point) ==
  /\ pc' = [pc EXCEPT ![p] = point]
  /\ longer' = Other(p)
  /\ UNCHANGED <<command, events, awaited, completedActive>>

\* Mutant of DrainOrLeave: !this.activeTurnId is forgotten.
DrainDespiteTurn(p) ==
  IF /\ phase = "open" /\ pendingApproval' = NoRequest
     /\ blockedChat' = NoMessage /\ chatQueue' # <<>>
  THEN GoTo(p, "record") /\ job' = [job EXCEPT ![p] = Head(chatQueue')]
  ELSE Leave(p)

\* One iteration of drainChatQueue, on the fields as this step leaves them.
DrainOrLeave(p) ==
  IF /\ phase = "open" /\ activeTurnId' = NoTurn /\ pendingApproval' = NoRequest
     /\ blockedChat' = NoMessage /\ chatQueue' # <<>>
  THEN GoTo(p, "record") /\ job' = [job EXCEPT ![p] = Head(chatQueue')]
  ELSE Leave(p)

\* startChatTurn threw an error other than uncertainty: drainChatQueue goes on
\* unless the message is still the head of the queue.
GoOnOrLeave(p) ==
  IF FromQueue(p) /\ ~(chatQueue' # <<>> /\ Head(chatQueue') = job[p])
  THEN DrainOrLeave(p)
  ELSE Leave(p)

-----------------------------------------------------------------------------
(* dispatch: a command starts once its predecessors settled, and waits for *)
(* the events that had arrived by then.                                    *)

Begin(c) ==
  /\ pc["cmd"] = "idle" /\ phase = "open"
  /\ command' = c
  /\ pc' = [pc EXCEPT !["cmd"] = "wait"]
  /\ longer' = "evt"
  /\ awaited' = Len(events)
  /\ UNCHANGED <<workbenchVars, nativeVars, job, events, completedActive,
                 handed, faults, giveUps, approvals>>

DispatchSend ==
  /\ submitted < MaxMessages
  /\ submitted' = submitted + 1
  /\ receipt' = [receipt EXCEPT ![submitted + 1] = "pending"]
  /\ Begin([type |-> "send", arg |-> submitted + 1])
  /\ UNCHANGED cancels

DispatchCancel ==
  /\ cancels < MaxCancels
  /\ cancels' = cancels + 1
  /\ Begin([type |-> "cancel", arg |-> 0])
  /\ UNCHANGED <<submitted, receipt>>

DispatchApprove ==
  /\ \E id \in 1..approvals :
       pendingApproval = id /\ Begin([type |-> "approve", arg |-> id])
  /\ UNCHANGED <<submitted, receipt, cancels>>

\* dispatchSerialized: if (this.closed) return rejected
DispatchWhenClosed ==
  /\ pc["cmd"] = "idle" /\ phase # "open" /\ submitted < MaxMessages
  /\ submitted' = submitted + 1
  /\ receipt' = [receipt EXCEPT ![submitted + 1] = "rejected"]
  /\ UNCHANGED <<workbenchVars, chainVars, nativeVars, handed, cancels,
                 approvals, giveUps, faults>>

Ready(type) ==
  pc["cmd"] = "wait" /\ awaited = 0 /\ command.type = type

-----------------------------------------------------------------------------
(* sendChat and startChatTurn.                                             *)

\* Mutants of Busy: the queue, or the uncertain message, is forgotten.
BusyDespiteQueue ==
  activeTurnId # NoTurn \/ pendingApproval # NoRequest \/ blockedChat # NoMessage
BusyDespiteUncertainty ==
  activeTurnId # NoTurn \/ pendingApproval # NoRequest \/ chatQueue # <<>>

Busy ==
  \/ activeTurnId # NoTurn \/ pendingApproval # NoRequest
  \/ chatQueue # <<>> \/ blockedChat # NoMessage

RunSend ==
  /\ Ready("send")
  /\ \/ Busy /\ GoTo("cmd", "enqueue")
     \/ ~Busy /\ ~hasThread /\ GoTo("cmd", "thread")
     \/ ~Busy /\ hasThread /\ GoTo("cmd", "record")
  /\ job' = [job EXCEPT !["cmd"] = command.arg]
  /\ UNCHANGED <<workbenchVars, nativeVars, userVars>>

\* The two awaited appends, request/submitted and request/queued; then the push.
Enqueue ==
  /\ pc["cmd"] = "enqueue" /\ InTurn("cmd")
  /\ \/ /\ NoFault
        /\ chatQueue' = Append(chatQueue, job["cmd"])
        /\ Reply("cmd", "queued")
     \/ /\ Fault
        /\ UNCHANGED chatQueue
        /\ Reply("cmd", "rejected")
  /\ Leave("cmd")
  /\ UNCHANGED <<hasThread, activeTurnId, pendingApproval, blockedChat,
                 terminalTurns, phase, nativeVars, submitted, handed, cancels,
                 approvals, giveUps>>

\* native.startThread, the thread's lease, its sources, its first record.
StartThread ==
  /\ pc["cmd"] = "thread"
  /\ \/ /\ InTurn("cmd")
        /\ hasThread' = TRUE
        /\ GoTo("cmd", "record")
        /\ UNCHANGED <<job, receipt>> /\ NoFault
     \/ /\ Fault              \* the thread exists, its lease or binding failed
        /\ hasThread' = TRUE
        /\ Leave("cmd") /\ Reply("cmd", "rejected")
     \/ /\ \E r \in {"rejected", "uncertain"} : Reply("cmd", r)
        /\ Leave("cmd") /\ NoFault
        /\ UNCHANGED hasThread
  /\ UNCHANGED <<activeTurnId, pendingApproval, chatQueue, blockedChat,
                 terminalTurns, phase, nativeVars, submitted, handed, cancels,
                 approvals, giveUps>>

\* The records of the outbound message, then native.startTurn.
Record(p) ==
  /\ pc[p] = "record" /\ InTurn(p)
  /\ UNCHANGED <<workbenchVars, nativeVars, submitted, cancels, approvals, giveUps>>
  /\ \/ /\ NoFault
        /\ handed' = handed \union {job[p]}
        /\ GoTo(p, "handed")
        /\ UNCHANGED <<job, receipt>>
     \/ /\ Fault
        /\ GoOnOrLeave(p) /\ Reply(p, "rejected")
        /\ UNCHANGED handed

\* native.startTurn resolved.
Answered(p) ==
  /\ pc[p] = "handed" /\ answer[p] # NoTurn
  /\ activeTurnId' = answer[p]
  /\ blockedChat' = NoMessage
  /\ chatQueue' = Shift(chatQueue, job[p])
  /\ answer' = [answer EXCEPT ![p] = NoTurn]
  /\ GoTo(p, "started")
  /\ UNCHANGED <<hasThread, pendingApproval, terminalTurns, phase, job, turns,
                 limbo, asked, mode, userVars>>

SettleStarted(p) ==
  /\ pc[p] = "started" /\ InTurn(p)
  /\ UNCHANGED <<workbenchVars, nativeVars, submitted, handed, cancels,
                 approvals, giveUps>>
  /\ \/ NoFault /\ Leave(p) /\ Reply(p, "accepted")
     \/ Fault /\ GoOnOrLeave(p) /\ Reply(p, "rejected")

\* Mutant of Refused: a lost answer is taken for a refusal.
RefusedUnanswered(p) ==
  /\ pc[p] = "handed"
  /\ answer' = [answer EXCEPT ![p] = NoTurn]
  /\ GoTo(p, "refused")
  /\ UNCHANGED <<workbenchVars, turns, limbo, asked, mode, userVars, job>>

\* native.startTurn failed, and the harness has not taken the message.
Refused(p) ==
  /\ pc[p] = "handed" /\ answer[p] = NoTurn
  /\ GoTo(p, "refused")
  /\ UNCHANGED <<workbenchVars, nativeVars, userVars, job>>

SettleRefused(p) ==
  /\ pc[p] = "refused" /\ InTurn(p)
  /\ UNCHANGED <<hasThread, activeTurnId, pendingApproval, blockedChat,
                 terminalTurns, phase, nativeVars, submitted, handed, cancels,
                 approvals, giveUps>>
  /\ Reply(p, "rejected")
  /\ \/ /\ NoFault
        /\ chatQueue' = IF FromQueue(p) THEN Shift(chatQueue, job[p]) ELSE chatQueue
     \/ /\ Fault
        /\ UNCHANGED chatQueue
  /\ GoOnOrLeave(p)

\* native.startTurn failed, and nobody knows whether the harness took the message.
GiveUp(p) ==
  /\ pc[p] = "handed" /\ giveUps < MaxGiveUps
  /\ giveUps' = giveUps + 1
  /\ \/ /\ answer[p] = NoTurn
        /\ limbo' = limbo \union {job[p]}
        /\ UNCHANGED answer
     \/ /\ answer[p] # NoTurn /\ mode = "late"
        /\ answer' = [answer EXCEPT ![p] = NoTurn]
        /\ UNCHANGED limbo
  /\ blockedChat' = job[p]
  /\ GoTo(p, "uncertain")
  /\ UNCHANGED <<hasThread, activeTurnId, pendingApproval, chatQueue,
                 terminalTurns, phase, job, turns, asked, mode, submitted,
                 receipt, handed, cancels, approvals, faults>>

SettleUncertain(p) ==
  /\ pc[p] = "uncertain" /\ InTurn(p)
  /\ UNCHANGED <<hasThread, activeTurnId, pendingApproval, blockedChat,
                 terminalTurns, phase, nativeVars, submitted, handed, cancels,
                 approvals, giveUps>>
  /\ \/ /\ NoFault
        /\ chatQueue' = IF FromQueue(p) THEN Shift(chatQueue, job[p]) ELSE chatQueue
        /\ Reply(p, "uncertain") /\ Leave(p)
     \/ /\ Fault                  \* the journal's error, not the uncertainty
        /\ UNCHANGED chatQueue
        /\ Reply(p, "rejected") /\ GoOnOrLeave(p)

-----------------------------------------------------------------------------
(* cancelChat and resolveApproval.                                         *)

RunningTurns == {t \in DOMAIN turns : ~turns[t].ended}

RunCancel ==
  /\ Ready("cancel")
  /\ \/ /\ blockedChat # NoMessage /\ hasThread
        /\ GoTo("cmd", "read")
        /\ job' = [job EXCEPT !["cmd"] = blockedChat]
     \/ /\ blockedChat = NoMessage /\ hasThread /\ activeTurnId # NoTurn
        /\ GoTo("cmd", "interrupt")
        /\ UNCHANGED job
     \/ /\ ~hasThread \/ (blockedChat = NoMessage /\ activeTurnId = NoTurn)
        /\ Leave("cmd")
  /\ UNCHANGED <<workbenchVars, nativeVars, userVars>>

\* native.readThread failed, or its state is unreadable: nothing changes.
ReadFailed ==
  /\ pc["cmd"] = "read"
  /\ Leave("cmd")
  /\ UNCHANGED <<workbenchVars, nativeVars, userVars>>

\* The harness answers in the order of the requests: what it was sent before
\* is no longer under way.
ReadIdle ==
  /\ pc["cmd"] = "read" /\ limbo = {} /\ RunningTurns = {}
  /\ blockedChat' = NoMessage
  /\ chatQueue' = Shift(chatQueue, job["cmd"])
  /\ GoTo("cmd", "abandon")
  /\ UNCHANGED <<hasThread, activeTurnId, pendingApproval, terminalTurns, phase,
                 job, nativeVars, userVars>>

ReadInProgress ==
  /\ pc["cmd"] = "read" /\ limbo = {}
  /\ \E t \in RunningTurns :
       /\ \A u \in RunningTurns : u <= t
       /\ activeTurnId' = t
  /\ blockedChat' = NoMessage
  /\ chatQueue' = Shift(chatQueue, job["cmd"])
  /\ GoTo("cmd", "reconcile")
  /\ UNCHANGED <<hasThread, pendingApproval, terminalTurns, phase, job,
                 nativeVars, userVars>>

\* The message is recorded as cancelled, then the queue goes on.
Abandon ==
  /\ pc["cmd"] = "abandon" /\ InTurn("cmd")
  /\ UNCHANGED <<workbenchVars, nativeVars, submitted, receipt, handed, cancels,
                 approvals, giveUps>>
  /\ \/ NoFault /\ DrainOrLeave("cmd")
     \/ Fault /\ Leave("cmd")

\* The message is recorded as delivered, then its turn is interrupted.
Reconcile ==
  /\ pc["cmd"] = "reconcile" /\ InTurn("cmd")
  /\ \/ NoFault /\ GoTo("cmd", "interrupt") /\ UNCHANGED job
     \/ Fault /\ Leave("cmd")
  /\ UNCHANGED <<workbenchVars, nativeVars, submitted, receipt, handed, cancels,
                 approvals, giveUps>>

\* native.interruptTurn settles; the end of the turn is a notification.
Interrupted ==
  /\ pc["cmd"] = "interrupt"
  /\ Leave("cmd")
  /\ UNCHANGED <<workbenchVars, nativeVars, userVars>>

RunApprove ==
  /\ Ready("approve")
  /\ \/ pendingApproval = command.arg /\ GoTo("cmd", "approve") /\ UNCHANGED job
     \/ pendingApproval # command.arg /\ Leave("cmd")
  /\ UNCHANGED <<workbenchVars, nativeVars, userVars>>

\* native.respondToApproval settles once the request is resolved.
ApproveSettled ==
  /\ pc["cmd"] = "approve" /\ command.arg \notin asked
  /\ Leave("cmd")
  /\ UNCHANGED <<workbenchVars, nativeVars, userVars>>

-----------------------------------------------------------------------------
(* recordNativeEvent.                                                      *)

InWork(type) ==
  pc["evt"] = "append" /\ InTurn("evt") /\ Head(events).type = type

\* Mutant of TakeEvent: events wait for the commands as commands wait for events.
TakeEventAfterCommand ==
  /\ pc["cmd"] = "idle"
  /\ pc["evt"] = "idle" /\ events # <<>> /\ phase = "open"
  /\ pc' = [pc EXCEPT !["evt"] = "append"]
  /\ longer' = "cmd"
  /\ completedActive' = (/\ Head(events).type = "ended"
                         /\ Head(events).arg = activeTurnId)
  /\ UNCHANGED <<workbenchVars, nativeVars, userVars, job, command, awaited, events>>

\* What precedes the append; completedActiveTurn is computed here.
TakeEvent ==
  /\ pc["evt"] = "idle" /\ events # <<>> /\ phase = "open"
  /\ pc' = [pc EXCEPT !["evt"] = "append"]
  /\ longer' = "cmd"
  /\ completedActive' = (/\ Head(events).type = "ended"
                         /\ Head(events).arg = activeTurnId)
  /\ UNCHANGED <<workbenchVars, nativeVars, userVars, job, command, awaited, events>>

\* if (this.closed) return
DropEvent ==
  /\ pc["evt"] = "idle" /\ events # <<>> /\ phase # "open"
  /\ Leave("evt")
  /\ UNCHANGED <<workbenchVars, nativeVars, userVars>>

\* The append throws: the event has no effect, the workbench shows the error.
EventFault ==
  /\ pc["evt"] \in {"append", "resume"} /\ InTurn("evt")
  /\ Fault
  /\ Leave("evt")
  /\ UNCHANGED <<workbenchVars, nativeVars, submitted, receipt, handed, cancels,
                 approvals, giveUps>>

\* reconcileNativeState: a terminal turn is not active.
Reconciled(turn, ended) == IF turn \in ended THEN NoTurn ELSE turn

ApplyStarted ==
  /\ InWork("started")
  /\ LET t == Head(events).arg IN
     \/ /\ t \in terminalTurns       \* lateStartForTerminalTurn
        /\ activeTurnId' = Reconciled(activeTurnId, terminalTurns)
        /\ UNCHANGED <<chatQueue, blockedChat>>
        /\ Leave("evt")
     \/ /\ t \notin terminalTurns
        /\ activeTurnId' = t
        /\ chatQueue' = IF blockedChat # NoMessage
                        THEN Shift(chatQueue, blockedChat) ELSE chatQueue
        /\ blockedChat' = NoMessage
        /\ \/ blockedChat = NoMessage /\ Leave("evt")
           \/ blockedChat # NoMessage /\ GoTo("evt", "resume") /\ UNCHANGED job
  /\ UNCHANGED <<hasThread, pendingApproval, terminalTurns, phase, nativeVars, userVars>>

\* The reconciled message is recorded as delivered.
ResumeRecorded ==
  /\ pc["evt"] = "resume" /\ InTurn("evt")
  /\ activeTurnId' = Reconciled(activeTurnId, terminalTurns)
  /\ Leave("evt")
  /\ UNCHANGED <<hasThread, pendingApproval, chatQueue, blockedChat,
                 terminalTurns, phase, nativeVars, userVars>>

ApplyEnded ==
  /\ InWork("ended")
  /\ terminalTurns' = terminalTurns \union {Head(events).arg}
  /\ activeTurnId' = Reconciled(activeTurnId, terminalTurns')
  /\ UNCHANGED <<hasThread, pendingApproval, chatQueue, blockedChat, phase,
                 nativeVars, userVars>>
  /\ IF completedActive THEN DrainOrLeave("evt") ELSE Leave("evt")

ApplyAsked ==
  /\ InWork("asked")
  /\ pendingApproval' = Head(events).arg
  /\ activeTurnId' = Reconciled(activeTurnId, terminalTurns)
  /\ Leave("evt")
  /\ UNCHANGED <<hasThread, chatQueue, blockedChat, terminalTurns, phase,
                 nativeVars, userVars>>

ApplyResolved ==
  /\ InWork("resolved")
  /\ activeTurnId' = Reconciled(activeTurnId, terminalTurns)
  /\ UNCHANGED <<hasThread, chatQueue, blockedChat, terminalTurns, phase,
                 nativeVars, userVars>>
  /\ \/ /\ pendingApproval = Head(events).arg
        /\ pendingApproval' = NoRequest
        /\ DrainOrLeave("evt")
     \/ /\ pendingApproval # Head(events).arg
        /\ UNCHANGED pendingApproval
        /\ Leave("evt")

-----------------------------------------------------------------------------
(* close.                                                                  *)

Close ==
  /\ phase = "open"
  /\ phase' = "closing"
  /\ UNCHANGED <<hasThread, activeTurnId, pendingApproval, chatQueue, blockedChat,
                 terminalTurns, chainVars, nativeVars, userVars>>

\* Mutant of Closed: eventQueue is not awaited.
ClosedBeforeEvents ==
  /\ phase = "closing" /\ pc["cmd"] = "idle"
  /\ phase' = "closed"
  /\ UNCHANGED <<hasThread, activeTurnId, pendingApproval, chatQueue, blockedChat,
                 terminalTurns, chainVars, nativeVars, userVars>>

\* Both chains settled: native.close() and the last snapshot.
Closed ==
  /\ phase = "closing"
  /\ pc["cmd"] = "idle" /\ pc["evt"] = "idle" /\ events = <<>>
  /\ phase' = "closed"
  /\ UNCHANGED <<hasThread, activeTurnId, pendingApproval, chatQueue, blockedChat,
                 terminalTurns, chainVars, nativeVars, userVars>>

-----------------------------------------------------------------------------
(* The native harness, as far as its answers and notifications go.         *)

\* A notification reaches the event chain while the workbench listens.
Notify(type, arg) ==
  /\ events' = IF phase = "open" THEN Append(events, [type |-> type, arg |-> arg])
                                 ELSE events
  /\ UNCHANGED <<workbenchVars, pc, job, command, awaited, completedActive, longer>>

Reconciling == command.type = "cancel" /\ pc["cmd"] # "interrupt"

\* In what order notifications of a turn and answers may come.
MayNotify(t) ==
  /\ mode # "late" => \A p \in Chains : answer[p] # t
  /\ mode = "orderly" => ~Reconciling

NewTurn(m) ==
  turns' = Append(turns, [message |-> m, announced |-> FALSE, ended |-> FALSE])

\* It takes the message of a turn/start and starts a turn.
Receive(p) ==
  /\ pc[p] = "handed" /\ answer[p] = NoTurn
  /\ NewTurn(job[p])
  /\ answer' = [answer EXCEPT ![p] = Len(turns) + 1]
  /\ UNCHANGED <<workbenchVars, chainVars, limbo, asked, mode, userVars>>

\* A request nobody waits for any more is taken after all, or never.
ReceiveLate(m) ==
  /\ m \in limbo
  /\ limbo' = limbo \ {m}
  /\ NewTurn(m) \/ UNCHANGED turns
  /\ UNCHANGED <<workbenchVars, chainVars, answer, asked, mode, userVars>>

Announce(t) ==
  /\ ~turns[t].announced /\ MayNotify(t)
  /\ mode # "late" => ~turns[t].ended
  /\ turns' = [turns EXCEPT ![t].announced = TRUE]
  /\ Notify("started", t)
  /\ UNCHANGED <<answer, limbo, asked, mode, userVars>>

End(t) ==
  /\ ~turns[t].ended /\ MayNotify(t) /\ asked = {}
  /\ mode # "late" => turns[t].announced
  /\ turns' = [turns EXCEPT ![t].ended = TRUE]
  /\ Notify("ended", t)
  /\ UNCHANGED <<answer, limbo, asked, mode, userVars>>

Ask(t) ==
  /\ turns[t].announced /\ ~turns[t].ended /\ MayNotify(t)
  /\ approvals < MaxApprovals
  /\ approvals' = approvals + 1
  /\ asked' = asked \union {approvals + 1}
  /\ Notify("asked", approvals + 1)
  /\ UNCHANGED <<turns, answer, limbo, mode, submitted, receipt, handed, cancels,
                 giveUps, faults>>

\* Answered by the user, or withdrawn.
Resolve(r) ==
  /\ r \in asked
  /\ mode = "orderly" => ~Reconciling
  /\ asked' = asked \ {r}
  /\ Notify("resolved", r)
  /\ UNCHANGED <<turns, answer, limbo, mode, userVars>>

-----------------------------------------------------------------------------
(* A fresh session has no thread; a resumed one has, with no turn or with  *)
(* the turn that thread/read found in progress.                            *)

Init ==
  /\ \/ hasThread = FALSE /\ turns = <<>>
     \/ hasThread = TRUE /\ turns = <<>>
     \/ /\ hasThread = TRUE
        /\ turns = <<[message |-> NoMessage, announced |-> TRUE, ended |-> FALSE]>>
  /\ activeTurnId = Len(turns)
  /\ pendingApproval = NoRequest
  /\ chatQueue = <<>>
  /\ blockedChat = NoMessage
  /\ terminalTurns = {}
  /\ phase = "open"
  /\ pc = [p \in Chains |-> "idle"]
  /\ job = [p \in Chains |-> NoMessage]
  /\ command = NoCommand
  /\ awaited = 0
  /\ events = <<>>
  /\ completedActive = FALSE
  /\ longer = "cmd"
  /\ answer = [p \in Chains |-> NoTurn]
  /\ limbo = {}
  /\ asked = {}
  /\ mode \in Modes
  /\ submitted = 0
  /\ receipt = [m \in Messages |-> "none"]
  /\ handed = {}
  /\ cancels = 0 /\ approvals = 0 /\ giveUps = 0 /\ faults = 0

Dispatch == DispatchSend \/ DispatchCancel \/ DispatchApprove \/ DispatchWhenClosed

StartChatTurn(p) ==
  \/ Record(p) \/ Answered(p) \/ SettleStarted(p) \/ Refused(p)
  \/ SettleRefused(p) \/ GiveUp(p) \/ SettleUncertain(p)

CommandStep ==
  \/ RunSend \/ Enqueue \/ StartThread
  \/ RunCancel \/ ReadFailed \/ ReadIdle \/ ReadInProgress \/ Abandon
  \/ Reconcile \/ Interrupted \/ RunApprove \/ ApproveSettled
  \/ StartChatTurn("cmd")

EventStep ==
  \/ TakeEvent \/ DropEvent \/ EventFault \/ ApplyStarted \/ ResumeRecorded
  \/ ApplyEnded \/ ApplyAsked \/ ApplyResolved
  \/ StartChatTurn("evt")

NativeStep ==
  \/ \E p \in Chains : Receive(p)
  \/ \E m \in Messages : ReceiveLate(m)
  \/ \E t \in DOMAIN turns : Announce(t) \/ End(t) \/ Ask(t)
  \/ \E r \in asked : Resolve(r)

Next ==
  \/ Dispatch \/ Close \/ Closed \/ CommandStep \/ EventStep \/ NativeStep

Spec == Init /\ [][Next]_vars

\* Every promise of the chains settles: the journal's writes end, and a native
\* request is answered or given up after its time limit.  The user owes nothing,
\* and a turn may run for ever.
Fairness ==
  /\ WF_vars(CommandStep)
  /\ WF_vars(EventStep)
  /\ WF_vars(Closed)
  /\ WF_vars(pc["cmd"] = "approve" /\ Resolve(command.arg))

FairSpec == Spec /\ Fairness

-----------------------------------------------------------------------------
(* Properties.                                                             *)

Receipts == {"none", "pending", "queued", "accepted", "uncertain", "rejected"}
Requests == 1..MaxApprovals
Turn == [message : Messages \union {NoMessage}, announced : BOOLEAN, ended : BOOLEAN]
Event ==
  [type : {"started", "ended"}, arg : Nat \ {0}] \union
  [type : {"asked", "resolved"}, arg : Requests]

\* The type of every variable.
WorkbenchTypeOK ==
  /\ hasThread \in BOOLEAN
  /\ activeTurnId \in Nat
  /\ pendingApproval \in Requests \union {NoRequest}
  /\ chatQueue \in Seq(Messages)
  /\ blockedChat \in Messages \union {NoMessage}
  /\ terminalTurns \subseteq Nat \ {0}
  /\ phase \in {"open", "closing", "closed"}

ChainTypeOK ==
  /\ pc \in [Chains -> CommandPoints \union EventPoints]
  /\ pc["cmd"] \in CommandPoints /\ pc["evt"] \in EventPoints
  /\ job \in [Chains -> Messages \union {NoMessage}]
  /\ command \in Commands
  /\ awaited \in Nat
  /\ events \in Seq(Event)
  /\ completedActive \in BOOLEAN
  /\ longer \in Chains

NativeTypeOK ==
  /\ turns \in Seq(Turn)
  /\ answer \in [Chains -> Nat]
  /\ limbo \subseteq Messages
  /\ asked \subseteq Requests
  /\ mode \in NativeModes

UserTypeOK ==
  /\ submitted \in 0..MaxMessages
  /\ receipt \in [Messages -> Receipts]
  /\ handed \subseteq Messages
  /\ cancels \in 0..MaxCancels /\ approvals \in 0..MaxApprovals
  /\ giveUps \in 0..MaxGiveUps /\ faults \in 0..MaxFaults

TypeOK == WorkbenchTypeOK /\ ChainTypeOK /\ NativeTypeOK /\ UserTypeOK

\* A message the user was told is queued is in the queue until it has been
\* handed to the harness: no shift of the queue, on either chain, drops a
\* message nobody sent.
QueuedNotLost ==
  \A m \in Messages : receipt[m] = "queued" => m \in Range(chatQueue) \union handed

\* Messages go out in the order of their dispatch: nothing is handed to the
\* harness, by either chain, ahead of an older message still in the queue.
HandedInOrder ==
  [][\A p \in Chains : pc[p] = "record" /\ pc'[p] = "handed"
       => \A m \in Range(chatQueue) : job[p] <= m]_vars

\* The harness never runs a message twice (startChatTurn does not retry, and a
\* reconciled message leaves the queue).  True of an orderly harness only.
OneTurnPerMessage ==
  \A t, u \in DOMAIN turns :
    t # u /\ turns[t].message = turns[u].message => turns[t].message = NoMessage

\* The workbench never starts a turn while another one runs on its thread
\* (the guards of sendChat and drainChatQueue).  Orderly harness only.
TurnsDoNotOverlap == Cardinality(RunningTurns) <= 1

\* While it is unknown whether a message arrived (chatDeliveryBlocked), nothing
\* more is handed over, by either chain.  Orderly harness only.
UncertainHoldsQueue == [][blockedChat # NoMessage => handed' = handed]_vars

\* The whole promise at once: with an orderly harness, ChatDelivery implements
\* ChatOutbox.  What became of a message is what the harness did with it; one that
\* has no turn is unknown while the workbench or the harness may still find it.
TurnsOf(m) == {t \in DOMAIN turns : turns[t].message = m}
Status(m) ==
  LET mine == TurnsOf(m) IN
  CASE \E t \in mine : ~turns[t].ended            -> "running"
    [] mine # {} /\ \A t \in mine : turns[t].ended -> "over"
    [] mine = {} /\ m = NoMessage                  -> "over"
    [] mine = {} /\ m # NoMessage /\ m \notin handed -> "new"
    [] mine = {} /\ m # NoMessage /\ m \in handed ->
         IF m = blockedChat \/ m \in limbo THEN "unknown"
         ELSE IF \E p \in Chains : pc[p] = "handed" /\ job[p] = m THEN "out" ELSE "refused"
Outbox == INSTANCE ChatOutbox WITH
            status <- [m \in Messages \union {NoMessage} |-> Status(m)]
DeliversLikeAnOutbox == Outbox!Spec

\* What dispatch() answers is so: an accepted message got a turn, and a rejected
\* one got none unless the journal failed after the harness had taken it.
ReceiptsTruthful ==
  \A m \in Messages :
    /\ receipt[m] = "accepted" => \E t \in DOMAIN turns : turns[t].message = m
    /\ receipt[m] = "rejected" /\ faults = 0
         => \A t \in DOMAIN turns : turns[t].message # m

\* Once close() is done no operation of either chain is under way.
ClosedIsQuiet ==
  phase = "closed" => /\ \A p \in Chains : pc[p] = "idle"
                      /\ events = <<>> /\ command = NoCommand

\* Every command is answered, and close() gets through whatever backlog the chains have: they
\* never wait for each other for ever (dispatchSerialized awaits eventQueue, the drain of the
\* event chain awaits the harness, an approval awaits its resolution, close() both chains).
ChainsGetThrough ==
  /\ pc["cmd"] # "idle" ~> pc["cmd"] = "idle"
  /\ phase = "closing" ~> phase = "closed"

\* No message stays in the queue of a workbench that has nothing left to wait for
\* (drainChatQueue after every turn).  The code breaks this one: see Enqueue.
Quiet ==
  /\ phase = "open" /\ \A p \in Chains : pc[p] = "idle"
  /\ events = <<>> /\ limbo = {} /\ asked = {}
  /\ \A t \in DOMAIN turns : turns[t].announced /\ turns[t].ended
  /\ activeTurnId = NoTurn /\ pendingApproval = NoRequest /\ blockedChat = NoMessage
NoStrandedMessage == Quiet => chatQueue = <<>>

=============================================================================
