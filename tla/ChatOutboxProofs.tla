-------------------------- MODULE ChatOutboxProofs --------------------------
(* With an orderly harness, ChatDelivery keeps the promise of ChatOutbox:  *)
(* no message runs twice, turns do not overlap, and while the fate of a    *)
(* message is unknown nothing more goes out.                               *)
EXTENDS ChatDeliverySafety, FiniteSetTheorems

\* The harness of the theorems below.
Orderly == Modes = {"orderly"}

-----------------------------------------------------------------------------
(* The invariant.                                                          *)

\* /cancel works alone: the events that came before it are settled, and the harness
\* sends no other until it is asked to interrupt.
CancelAlone ==
  /\ awaited <= Len(events)
  /\ pc["cmd"] # "wait" => awaited = 0
  /\ Reconciling => Len(events) = awaited

\* A chain that is about to start a turn, or has just done so.
AtWork(p) == pc[p] \in StartPoints \union {"thread"}

\* A chain whose turn, if any, the workbench does not know yet.
BeforeTurn(p) == pc[p] \in {"thread", "record", "handed", "refused"}

\* Such a chain works on a thread where no turn is active and nothing is uncertain;
\* what it works on is the head of the queue, or the queue is empty.
WorkFits(p) ==
  /\ BeforeTurn(p) => activeTurnId = NoTurn /\ blockedChat = NoMessage
  /\ p = "cmd" /\ command.type = "send" /\ AtWork(p) => chatQueue = <<>>
  /\ FromQueue(p) /\ pc[p] \in {"record", "handed", "refused"} =>
       chatQueue # <<>> /\ Head(chatQueue) = job[p]
  /\ FromQueue(p) /\ pc[p] = "uncertain" => blockedChat = job[p]
  /\ p = "evt" /\ pc[p] = "started" => activeTurnId # NoTurn

\* One chain at a time starts a turn.
OneAtWork ==
  /\ ~(AtWork("cmd") /\ AtWork("evt"))
  /\ WorkFits("cmd") /\ WorkFits("evt")

\* While a message is uncertain no turn is active, and the message keeps its place.
BlockedAlone ==
  /\ pc["cmd"] = "read" => blockedChat # NoMessage /\ blockedChat = job["cmd"]
  /\ blockedChat # NoMessage => activeTurnId = NoTurn
  /\ blockedChat # NoMessage /\ blockedChat \in Range(chatQueue) => Head(chatQueue) = blockedChat
  /\ command.type = "send" /\ pc["cmd"] \in {"wait", "enqueue", "thread", "record"}
       => command.arg \notin handed
  /\ limbo \subseteq {blockedChat}

\* The head of the notifications is in work, and its effect is done.
HeadDone == pc["evt"] \in StartPoints \union {"resume"}

\* A notification about a turn, not yet applied.
About(e, t) == e.type \in {"started", "ended"} /\ e.arg = t
Unheard(i) == i \in DOMAIN events /\ (i = 1 => ~HeadDone)
Live(t) == ~turns[t].ended \/ \E i \in DOMAIN events : Unheard(i) /\ About(events[i], t)

\* A turn is announced after the answer, it ends after it was announced, and no notification
\* about it comes after its end; what the workbench holds for over is over.
NotifiedInOrder ==
  /\ \A i \in DOMAIN events : events[i].type \in {"started", "ended"} =>
       /\ events[i].arg \in DOMAIN turns /\ turns[events[i].arg].announced
       /\ events[i].type = "ended" => turns[events[i].arg].ended
  /\ \A p \in Chains : answer[p] # NoTurn => ~turns[answer[p]].announced
  /\ \A i, j \in DOMAIN events :
       i < j /\ events[i].type = "ended" => ~About(events[j], events[i].arg)
  /\ \A t \in terminalTurns : t \in DOMAIN turns /\ ~Live(t)

\* A turn that runs, or of which the workbench has yet to hear, is the active one, the
\* answer to a chain, or the turn of the uncertain message.
LiveIsKnown ==
  \A t \in DOMAIN turns : Live(t) =>
    \/ activeTurnId = t \/ \E p \in Chains : answer[p] = t
    \/ blockedChat # NoMessage /\ turns[t].message = blockedChat

\* No message has two turns, and one that may yet be handed over has none.
NoTurnTwice ==
  /\ \A t, u \in DOMAIN turns : turns[t].message = turns[u].message => t = u
  /\ \A t \in DOMAIN turns : turns[t].message \in handed \union {NoMessage}
  /\ \A m \in limbo : ~HasTurn(m)
  /\ \A p \in Chains :
       pc[p] \in {"record", "refused"} \/ (pc[p] = "handed" /\ answer[p] = NoTurn)
         => ~HasTurn(job[p])
  /\ \A m \in Range(chatQueue) :
       HasTurn(m) => m = blockedChat \/ \E p \in Chains : answer[p] # NoTurn /\ job[p] = m

OrderlyInv ==
  /\ mode = "orderly" /\ CancelAlone /\ OneAtWork /\ BlockedAlone
  /\ NotifiedInOrder /\ LiveIsKnown /\ NoTurnTwice

\* All that a step may rely on.
WholeInv == SafetyInv /\ ReceiptInv /\ OrderlyInv

-----------------------------------------------------------------------------
(* The shapes of a step.                                                   *)

\* The chains stand, and the harness may send a notification.
Still ==
  /\ UNCHANGED <<pc, job, command, awaited>>
  /\ \/ events' = events
     \/ /\ phase = "open" /\ ~Reconciling
        /\ \E e \in Event : events' = Append(events, e)

\* The command chain has a new command.
Taking ==
  /\ pc["cmd"] = "idle" /\ pc' = [pc EXCEPT !["cmd"] = "wait"]
  /\ awaited' = Len(events) /\ command' # NoCommand /\ UNCHANGED <<job, events>>

\* A chain settles, or goes on to another await; the command chain begins to work once
\* the events before it are settled.
Working(p) ==
  /\ p = "cmd" => pc["cmd"] # "idle" /\ (pc["cmd"] = "wait" => awaited = 0)
  /\ p = "evt" => events # <<>>

Going(p, point) ==
  /\ pc' = [pc EXCEPT ![p] = point] /\ point \notin {"wait", "idle"} /\ pc[p] # "interrupt"
  /\ \A q \in Chains : q # p => job'[q] = job[q]
  /\ UNCHANGED <<command, events, awaited>>

Moves(p) == Leave(p) \/ \E point \in CommandPoints \union EventPoints : Going(p, point)

\* Every step is one of these.
LEMMA Shape ==
  ASSUME TypeInv, mode = "orderly", [Next]_vars
  PROVE  \/ Still \/ Taking
         \/ \E p \in Chains : Working(p) /\ Moves(p)
<1>1. /\ pc \in [Chains -> CommandPoints \union EventPoints]
      /\ job \in [Chains -> Messages \union {NoMessage}]
      /\ Chains = {"cmd", "evt"} /\ "cmd" # "evt"
      /\ pc["evt"] # "idle" => events # <<>>
      /\ {"handed", "started", "refused", "uncertain", "abandon", "reconcile", "interrupt", "read",
          "approve", "record", "append", "resume", "enqueue", "thread"}
           \subseteq CommandPoints \union EventPoints
  BY DEF TypeInv, TypeOK, ChainTypeOK, Chains, Placed, CommandPoints, EventPoints, StartPoints
<1>2. ASSUME NEW p \in Chains, pc[p] \notin {"idle", "wait"} PROVE Working(p)
  BY <1>1, <1>2 DEF Working
<1> DEFINE Awaits == {"handed", "started", "refused", "uncertain", "abandon", "reconcile", "interrupt",
                      "read", "approve", "record", "append", "resume", "enqueue", "thread"}
<1>3. ASSUME NEW p \in Chains, NEW point \in Awaits, GoTo(p, point), pc[p] # "interrupt",
             \A q \in Chains : q # p => job'[q] = job[q]
      PROVE  Moves(p)
  <2>1. point \in CommandPoints \union EventPoints /\ point \notin {"wait", "idle"}
    BY <1>1
  <2> HIDE DEF Awaits
  <2> QED
    BY <1>3, <2>1 DEF Going, GoTo, Moves
<1>a. ASSUME NEW p \in Chains, Leave(p) PROVE Moves(p)
  BY <1>a DEF Moves
<1>4. ASSUME NEW p \in Chains, pc[p] # "interrupt", DrainOrLeave(p) \/ GoOnOrLeave(p) PROVE Moves(p)
  BY <1>1, <1>3, <1>4, <1>a DEF DrainOrLeave, GoOnOrLeave
<1>5. ASSUME NEW p \in Chains, StartChatTurn(p) PROVE Working(p) /\ Moves(p)
  <2>1. Working(p)
    BY <1>2, <1>5 DEF StartChatTurn, Record, SettleStarted, Refused, GiveUp, Answered,
       SettleRefused, SettleUncertain
  <2>2. CASE Record(p) \/ Refused(p) \/ GiveUp(p) \/ Answered(p)
    <3>1. pc[p] # "interrupt"
      BY <2>2 DEF Record, Refused, GiveUp, Answered
    <3>2. GoOnOrLeave(p) \/ (job' = job /\ \E point \in Awaits : GoTo(p, point))
      BY <2>2 DEF Record, Refused, GiveUp, Answered
    <3> QED
      BY <1>3, <1>4, <2>1, <3>1, <3>2
  <2>3. CASE SettleStarted(p) \/ SettleRefused(p) \/ SettleUncertain(p)
    <3>1. pc[p] # "interrupt" /\ (GoOnOrLeave(p) \/ Leave(p))
      BY <2>3 DEF SettleStarted, SettleRefused, SettleUncertain
    <3> QED
      BY <1>4, <1>a, <2>1, <3>1
  <2> QED
    BY <1>5, <2>1, <2>2, <2>3 DEF StartChatTurn
<1>6. CASE Dispatch
  <2>1. CASE DispatchWhenClosed
    BY <2>1 DEF DispatchWhenClosed, chainVars, Still
  <2>2. CASE DispatchSend \/ DispatchCancel \/ DispatchApprove
    BY <2>2 DEF DispatchSend, DispatchCancel, DispatchApprove, Begin, Taking, NoCommand
  <2> QED
    BY <1>6, <2>1, <2>2 DEF Dispatch
<1>7. CASE Close \/ Closed \/ UNCHANGED vars
  BY <1>7 DEF Close, Closed, chainVars, vars, Still
<1>8. CASE CommandStep
  <2>1. Working("cmd")
    BY <1>1, <1>2, <1>5, <1>8 DEF CommandStep, RunSend, StartThread, Enqueue, RunCancel, RunApprove,
       ReadFailed, ReadIdle, ReadInProgress, Reconcile, Interrupted, ApproveSettled, Abandon, Ready,
       Working
  <2>2. CASE RunSend \/ StartThread \/ Enqueue
    <3>1. /\ (pc["cmd"] # "interrupt" /\ job'["evt"] = job["evt"]) \/ Leave("cmd")
          /\ Leave("cmd") \/ \E point \in Awaits : GoTo("cmd", point)
      BY <1>1, <2>2 DEF RunSend, StartThread, Enqueue, Ready
    <3> QED
      BY <1>1, <1>3, <1>a, <2>1, <3>1
  <2>3. CASE RunCancel \/ RunApprove
    <3>1. /\ (pc["cmd"] # "interrupt" /\ job'["evt"] = job["evt"]) \/ Leave("cmd")
          /\ Leave("cmd") \/ \E point \in Awaits : GoTo("cmd", point)
      BY <1>1, <2>3 DEF RunCancel, RunApprove, Ready
    <3> QED
      BY <1>1, <1>3, <1>a, <2>1, <3>1
  <2>4. CASE ReadFailed \/ ReadIdle \/ ReadInProgress \/ Reconcile \/ Interrupted \/ ApproveSettled
    <3>1. /\ (pc["cmd"] # "interrupt" /\ job' = job) \/ Leave("cmd")
          /\ Leave("cmd") \/ \E point \in Awaits : GoTo("cmd", point)
      BY <1>1, <2>4 DEF ReadFailed, ReadIdle, ReadInProgress, Reconcile, Interrupted, ApproveSettled
    <3> QED
      BY <1>1, <1>3, <1>a, <2>1, <3>1
  <2>5. CASE Abandon
    <3>1. pc["cmd"] # "interrupt" /\ (DrainOrLeave("cmd") \/ Leave("cmd"))
      BY <2>5 DEF Abandon
    <3> QED
      BY <1>1, <1>4, <1>a, <2>1, <3>1
  <2> QED
    BY <1>1, <1>5, <1>8, <2>1, <2>2, <2>3, <2>4, <2>5 DEF CommandStep
<1>9. CASE EventStep
  <2>1. Working("evt")
    BY <1>1, <1>5, <1>9 DEF EventStep, TakeEvent, DropEvent, EventFault, ApplyStarted, ResumeRecorded,
       ApplyEnded, ApplyAsked, ApplyResolved, InWork, Working
  <2>2. CASE TakeEvent
    <3>1. Going("evt", "append")
      BY <1>1, <2>2 DEF TakeEvent, Going
    <3> QED
      BY <1>1, <2>1, <3>1 DEF Moves
  <2>3. CASE DropEvent \/ EventFault \/ ResumeRecorded \/ ApplyAsked \/ ApplyEnded \/ ApplyResolved
    BY <1>1, <1>4, <1>a, <2>1, <2>3 DEF DropEvent, EventFault, ResumeRecorded, ApplyEnded, ApplyAsked,
       ApplyResolved, InWork
  <2>4. CASE ApplyStarted
    <3>1. Leave("evt") \/ (GoTo("evt", "resume") /\ job' = job)
      BY <2>4 DEF ApplyStarted
    <3>2. pc["evt"] = "append"
      BY <2>4 DEF ApplyStarted, InWork
    <3> QED
      BY <1>1, <1>3, <1>a, <2>1, <3>1, <3>2
  <2> QED
    BY <1>1, <1>5, <1>9, <2>2, <2>3, <2>4 DEF EventStep
<1>10. CASE NativeStep
  <2>1. ASSUME NEW type, NEW arg, [type |-> type, arg |-> arg] \in Event, Notify(type, arg), ~Reconciling
        PROVE  Still
    BY <2>1 DEF Notify, Still
  <2>2. CASE \/ \E p \in Chains : Receive(p)
             \/ \E m \in Messages : ReceiveLate(m)
    BY <2>2 DEF Receive, ReceiveLate, chainVars, Still
  <2>3. ASSUME NEW t \in DOMAIN turns, Announce(t) \/ End(t) \/ Ask(t) PROVE Still
    <3>1. ~Reconciling /\ t \in Nat \ {0}
      BY <2>3 DEF Announce, End, Ask, MayNotify, TypeInv, TypeOK, NativeTypeOK
    <3>2. CASE Announce(t)
      BY <2>1, <3>1, <3>2 DEF Announce, Event
    <3>3. CASE End(t)
      BY <2>1, <3>1, <3>3 DEF End, Event
    <3>4. CASE Ask(t)
      <4>1. approvals + 1 \in Requests
        BY <3>4, BoundsAssumption DEF Ask, Requests, TypeInv, TypeOK, UserTypeOK
      <4> QED
        BY <2>1, <3>1, <3>4, <4>1 DEF Ask, Event
    <3> QED
      BY <2>3, <3>2, <3>3, <3>4
  <2>4. ASSUME NEW r \in asked, Resolve(r) PROVE Still
    BY <2>1, <2>4 DEF Resolve, Event, TypeInv, TypeOK, NativeTypeOK
  <2> QED
    BY <1>10, <2>2, <2>3, <2>4 DEF NativeStep
<1> QED
  BY <1>6, <1>7, <1>8, <1>9, <1>10 DEF Next

\* A /cancel, once it works, is alone: no notification is left, and none comes.
LEMMA CancelAloneKept ==
  ASSUME TypeInv, mode = "orderly", CancelAlone, [Next]_vars
  PROVE  CancelAlone'
<1>1. /\ pc \in [Chains -> CommandPoints \union EventPoints]
      /\ Chains = {"cmd", "evt"} /\ "cmd" # "evt"
      /\ events \in Seq(Event) /\ awaited \in Nat /\ Len(events) \in Nat
      /\ NoCommand.type # "cancel"
      /\ events # <<>> => Len(events) > 0 /\ Len(Tail(events)) = Len(events) - 1
      /\ \A e \in Event : Len(Append(events, e)) = Len(events) + 1
      /\ pc["cmd"] = "idle" => command = NoCommand
  BY DEF TypeInv, TypeOK, ChainTypeOK, Chains, Placed, NoCommand
<1>2. CASE Still
  BY <1>1, <1>2 DEF Still, CancelAlone, Reconciling
<1>3. CASE Taking
  BY <1>1, <1>3 DEF Taking, CancelAlone, Reconciling
<1>4. ASSUME NEW p \in Chains, Working(p), Leave(p) PROVE CancelAlone'
  <2>1. CASE p = "cmd"
    BY <1>1, <1>4, <2>1 DEF Working, Leave, CancelAlone, Reconciling
  <2>2. CASE p = "evt"
    BY <1>1, <1>4, <2>2 DEF Working, Leave, EventSettled, CancelAlone, Reconciling
  <2> QED
    BY <1>1, <2>1, <2>2
<1>5. ASSUME NEW p \in Chains, Working(p), NEW point \in CommandPoints \union EventPoints, Going(p, point)
      PROVE  CancelAlone'
  BY <1>1, <1>5 DEF Working, Going, CancelAlone, Reconciling
<1> QED
  BY <1>2, <1>3, <1>4, <1>5, Shape DEF Moves

\* What a /cancel at work does not share: the event chain rests.
LEMMA CancelIsAlone ==
  ASSUME TypeInv, CancelAlone, command.type = "cancel", pc["cmd"] \notin {"wait", "interrupt"}
  PROVE  events = <<>> /\ pc["evt"] = "idle"
<1>1. Len(events) = 0 /\ events \in Seq(Event)
  BY DEF CancelAlone, Reconciling, TypeInv, TypeOK, ChainTypeOK
<1>2. events = <<>>
  BY <1>1
<1> QED
  BY <1>2 DEF TypeInv, Placed

\* A chain at work is the event chain, a send or a /cancel.
LEMMA WorkOfCommand ==
  ASSUME TypeInv, QueuedIsTold, AtWork("cmd")
  PROVE  command.type \in {"send", "cancel"}
  BY DEF AtWork, TypeInv, Placed, QueuedIsTold, FromQueue, Chains

\* The turn of a start that is being applied is the active one, or that of the uncertain
\* message, and no chain is about to start another.
LEMMA StartedTurn ==
  ASSUME TypeInv, OneAtWork, BlockedAlone, NotifiedInOrder, LiveIsKnown, AnswerFits,
         pc["evt"] = "append", events # <<>>, Head(events).type = "started",
         NEW t, t = Head(events).arg
  PROVE  /\ t \in DOMAIN turns /\ t \notin terminalTurns /\ Live(t) /\ t # NoTurn
         /\ \A p \in Chains : answer[p] # t
         /\ \/ activeTurnId = t
            \/ blockedChat # NoMessage /\ turns[t].message = blockedChat
         /\ \A p \in Chains : ~BeforeTurn(p)
<1>1. /\ events \in Seq(Event) /\ turns \in Seq(Turn) /\ 1 \in DOMAIN events
      /\ Head(events) = events[1] /\ Chains = {"cmd", "evt"}
  BY DEF TypeInv, TypeOK, ChainTypeOK, NativeTypeOK, Chains
<1>2. t \in DOMAIN turns /\ turns[t].announced
  BY <1>1 DEF NotifiedInOrder
<1>3. Live(t)
  BY <1>1 DEF Live, Unheard, HeadDone, StartPoints, About
<1>4. t \notin terminalTurns /\ t # NoTurn
  BY <1>1, <1>2, <1>3 DEF NotifiedInOrder, NoTurn
<1>5. \A p \in Chains : answer[p] # t
  BY <1>2, <1>4 DEF NotifiedInOrder
<1>6. activeTurnId = t \/ (blockedChat # NoMessage /\ turns[t].message = blockedChat)
  BY <1>2, <1>3, <1>5 DEF LiveIsKnown
<1>7. \A p \in Chains : ~BeforeTurn(p)
  BY <1>1, <1>4, <1>6 DEF OneAtWork, WorkFits
<1> QED
  BY <1>2, <1>3, <1>4, <1>5, <1>6, <1>7

\* One chain at a time starts a turn.
LEMMA OneAtWorkKept ==
  ASSUME TypeInv, QueuedIsTold, AnswerFits, OrderlyInv, [Next]_vars
  PROVE  OneAtWork'
<1>1. /\ pc \in [Chains -> CommandPoints \union EventPoints]
      /\ job \in [Chains -> Messages \union {NoMessage}]
      /\ Chains = {"cmd", "evt"} /\ "cmd" # "evt"
      /\ chatQueue \in Seq(Messages)
      /\ StartPoints = {"record", "handed", "started", "refused", "uncertain"}
      /\ pc["evt"] \in EventPoints /\ pc["evt"] # "thread"
      /\ \A p \in Chains : pc[p] \in StartPoints => job[p] # NoMessage
      /\ pc["cmd"] \in {"enqueue", "thread"} => command.type = "send"
      /\ pc["cmd"] \in {"read", "abandon", "reconcile"} => command.type = "cancel"
      /\ pc["cmd"] = "idle" => command = NoCommand
  BY DEF TypeInv, TypeOK, ChainTypeOK, WorkbenchTypeOK, Placed, Chains, StartPoints, EventPoints, Messages,
     NoMessage
<1>2. command.type = "cancel" /\ pc["cmd"] \notin {"wait", "interrupt"}
        => events = <<>> /\ pc["evt"] = "idle"
  BY CancelIsAlone DEF OrderlyInv
<1>3. AtWork("cmd") => command.type \in {"send", "cancel"}
  BY WorkOfCommand
<1>4. ASSUME NEW p \in Chains, ~AtWork(p)' PROVE WorkFits(p)'
  BY <1>4 DEF WorkFits, AtWork, BeforeTurn, StartPoints
<1>5. OneAtWork
  BY DEF OrderlyInv
\* Both chains stand, or the one that moves does not go to work.
<1>6. ASSUME UNCHANGED <<blockedChat, chatQueue>>, activeTurnId' = activeTurnId \/ ~AtWork("evt")',
             activeTurnId' \in {activeTurnId, NoTurn},
             \A q \in Chains :
               \/ ~AtWork(q)'
               \/ pc'[q] = pc[q] /\ job'[q] = job[q] /\ (q = "cmd" => command' = command)
      PROVE  OneAtWork'
  BY <1>1, <1>4, <1>5, <1>6 DEF OneAtWork, WorkFits, AtWork, BeforeTurn, FromQueue
\* A chain settles while the other is not at work.
<1>7. ASSUME NEW p \in Chains, Leave(p), ~AtWork(Other(p)) PROVE OneAtWork'
  <2>1. ~AtWork(p)' /\ ~AtWork(Other(p))'
    BY <1>1, <1>7 DEF Leave, AtWork, Other
  <2> QED
    BY <1>1, <1>4, <2>1 DEF OneAtWork, Other
\* A chain goes on with the queue while the other is not at work.
<1>8. ASSUME NEW p \in Chains, DrainOrLeave(p), FromQueue(p), ~AtWork(Other(p)) PROVE OneAtWork'
  <2>1. CASE Leave(p)
    BY <1>7, <1>8, <2>1
  <2>2. CASE ~Leave(p)
    <3>1. /\ pc' = [pc EXCEPT ![p] = "record"] /\ command' = command
          /\ activeTurnId' = NoTurn /\ blockedChat' = NoMessage /\ chatQueue' # <<>>
          /\ job' = [job EXCEPT ![p] = Head(chatQueue')]
      BY <1>8, <2>2 DEF DrainOrLeave, GoTo
    <3>2. WorkFits(p)' /\ ~AtWork(Other(p))'
      BY <1>1, <1>8, <3>1 DEF WorkFits, AtWork, BeforeTurn, FromQueue, Other
    <3> QED
      BY <1>1, <1>4, <3>2 DEF OneAtWork, Other
  <2> QED
    BY <2>1, <2>2
<1>9. ASSUME NEW p \in Chains, GoOnOrLeave(p), ~AtWork(Other(p)) PROVE OneAtWork'
  BY <1>7, <1>8, <1>9 DEF GoOnOrLeave
<1>10. ASSUME NEW p \in Chains, StartChatTurn(p)
       PROVE  OneAtWork'
  <2>1. AtWork(p) /\ ~AtWork(Other(p))
    BY <1>1, <1>5, <1>10 DEF StartChatTurn, Record, SettleStarted, Refused, GiveUp, Answered,
       SettleRefused, SettleUncertain, AtWork, OneAtWork, Other
  <2>2. WorkFits(p) /\ Other(p) \in Chains
    BY <1>1, <1>5 DEF OneAtWork, Other
  <2>3. ASSUME NEW point, GoTo(p, point), job' = job, WorkFits(p)'
        PROVE  OneAtWork'
    <3>1. ~AtWork(Other(p))'
      BY <1>1, <2>1, <2>3 DEF GoTo, AtWork, Other
    <3> QED
      BY <1>1, <1>4, <2>3, <3>1 DEF OneAtWork, Other
  <2>4. CASE Record(p)
    <3>1. CASE GoOnOrLeave(p)
      BY <1>9, <2>1, <3>1
    <3>2. CASE GoTo(p, "handed") /\ job' = job
      <4>1. WorkFits(p)'
        BY <1>1, <2>2, <2>4, <3>2 DEF Record, GoTo, workbenchVars, WorkFits, AtWork, BeforeTurn, FromQueue
      <4> QED
        BY <2>3, <3>2, <4>1
    <3> QED
      BY <2>4, <3>1, <3>2 DEF Record
  <2>5. CASE Answered(p)
    <3>1. WorkFits(p)'
      BY <1>1, <2>2, <2>5 DEF Answered, GoTo, WorkFits, AtWork, BeforeTurn, FromQueue, Shift
    <3> QED
      BY <2>3, <2>5, <3>1 DEF Answered
  <2>6. CASE Refused(p)
    <3>1. WorkFits(p)'
      BY <1>1, <2>2, <2>6 DEF Refused, GoTo, workbenchVars, WorkFits, AtWork, BeforeTurn, FromQueue
    <3> QED
      BY <2>3, <2>6, <3>1 DEF Refused
  <2>7. CASE GiveUp(p)
    <3>1. WorkFits(p)'
      BY <1>1, <2>2, <2>7 DEF GiveUp, GoTo, WorkFits, AtWork, BeforeTurn, FromQueue
    <3> QED
      BY <2>3, <2>7, <3>1 DEF GiveUp
  <2>8. CASE SettleStarted(p) \/ SettleRefused(p) \/ SettleUncertain(p)
    BY <1>7, <1>9, <2>1, <2>8 DEF SettleStarted, SettleRefused, SettleUncertain
  <2> QED
    BY <1>10, <2>4, <2>5, <2>6, <2>7, <2>8 DEF StartChatTurn
<1>11. CASE Dispatch \/ Close \/ Closed \/ UNCHANGED vars
  BY <1>1, <1>6, <1>11 DEF Dispatch, DispatchSend, DispatchCancel, DispatchApprove,
     DispatchWhenClosed, Begin, Close, Closed, workbenchVars, chainVars, vars, AtWork
<1>12. CASE CommandStep
  <2>1. CASE RunSend
    <3>1. /\ command' = command /\ command.type = "send" /\ UNCHANGED <<activeTurnId, blockedChat, chatQueue>>
          /\ pc'["evt"] = pc["evt"] /\ job'["evt"] = job["evt"]
      BY <1>1, <2>1 DEF RunSend, Ready, GoTo, workbenchVars
    <3>2. CASE pc'["cmd"] = "enqueue"
      BY <1>1, <1>6, <3>1, <3>2 DEF AtWork
    <3>3. CASE pc'["cmd"] # "enqueue"
      <4>1. /\ activeTurnId = NoTurn /\ chatQueue = <<>> /\ blockedChat = NoMessage
            /\ pc'["cmd"] \in {"thread", "record"}
        BY <1>1, <2>1, <3>3 DEF RunSend, Busy, GoTo
      <4>2. ~AtWork("evt")
        BY <1>1, <1>5, <4>1 DEF OneAtWork, WorkFits, AtWork, FromQueue
      <4>3. ~AtWork("evt")' /\ WorkFits("cmd")'
        BY <1>1, <3>1, <4>1, <4>2 DEF AtWork, WorkFits, FromQueue
      <4> QED
        BY <1>1, <1>4, <4>3 DEF OneAtWork
    <3> QED
      BY <3>2, <3>3
  <2>2. CASE Enqueue
    <3>1. /\ UNCHANGED <<activeTurnId, blockedChat>> /\ pc'["evt"] = pc["evt"] /\ job'["evt"] = job["evt"]
          /\ chatQueue' = chatQueue \/ chatQueue' = Append(chatQueue, job["cmd"])
          /\ pc'["cmd"] = "idle"
      BY <1>1, <2>2 DEF Enqueue, Leave
    <3>2. chatQueue # <<>> => chatQueue' # <<>> /\ Head(chatQueue') = Head(chatQueue)
      BY <1>1, <3>1
    <3>3. WorkFits("evt")' /\ ~AtWork("cmd")'
      BY <1>1, <1>5, <3>1, <3>2 DEF OneAtWork, WorkFits, AtWork, BeforeTurn, FromQueue
    <3> QED
      BY <1>1, <1>4, <3>3 DEF OneAtWork
  <2>3. CASE StartThread
    <3>1. /\ UNCHANGED <<activeTurnId, blockedChat, chatQueue>> /\ AtWork("cmd")
      BY <2>3 DEF StartThread, AtWork
    <3>2. CASE Leave("cmd")
      BY <1>1, <1>5, <1>7, <3>1, <3>2 DEF OneAtWork, Other
    <3>3. CASE GoTo("cmd", "record") /\ job' = job
      <4>1. WorkFits("cmd")' /\ ~AtWork("evt")'
        BY <1>1, <1>5, <2>3, <3>1, <3>3 DEF StartThread, GoTo, OneAtWork, WorkFits, AtWork, BeforeTurn, FromQueue
      <4> QED
        BY <1>1, <1>4, <4>1 DEF OneAtWork
    <3> QED
      BY <2>3, <3>2, <3>3 DEF StartThread
  <2>4. CASE RunCancel \/ RunApprove \/ ReadFailed \/ Reconcile \/ Interrupted \/ ApproveSettled
    BY <1>1, <1>6, <2>4 DEF RunCancel, RunApprove, ReadFailed, Reconcile, Interrupted, ApproveSettled,
       GoTo, Leave, workbenchVars, AtWork
  <2>5. CASE ReadIdle \/ ReadInProgress
    <3>1. ~AtWork("cmd")' /\ ~AtWork("evt")'
      BY <1>1, <1>2, <2>5 DEF ReadIdle, ReadInProgress, GoTo, AtWork
    <3> QED
      BY <1>1, <1>4, <3>1 DEF OneAtWork
  <2>6. CASE Abandon
    <3>1. FromQueue("cmd") /\ ~AtWork(Other("cmd"))
      BY <1>1, <1>2, <2>6 DEF Abandon, FromQueue, AtWork, Other
    <3> QED
      BY <1>1, <1>7, <1>8, <2>6, <3>1 DEF Abandon
  <2> QED
    BY <1>1, <1>10, <1>12, <2>1, <2>2, <2>3, <2>4, <2>5, <2>6 DEF CommandStep
<1>13. CASE EventStep
  <2>1. CASE TakeEvent \/ DropEvent \/ EventFault \/ ResumeRecorded \/ ApplyAsked
    BY <1>1, <1>6, <2>1 DEF TakeEvent, DropEvent, EventFault, ResumeRecorded, ApplyAsked, Leave,
       workbenchVars, AtWork, Reconciled
  <2>2. CASE ApplyEnded \/ ApplyResolved
    <3>1. /\ UNCHANGED <<blockedChat, chatQueue>> /\ activeTurnId' \in {activeTurnId, NoTurn}
          /\ pc["evt"] = "append" /\ FromQueue("evt") /\ (Leave("evt") \/ DrainOrLeave("evt"))
      BY <2>2 DEF ApplyEnded, ApplyResolved, InWork, Reconciled, FromQueue
    <3>2. CASE Leave("evt")
      BY <1>1, <1>6, <3>1, <3>2 DEF Leave, AtWork
    <3>3. CASE DrainOrLeave("evt") /\ ~Leave("evt")
      <4>1. chatQueue # <<>>
        BY <3>1, <3>3 DEF DrainOrLeave
      <4>2. ~AtWork("cmd")
        BY <1>1, <1>2, <1>3, <1>5, <3>1, <4>1 DEF OneAtWork, WorkFits, AtWork
      <4> QED
        BY <1>1, <1>8, <3>1, <3>3, <4>2 DEF Other
    <3> QED
      BY <3>1, <3>2, <3>3
  <2>3. CASE ApplyStarted
    <3>1. pc["evt"] = "append" /\ events # <<>> /\ Head(events).type = "started"
      BY <2>3 DEF ApplyStarted, InWork, TypeInv, Placed
    <3>2. \A p \in Chains : ~BeforeTurn(p)
      BY <3>1, StartedTurn DEF OrderlyInv
    <3>3. ~AtWork("evt")'
      BY <1>1, <2>3 DEF ApplyStarted, Leave, GoTo, AtWork
    <3>4. pc'["cmd"] = pc["cmd"] /\ job'["cmd"] = job["cmd"] /\ command' = command
      BY <1>1, <2>3 DEF ApplyStarted, Leave, GoTo
    <3>5. chatQueue = <<>> => chatQueue' = <<>>
      BY <2>3 DEF ApplyStarted, Shift
    <3>6. WorkFits("cmd")'
      BY <1>1, <1>2, <1>5, <3>1, <3>2, <3>4, <3>5 DEF OneAtWork, WorkFits, AtWork, BeforeTurn, FromQueue
    <3> QED
      BY <1>1, <1>4, <3>3, <3>6 DEF OneAtWork
  <2> QED
    BY <1>1, <1>10, <1>13, <2>1, <2>2, <2>3 DEF EventStep
<1>14. CASE NativeStep
  BY <1>6, <1>14 DEF NativeStep, Receive, ReceiveLate, Announce, End, Ask, Resolve, Notify, chainVars,
     workbenchVars
<1> QED
  BY <1>11, <1>12, <1>13, <1>14 DEF Next


\* Two fields that guard every start: what may change them.
Unblocked ==
  /\ blockedChat' = NoMessage
  /\ \/ \E p \in Chains : Answered(p)
     \/ ReadIdle \/ ReadInProgress
     \/ ApplyStarted /\ Head(events).arg \notin terminalTurns

\* What a step does to the two guards of a send, blockedChat and activeTurnId.
LEMMA GuardsEffect ==
  ASSUME [Next]_vars
  PROVE  \/ blockedChat' = blockedChat /\ activeTurnId' \in {activeTurnId, NoTurn}
         \/ blockedChat' = blockedChat /\ ApplyStarted /\ blockedChat = NoMessage
         \/ \E p \in Chains : GiveUp(p)
         \/ Unblocked
<1>1. UNCHANGED workbenchVars => blockedChat' = blockedChat /\ activeTurnId' = activeTurnId
  BY DEF workbenchVars
<1>2. ASSUME NEW p \in Chains, StartChatTurn(p)
      PROVE  (blockedChat' = blockedChat /\ activeTurnId' = activeTurnId) \/ GiveUp(p) \/ Unblocked
  BY <1>1, <1>2 DEF StartChatTurn, Record, SettleStarted, Refused, Answered, SettleRefused,
                    SettleUncertain, Unblocked
<1>3. CASE Dispatch \/ Close \/ Closed \/ UNCHANGED vars
  BY <1>1, <1>3 DEF Dispatch, DispatchSend, DispatchCancel, DispatchApprove, DispatchWhenClosed,
                    Begin, Close, Closed, vars
<1>4. CASE CommandStep
  BY <1>1, <1>2, <1>4 DEF CommandStep, RunSend, StartThread, RunCancel, ReadFailed, Enqueue, ReadIdle,
     ReadInProgress, Abandon, Reconcile, Interrupted, RunApprove, ApproveSettled, Unblocked, Chains
<1>5. CASE EventStep
  BY <1>1, <1>2, <1>5 DEF EventStep, TakeEvent, DropEvent, EventFault, ApplyStarted, ResumeRecorded,
     ApplyEnded, ApplyAsked, ApplyResolved, Reconciled, Unblocked, Chains
<1>6. CASE NativeStep
  BY <1>1, <1>6 DEF NativeStep, Receive, ReceiveLate, Announce, End, Ask, Resolve, Notify
<1> QED
  BY <1>3, <1>4, <1>5, <1>6 DEF Next

\* Before its message is handed over, a send was just dispatched or it went on.
Unsent == {"wait", "enqueue", "thread", "record"}

\* A send that is not handed over yet is a new one, or the one that waited before.
LEMMA UnsentEffect ==
  ASSUME TypeInv, QueuedIsTold, [Next]_vars, command'.type = "send", pc'["cmd"] \in Unsent
  PROVE  \/ command'.arg = submitted + 1 /\ handed' = handed
         \/ /\ command' = command /\ pc["cmd"] \in Unsent
            /\ handed' = handed \/ handed' = handed \union {job["evt"]}
<1>1. /\ pc \in [Chains -> CommandPoints \union EventPoints]
      /\ Chains = {"cmd", "evt"} /\ "cmd" # "evt" /\ NoCommand.type # "send"
  BY DEF TypeInv, TypeOK, ChainTypeOK, Chains, NoCommand
<1>2. ASSUME NEW p \in Chains, Leave(p) PROVE p = "evt" /\ command' = command /\ pc["cmd"] \in Unsent
  BY <1>1, <1>2 DEF Leave, Unsent
<1>3. ASSUME NEW p \in Chains, DrainOrLeave(p), FromQueue(p)
      PROVE  p = "evt" /\ command' = command /\ pc["cmd"] \in Unsent
  BY <1>1, <1>2, <1>3 DEF DrainOrLeave, GoTo, FromQueue
<1>4. ASSUME NEW p \in Chains, GoOnOrLeave(p)
      PROVE  p = "evt" /\ command' = command /\ pc["cmd"] \in Unsent
  BY <1>2, <1>3, <1>4 DEF GoOnOrLeave
<1>5. ASSUME NEW p \in Chains, StartChatTurn(p)
      PROVE  /\ command' = command /\ pc["cmd"] \in Unsent
             /\ handed' = handed \/ handed' = handed \union {job["evt"]}
  <2>1. CASE Record(p)
    <3>1. CASE GoOnOrLeave(p) /\ handed' = handed
      BY <1>4, <3>1
    <3>2. CASE GoTo(p, "handed") /\ handed' = handed \union {job[p]}
      BY <1>1, <3>2 DEF GoTo, Unsent
    <3> QED
      BY <2>1, <3>1, <3>2 DEF Record
  <2>2. CASE Answered(p) \/ Refused(p) \/ GiveUp(p)
    BY <1>1, <2>2 DEF Answered, Refused, GiveUp, GoTo, userVars, Unsent
  <2>3. CASE SettleStarted(p) \/ SettleRefused(p) \/ SettleUncertain(p)
    <3>1. handed' = handed /\ (Leave(p) \/ GoOnOrLeave(p))
      BY <2>3 DEF SettleStarted, SettleRefused, SettleUncertain
    <3> QED
      BY <1>2, <1>4, <3>1
  <2> QED
    BY <1>5, <2>1, <2>2, <2>3 DEF StartChatTurn
<1>6. CASE Dispatch
  <2>1. CASE DispatchSend
    BY <1>1, <2>1 DEF DispatchSend, Begin
  <2>2. CASE DispatchCancel \/ DispatchApprove
    BY <1>1, <2>2 DEF DispatchCancel, DispatchApprove, Begin
  <2>3. CASE DispatchWhenClosed
    BY <2>3 DEF DispatchWhenClosed, chainVars
  <2> QED
    BY <1>6, <2>1, <2>2, <2>3 DEF Dispatch
<1>7. CASE Close \/ Closed \/ UNCHANGED vars
  BY <1>7 DEF Close, Closed, vars, chainVars, userVars
<1>8. CASE CommandStep
  <2>1. CASE RunSend \/ StartThread
    <3>1. handed' = handed /\ pc["cmd"] \in Unsent /\ command' = command
      BY <1>1, <1>2, <2>1 DEF RunSend, StartThread, Ready, GoTo, userVars, Unsent
    <3> QED
      BY <3>1
  <2>2. CASE ReadIdle \/ ReadInProgress \/ Reconcile \/ Interrupted \/ ApproveSettled \/ Enqueue
             \/ ReadFailed \/ RunCancel \/ RunApprove
    BY <1>1, <1>2, <2>2 DEF ReadIdle, ReadInProgress, Reconcile, Interrupted, ApproveSettled, Enqueue,
       ReadFailed, RunCancel, RunApprove, GoTo, Unsent
  <2>3. CASE Abandon
    BY <1>1, <1>2, <1>3, <2>3 DEF Abandon, FromQueue, TypeInv, Placed
  <2> QED
    BY <1>1, <1>5, <1>8, <2>1, <2>2, <2>3 DEF CommandStep
<1>9. CASE EventStep
  <2>1. CASE TakeEvent
    BY <1>1, <2>1 DEF TakeEvent, userVars
  <2>2. CASE ApplyStarted
    BY <1>1, <1>2, <2>2 DEF ApplyStarted, GoTo, userVars
  <2>3. CASE DropEvent \/ EventFault \/ ResumeRecorded \/ ApplyEnded \/ ApplyAsked \/ ApplyResolved
    <3>1. handed' = handed /\ (Leave("evt") \/ DrainOrLeave("evt"))
      BY <2>3 DEF DropEvent, EventFault, ResumeRecorded, ApplyEnded, ApplyAsked, ApplyResolved, userVars
    <3>2. FromQueue("evt")
      BY DEF FromQueue
    <3> QED
      BY <1>1, <1>2, <1>3, <3>1, <3>2
  <2> QED
    BY <1>1, <1>5, <1>9, <2>1, <2>2, <2>3 DEF EventStep
<1>10. CASE NativeStep
  BY <1>10 DEF NativeStep, Receive, ReceiveLate, Announce, End, Ask, Resolve, Notify, chainVars, userVars
<1> QED
  BY <1>6, <1>7, <1>8, <1>9, <1>10 DEF Next

\* A /cancel asks about the uncertain message.
LEMMA ReadEffect ==
  ASSUME TypeInv, QueuedIsTold, [Next]_vars, pc'["cmd"] = "read"
  PROVE  \/ blockedChat' = blockedChat /\ blockedChat # NoMessage /\ job'["cmd"] = blockedChat
         \/ pc["cmd"] = "read" /\ job'["cmd"] = job["cmd"]
<1>1. /\ pc \in [Chains -> CommandPoints \union EventPoints]
      /\ job \in [Chains -> Messages \union {NoMessage}]
      /\ Chains = {"cmd", "evt"} /\ "cmd" # "evt"
  BY DEF TypeInv, TypeOK, ChainTypeOK, Chains
<1>2. ASSUME NEW p \in Chains, Leave(p) \/ DrainOrLeave(p) \/ GoOnOrLeave(p)
      PROVE  pc["cmd"] = "read" /\ job'["cmd"] = job["cmd"]
  BY <1>1, <1>2 DEF Leave, DrainOrLeave, GoOnOrLeave, GoTo
<1>3. ASSUME NEW p \in Chains, StartChatTurn(p) PROVE pc["cmd"] = "read" /\ job'["cmd"] = job["cmd"]
  BY <1>1, <1>2, <1>3 DEF StartChatTurn, Record, SettleStarted, Refused, GiveUp, Answered,
     SettleRefused, SettleUncertain, GoTo
<1>4. CASE Dispatch \/ Close \/ Closed \/ UNCHANGED vars
  BY <1>1, <1>4 DEF Dispatch, DispatchSend, DispatchCancel, DispatchApprove,
     DispatchWhenClosed, Begin, Close, Closed, chainVars, vars
<1>5. CASE CommandStep
  <2>1. CASE RunCancel
    BY <1>1, <1>2, <2>1 DEF RunCancel, GoTo, workbenchVars
  <2> QED
    BY <1>1, <1>2, <1>3, <1>5, <2>1 DEF CommandStep, RunSend, StartThread, ReadFailed, Enqueue,
       ReadIdle, ReadInProgress, Abandon, Reconcile, Interrupted, RunApprove, ApproveSettled, GoTo
<1>6. CASE EventStep
  BY <1>1, <1>2, <1>3, <1>6 DEF EventStep, TakeEvent, DropEvent, EventFault, ApplyStarted,
     ResumeRecorded, ApplyEnded, ApplyAsked, ApplyResolved, GoTo
<1>7. CASE NativeStep
  BY <1>7 DEF NativeStep, Receive, ReceiveLate, Announce, End, Ask, Resolve, Notify, chainVars
<1> QED
  BY <1>4, <1>5, <1>6, <1>7 DEF Next

\* In an ordered queue a shift takes the named message out for good.
LEMMA ShiftTakesOut ==
  ASSUME NEW q \in Seq(Messages), Sorted(q), NEW id, q # <<>>, Head(q) = id
  PROVE  id \notin Range(Shift(q, id))
<1>1. \A i \in DOMAIN q : q[i] \in Nat
  BY BoundsAssumption DEF Messages
<1>2. Len(q) \in Nat \ {0} /\ Len(Tail(q)) = Len(q) - 1 /\ id = q[1]
      /\ \A i \in 1..Len(q) - 1 : Tail(q)[i] = q[i + 1]
  OBVIOUS
<1>3. \A i \in DOMAIN Tail(q) : Tail(q)[i] # id
  BY <1>1, <1>2 DEF Sorted
<1> QED
  BY <1>3 DEF Range, Shift

\* The uncertain message holds everything back, and keeps its place at the head.
LEMMA BlockedAloneKept ==
  ASSUME TypeInv, HandedOver, QueueOrdered, QueuedIsTold, AnswerFits, OrderlyInv, [Next]_vars
  PROVE  BlockedAlone'
<1>1. /\ pc \in [Chains -> CommandPoints \union EventPoints]
      /\ Chains = {"cmd", "evt"} /\ "cmd" # "evt" /\ NoMessage = 0 /\ NoMessage \notin Messages
      /\ chatQueue \in Seq(Messages) /\ limbo \subseteq Messages
      /\ submitted \in Nat /\ \A m \in Messages : m \in Nat
      /\ command.type = "send" => command.arg \in Messages
      /\ job["evt"] \in Messages \union {NoMessage} /\ handed \subseteq Messages
      /\ pc["cmd"] \in {"read", "abandon", "reconcile"} => command.type = "cancel"
  BY BoundsAssumption, SMT DEF TypeInv, TypeOK, ChainTypeOK, WorkbenchTypeOK, NativeTypeOK, UserTypeOK,
     Placed, Chains, Messages, NoMessage, Commands, NoCommand
<1>2. OneAtWork /\ BlockedAlone /\ NoTurnTwice /\ CancelAlone
  BY DEF OrderlyInv
<1>3. ASSUME NEW p \in Chains, GiveUp(p)
      PROVE  /\ blockedChat = NoMessage /\ activeTurnId = NoTurn /\ blockedChat' = job[p]
             /\ activeTurnId' = activeTurnId /\ chatQueue' = chatQueue
             /\ job[p] \in Range(chatQueue) => Head(chatQueue) = job[p]
             /\ pc[p] = "handed"
  <2>1. pc[p] = "handed" /\ WorkFits(p)
    BY <1>1, <1>2, <1>3 DEF GiveUp, OneAtWork
  <2>2. job[p] \in Range(chatQueue) => Head(chatQueue) = job[p]
    BY <1>1, <2>1 DEF WorkFits, QueuedIsTold, FromQueue, AtWork, StartPoints, Range
  <2> QED
    BY <1>3, <2>1, <2>2 DEF GiveUp, WorkFits, BeforeTurn
<1>4. ASSUME pc'["cmd"] = "read" PROVE blockedChat' # NoMessage /\ blockedChat' = job'["cmd"]
  <2>1. CASE blockedChat' = blockedChat /\ blockedChat # NoMessage /\ job'["cmd"] = blockedChat
    BY <2>1
  <2>2. CASE pc["cmd"] = "read" /\ job'["cmd"] = job["cmd"]
    <3>1. pc["evt"] = "idle"
      BY <1>1, <1>2, <2>2, CancelIsAlone
    <3>2. \A p \in Chains : ~GiveUp(p) /\ ~Answered(p)
      BY <1>1, <2>2, <3>1 DEF GiveUp, Answered
    <3>3. ~ApplyStarted /\ ~ReadIdle /\ ~ReadInProgress
      BY <1>1, <1>4, <3>1 DEF ApplyStarted, InWork, ReadIdle, ReadInProgress, GoTo
    <3>4. blockedChat' = blockedChat
      BY <3>2, <3>3, GuardsEffect DEF Unblocked
    <3> QED
      BY <1>2, <2>2, <3>4 DEF BlockedAlone
  <2> QED
    BY <1>4, <2>1, <2>2, ReadEffect
<1>5. blockedChat' # NoMessage => activeTurnId' = NoTurn
  <2>1. CASE \E p \in Chains : GiveUp(p)
    BY <1>3, <2>1
  <2> QED
    BY <1>2, <2>1, GuardsEffect DEF Unblocked, BlockedAlone
<1>6. ASSUME blockedChat' # NoMessage, blockedChat' \in Range(chatQueue')
      PROVE  Head(chatQueue') = blockedChat'
  <2>1. CASE \E p \in Chains : GiveUp(p)
    BY <1>3, <1>6, <2>1
  <2>2. CASE blockedChat' = blockedChat
    <3>1. CASE chatQueue' = chatQueue
      BY <1>2, <1>6, <2>2, <3>1 DEF BlockedAlone
    <3>2. ASSUME NEW id \in handed, chatQueue' = Shift(chatQueue, id)
          PROVE  Head(chatQueue') = blockedChat'
      <4>1. blockedChat \in Range(chatQueue)
        BY <1>1, <1>6, <2>2, <3>2, ShiftKeeps DEF QueueOrdered
      <4>2. chatQueue # <<>> /\ Head(chatQueue) = blockedChat
        BY <1>2, <1>6, <2>2, <4>1 DEF BlockedAlone, Range
      <4>3. id # blockedChat
        BY <1>1, <1>6, <2>2, <3>2, <4>2, ShiftTakesOut DEF QueueOrdered
      <4> QED
        BY <2>2, <3>2, <4>2, <4>3 DEF Shift
    <3>3. CASE Push
      <4>1. /\ command.type = "send" /\ job["cmd"] = command.arg /\ pc["cmd"] = "enqueue"
            /\ chatQueue' = Append(chatQueue, command.arg)
        BY <3>3 DEF Push, TypeInv, Placed
      <4>2. command.arg # blockedChat
        BY <1>2, <1>6, <2>2, <4>1 DEF BlockedAlone, HandedOver
      <4>3. Range(chatQueue') = Range(chatQueue) \union {command.arg}
        BY <1>1, <4>1, AppendKeeps DEF QueueOrdered
      <4>4. blockedChat \in Range(chatQueue)
        BY <1>6, <2>2, <4>2, <4>3
      <4>5. chatQueue # <<>> /\ Head(chatQueue) = blockedChat
        BY <1>2, <1>6, <2>2, <4>4 DEF BlockedAlone, Range
      <4>6. Head(chatQueue') = Head(chatQueue)
        BY <1>1, <4>1, <4>5
      <4> QED
        BY <2>2, <4>5, <4>6
    <3> QED
      BY <3>1, <3>2, <3>3, QueueEffect
  <2> QED
    BY <1>6, <2>1, <2>2, GuardsEffect DEF Unblocked
<1>7. ASSUME command'.type = "send", pc'["cmd"] \in Unsent PROVE command'.arg \notin handed'
  <2>1. CASE command'.arg = submitted + 1 /\ handed' = handed
    BY <1>1, <2>1 DEF QueueOrdered
  <2>2. CASE /\ command' = command /\ pc["cmd"] \in Unsent
             /\ handed' = handed \/ handed' = handed \union {job["evt"]}
    <3>1. command.arg \notin handed
      BY <1>2, <1>7, <2>2 DEF BlockedAlone, Unsent
    <3>2. job["evt"] < command.arg
      BY <1>7, <2>2 DEF QueueOrdered
    <3>3. job["evt"] # command.arg
      BY <1>1, <1>7, <2>2, <3>2
    <3> QED
      BY <2>2, <3>1, <3>3
  <2> QED
    BY <1>7, <2>1, <2>2, UnsentEffect
<1>8. limbo' \subseteq {blockedChat'}
  <2>1. CASE \E p \in Chains : GiveUp(p)
    <3>1. PICK p \in Chains : GiveUp(p)
      BY <2>1
    <3>2. limbo = {}
      BY <1>1, <1>2, <1>3, <3>1 DEF BlockedAlone
    <3> QED
      BY <1>3, <3>1, <3>2 DEF GiveUp
  <2>2. CASE ~\E p \in Chains : GiveUp(p)
    <3>1. limbo' \subseteq limbo
      BY <2>2, NativeEffect DEF Receive, ReceiveLate, Answered
    <3>2. CASE Unblocked
      <4>1. limbo = {}
        <5>1. CASE \E p \in Chains : Answered(p)
          <6>1. blockedChat = NoMessage
            BY <1>1, <1>2, <5>1 DEF Answered, OneAtWork, WorkFits, BeforeTurn
          <6> QED
            BY <1>1, <1>2, <6>1 DEF BlockedAlone
        <5>2. CASE ReadIdle \/ ReadInProgress
          BY <5>2 DEF ReadIdle, ReadInProgress
        <5>3. CASE ApplyStarted /\ Head(events).arg \notin terminalTurns
          <6>1. pc["evt"] = "append" /\ events # <<>> /\ Head(events).type = "started"
            BY <5>3 DEF ApplyStarted, InWork, TypeInv, Placed
          <6>2. PICK t : t = Head(events).arg
            OBVIOUS
          <6>3. /\ t \in DOMAIN turns /\ t # NoTurn
                /\ activeTurnId = t \/ (blockedChat # NoMessage /\ turns[t].message = blockedChat)
            BY <6>1, <6>2, StartedTurn DEF OrderlyInv
          <6>4. blockedChat = NoMessage \/ HasTurn(blockedChat)
            BY <1>2, <6>3 DEF BlockedAlone, HasTurn
          <6> QED
            BY <1>1, <1>2, <6>4 DEF BlockedAlone, NoTurnTwice
        <5> QED
          BY <3>2, <5>1, <5>2, <5>3 DEF Unblocked
      <4> QED
        BY <3>1, <4>1
    <3> QED
      BY <1>2, <2>2, <3>1, <3>2, GuardsEffect DEF BlockedAlone
  <2> QED
    BY <2>1, <2>2
<1> QED
  BY <1>4, <1>5, <1>6, <1>7, <1>8 DEF BlockedAlone, Unsent

-----------------------------------------------------------------------------
(* Notifications.                                                          *)

\* What the harness has told of its turns stays so.
KeptTurns == \A t \in DOMAIN turns : t \in DOMAIN turns' /\ turns'[t] = turns[t]

\* Nothing is sent or done with.
NothingHeard == events' = events /\ KeptTurns /\ (HeadDone => HeadDone')

\* The event chain is done with the head.
HeadHeard == events # <<>> /\ events' = Tail(events) /\ KeptTurns /\ pc'["evt"] = "idle"

\* The harness tells something.
Tells ==
  \/ \E t \in DOMAIN turns : Announce(t) \/ End(t) \/ Ask(t)
  \/ \E r \in asked : Resolve(r)

\* A step hears nothing, hears the next notification, or makes the harness tell something.
LEMMA NotificationEffect ==
  ASSUME TypeInv, [Next]_vars
  PROVE  NothingHeard \/ HeadHeard \/ Tells
<1>1. /\ pc \in [Chains -> CommandPoints \union EventPoints]
      /\ Chains = {"cmd", "evt"} /\ "cmd" # "evt"
      /\ StartPoints = {"record", "handed", "started", "refused", "uncertain"}
      /\ pc["evt"] # "idle" => events # <<>>
  BY DEF TypeInv, TypeOK, ChainTypeOK, Chains, StartPoints, Placed
<1>2. turns' = turns => KeptTurns
  BY DEF KeptTurns
<1>3. ASSUME events' = events, turns' = turns, pc'["evt"] = pc["evt"] PROVE NothingHeard
  BY <1>2, <1>3 DEF NothingHeard, HeadDone
<1>4. ASSUME NEW p \in Chains, Leave(p), turns' = turns, p = "evt" => events # <<>>
      PROVE  NothingHeard \/ HeadHeard
  BY <1>1, <1>2, <1>3, <1>4 DEF Leave, HeadHeard
<1>5. ASSUME NEW p \in Chains, NEW point, GoTo(p, point), turns' = turns,
             p = "evt" => (HeadDone => point \in StartPoints \union {"resume"})
      PROVE  NothingHeard
  BY <1>1, <1>2, <1>5 DEF GoTo, NothingHeard, HeadDone
<1>6. ASSUME NEW p \in Chains, DrainOrLeave(p) \/ GoOnOrLeave(p), turns' = turns,
             p = "evt" => events # <<>>
      PROVE  NothingHeard \/ HeadHeard
  BY <1>1, <1>4, <1>5, <1>6 DEF DrainOrLeave, GoOnOrLeave
<1>7. ASSUME NEW p \in Chains, StartChatTurn(p) PROVE NothingHeard \/ HeadHeard
  <2>1. turns' = turns /\ (p = "evt" => events # <<>>)
    BY <1>1, <1>7 DEF StartChatTurn, Record, SettleStarted, Refused, GiveUp, Answered, SettleRefused,
                SettleUncertain, nativeVars
  <2>2. CASE Record(p) \/ Answered(p) \/ Refused(p) \/ GiveUp(p)
    <3>1. GoOnOrLeave(p) \/ \E point \in StartPoints : GoTo(p, point)
      BY <1>1, <2>2 DEF Record, Answered, Refused, GiveUp
    <3> QED
      BY <1>5, <1>6, <2>1, <3>1
  <2>3. CASE SettleStarted(p) \/ SettleRefused(p) \/ SettleUncertain(p)
    BY <1>4, <1>6, <2>1, <2>3 DEF SettleStarted, SettleRefused, SettleUncertain
  <2> QED
    BY <1>7, <2>2, <2>3 DEF StartChatTurn
<1>8. CASE Dispatch \/ Close \/ Closed \/ UNCHANGED vars
  BY <1>1, <1>3, <1>8 DEF Dispatch, DispatchSend, DispatchCancel, DispatchApprove,
     DispatchWhenClosed, Begin, Close, Closed, chainVars, nativeVars, vars
<1>9. CASE CommandStep
  <2>1. \/ StartChatTurn("cmd")
        \/ turns' = turns /\ (Leave("cmd") \/ DrainOrLeave("cmd") \/ \E point : GoTo("cmd", point))
    BY <1>9 DEF CommandStep, RunSend, StartThread, RunCancel, ReadFailed, Enqueue, ReadIdle,
       ReadInProgress, Abandon, Reconcile, Interrupted, RunApprove, ApproveSettled, nativeVars
  <2> QED
    BY <1>1, <1>4, <1>5, <1>6, <1>7, <2>1
<1>10. CASE EventStep
  <2>1. CASE TakeEvent
    BY <1>1, <1>2, <2>1 DEF TakeEvent, nativeVars, NothingHeard, HeadDone
  <2>2. CASE ApplyStarted
    BY <1>1, <1>4, <1>5, <2>2 DEF ApplyStarted, InWork, nativeVars
  <2>3. CASE DropEvent \/ EventFault \/ ResumeRecorded \/ ApplyEnded \/ ApplyAsked \/ ApplyResolved
    BY <1>1, <1>4, <1>6, <2>3 DEF DropEvent, EventFault, ResumeRecorded, ApplyEnded, ApplyAsked,
       ApplyResolved, InWork, nativeVars
  <2> QED
    BY <1>1, <1>7, <1>10, <2>1, <2>2, <2>3 DEF EventStep
<1>11. CASE NativeStep
  <2>1. ASSUME NEW m, NewTurn(m) PROVE KeptTurns
    BY <2>1 DEF NewTurn, KeptTurns, TypeInv, TypeOK, NativeTypeOK
  <2>2. ASSUME NEW p \in Chains, Receive(p) PROVE NothingHeard
    BY <2>1, <2>2 DEF Receive, chainVars, NothingHeard, HeadDone
  <2>3. ASSUME NEW m \in Messages, ReceiveLate(m) PROVE NothingHeard
    BY <1>2, <2>1, <2>3 DEF ReceiveLate, chainVars, NothingHeard, HeadDone
  <2> QED
    BY <1>11, <2>2, <2>3 DEF NativeStep, Tells
<1> QED
  BY <1>8, <1>9, <1>10, <1>11 DEF Next

\* terminalTurns grows by the turn whose end is applied.
LEMMA TerminalEffect ==
  ASSUME [Next]_vars
  PROVE  \/ terminalTurns' = terminalTurns
         \/ ApplyEnded /\ terminalTurns' = terminalTurns \union {Head(events).arg}
<1>1. UNCHANGED workbenchVars => terminalTurns' = terminalTurns
  BY DEF workbenchVars
<1>2. ASSUME NEW p \in Chains, StartChatTurn(p) PROVE terminalTurns' = terminalTurns
  BY <1>1, <1>2 DEF StartChatTurn, Record, SettleStarted, Refused, Answered, SettleRefused,
                    SettleUncertain, GiveUp
<1>3. CASE Dispatch \/ Close \/ Closed \/ UNCHANGED vars
  BY <1>1, <1>3 DEF Dispatch, DispatchSend, DispatchCancel, DispatchApprove, DispatchWhenClosed,
                    Begin, Close, Closed, vars
<1>4. CASE CommandStep
  BY <1>1, <1>2, <1>4 DEF CommandStep, RunSend, StartThread, RunCancel, ReadFailed, Enqueue, ReadIdle,
     ReadInProgress, Abandon, Reconcile, Interrupted, RunApprove, ApproveSettled, Chains
<1>5. CASE EventStep
  BY <1>1, <1>2, <1>5 DEF EventStep, TakeEvent, DropEvent, EventFault, ApplyStarted, ResumeRecorded,
     ApplyEnded, ApplyAsked, ApplyResolved, Chains
<1>6. CASE NativeStep
  BY <1>1, <1>6 DEF NativeStep, Receive, ReceiveLate, Announce, End, Ask, Resolve, Notify
<1> QED
  BY <1>3, <1>4, <1>5, <1>6 DEF Next

\* What a telling step does to the turns and the notifications.
TurnTold(e) ==
  /\ HeadDone' = HeadDone /\ answer' = answer /\ UNCHANGED workbenchVars
  /\ events' = events \/ events' = Append(events, e)
  /\ DOMAIN turns' = DOMAIN turns
  /\ \A t \in DOMAIN turns :
       \/ turns'[t] = turns[t]
       \/ /\ ~turns[t].ended /\ turns'[t].message = turns[t].message
          /\ turns'[t].announced /\ About(e, t)
          /\ e.type = "ended" <=> turns'[t].ended
          /\ \A p \in Chains : answer[p] # t
  /\ e.type \in {"started", "ended"} =>
       /\ e.arg \in DOMAIN turns /\ ~turns[e.arg].ended /\ turns'[e.arg].announced
       /\ e.type = "ended" => turns'[e.arg].ended

\* What an orderly harness tells is one event about one of its turns.
LEMMA TellsEffect ==
  ASSUME TypeInv, mode = "orderly", Tells
  PROVE  \E e \in Event : TurnTold(e)
<1>1. turns \in Seq(Turn) /\ DOMAIN turns \subseteq Nat \ {0} /\ approvals \in Nat /\ asked \subseteq Requests
  BY BoundsAssumption DEF TypeInv, TypeOK, NativeTypeOK, UserTypeOK
<1>2. \A type, arg : Notify(type, arg) =>
        /\ UNCHANGED workbenchVars /\ HeadDone' = HeadDone
        /\ events' = events \/ events' = Append(events, [type |-> type, arg |-> arg])
  BY DEF Notify, HeadDone
<1>3. ASSUME NEW t \in DOMAIN turns, Announce(t) PROVE \E e \in Event : TurnTold(e)
  <2>1. PICK e : e = [type |-> "started", arg |-> t]
    OBVIOUS
  <2>2. e \in Event /\ e.type = "started" /\ e.arg = t /\ About(e, t)
    BY <1>1, <2>1 DEF Event, About
  <2>3. /\ ~turns[t].ended /\ answer' = answer /\ \A p \in Chains : answer[p] # t
        /\ turns' = [turns EXCEPT ![t].announced = TRUE]
    BY <1>3 DEF Announce, MayNotify
  <2>4. turns[t] \in Turn
    BY <1>1
  <2>5. /\ DOMAIN turns' = DOMAIN turns /\ \A u \in DOMAIN turns : u # t => turns'[u] = turns[u]
        /\ turns'[t] = [turns[t] EXCEPT !.announced = TRUE]
    BY <1>1, <2>3
  <2>6. turns'[t].announced /\ turns'[t].ended = turns[t].ended /\ turns'[t].message = turns[t].message
    BY <2>4, <2>5 DEF Turn
  <2>7. UNCHANGED workbenchVars /\ HeadDone' = HeadDone /\ (events' = events \/ events' = Append(events, e))
    BY <1>2, <1>3, <2>1 DEF Announce
  <2> QED
    BY <2>2, <2>3, <2>5, <2>6, <2>7 DEF TurnTold
<1>4. ASSUME NEW t \in DOMAIN turns, End(t) PROVE \E e \in Event : TurnTold(e)
  <2>1. PICK e : e = [type |-> "ended", arg |-> t]
    OBVIOUS
  <2>2. e \in Event /\ e.type = "ended" /\ e.arg = t /\ About(e, t)
    BY <1>1, <2>1 DEF Event, About
  <2>3. /\ ~turns[t].ended /\ answer' = answer /\ \A p \in Chains : answer[p] # t
        /\ turns[t].announced /\ turns' = [turns EXCEPT ![t].ended = TRUE]
    BY <1>4 DEF End, MayNotify
  <2>4. turns[t] \in Turn
    BY <1>1
  <2>5. /\ DOMAIN turns' = DOMAIN turns /\ \A u \in DOMAIN turns : u # t => turns'[u] = turns[u]
        /\ turns'[t] = [turns[t] EXCEPT !.ended = TRUE]
    BY <1>1, <2>3
  <2>6. turns'[t].announced /\ turns'[t].ended /\ turns'[t].message = turns[t].message
    BY <2>3, <2>4, <2>5 DEF Turn
  <2>7. UNCHANGED workbenchVars /\ HeadDone' = HeadDone /\ (events' = events \/ events' = Append(events, e))
    BY <1>2, <1>4, <2>1 DEF End
  <2> QED
    BY <2>2, <2>3, <2>5, <2>6, <2>7 DEF TurnTold
<1>5. ASSUME NEW type \in {"asked", "resolved"}, NEW r \in Requests, Notify(type, r), turns' = turns,
             answer' = answer
      PROVE  \E e \in Event : TurnTold(e)
  <2>1. PICK e : e = [type |-> type, arg |-> r]
    OBVIOUS
  <2>2. e \in Event /\ e.type \notin {"started", "ended"}
    BY <2>1 DEF Event
  <2>3. UNCHANGED workbenchVars /\ HeadDone' = HeadDone /\ (events' = events \/ events' = Append(events, e))
    BY <1>2, <1>5, <2>1
  <2> QED
    BY <1>5, <2>2, <2>3 DEF TurnTold
<1>6. ASSUME NEW t \in DOMAIN turns, Ask(t) PROVE \E e \in Event : TurnTold(e)
  <2>1. approvals + 1 \in Requests
    BY <1>1, <1>6, BoundsAssumption DEF Ask, Requests
  <2> QED
    BY <1>5, <1>6, <2>1 DEF Ask
<1>7. ASSUME NEW r \in asked, Resolve(r) PROVE \E e \in Event : TurnTold(e)
  BY <1>1, <1>5, <1>7 DEF Resolve
<1> QED
  BY <1>3, <1>4, <1>6, <1>7 DEF Tells

\* No step makes live again a turn that was over, for the harness and the workbench.
LEMMA LiveEffect ==
  ASSUME TypeInv, mode = "orderly", [Next]_vars, NEW t \in DOMAIN turns, Live(t)'
  PROVE  Live(t)
<1>1. events \in Seq(Event)
  BY DEF TypeInv, TypeOK, ChainTypeOK
<1>2. CASE NothingHeard
  BY <1>2 DEF NothingHeard, KeptTurns, Live, Unheard
<1>3. CASE HeadHeard
  <2>1. turns'[t] = turns[t]
    BY <1>3 DEF HeadHeard, KeptTurns
  <2>2. ASSUME NEW i \in DOMAIN events', About(events'[i], t) PROVE Live(t)
    <3>1. i + 1 \in DOMAIN events /\ i + 1 # 1 /\ events[i + 1] = events'[i]
      BY <1>1, <1>3, <2>2 DEF HeadHeard
    <3> QED
      BY <2>2, <3>1 DEF Live, Unheard
  <2> QED
    BY <2>1, <2>2 DEF Live, Unheard
<1>4. CASE Tells
  <2>1. PICK e \in Event : TurnTold(e)
    BY <1>4, TellsEffect
  <2>2. CASE ~turns'[t].ended
    BY <2>1, <2>2 DEF TurnTold, Live
  <2>3. ASSUME NEW i \in DOMAIN events', Unheard(i)', About(events'[i], t) PROVE Live(t)
    <3>1. CASE i \in DOMAIN events /\ events'[i] = events[i]
      BY <2>1, <2>3, <3>1 DEF TurnTold, Live, Unheard
    <3>2. CASE events'[i] = e
      BY <2>1, <2>3, <3>2 DEF TurnTold, Live, About
    <3> QED
      BY <1>1, <2>1, <2>3, <3>1, <3>2 DEF TurnTold
  <2> QED
    BY <2>2, <2>3 DEF Live
<1> QED
  BY <1>2, <1>3, <1>4, NotificationEffect

\* Notifications stay in order, and what is held for over is over.
LEMMA NotifiedInOrderKept ==
  ASSUME TypeInv, AnswerFits, mode = "orderly", NotifiedInOrder, [Next]_vars
  PROVE  NotifiedInOrder'
<1>1. /\ events \in Seq(Event) /\ turns \in Seq(Turn) /\ DOMAIN turns \subseteq Nat \ {0}
      /\ Chains = {"cmd", "evt"} /\ pc \in [Chains -> CommandPoints \union EventPoints]
      /\ answer \in [Chains -> Nat] /\ events' \in Seq(Event)
  BY NextType DEF TypeInv, TypeOK, ChainTypeOK, NativeTypeOK, Chains
<1>2. ASSUME NEW t \in DOMAIN turns
      PROVE  /\ t \in DOMAIN turns' /\ (turns[t].announced => turns'[t].announced)
             /\ turns[t].ended => turns'[t].ended
  BY <1>2, NotificationEffect, TellsEffect DEF NothingHeard, HeadHeard, KeptTurns, TurnTold
\* No more than one notification comes, and the others keep their order.
<1>3. \/ \E k \in {0, 1} : \A i \in DOMAIN events' : i + k \in DOMAIN events /\ events'[i] = events[i + k]
      \/ \E e \in Event : TurnTold(e) /\ events' = Append(events, e)
  <2>1. CASE events' = events
    <3>1. \A i \in DOMAIN events' : i + 0 \in DOMAIN events /\ events'[i] = events[i + 0]
      BY <1>1, <2>1
    <3> QED
      BY <3>1
  <2>2. CASE HeadHeard
    <3>1. \A i \in DOMAIN events' : i + 1 \in DOMAIN events /\ events'[i] = events[i + 1]
      BY <1>1, <2>2 DEF HeadHeard
    <3> QED
      BY <3>1
  <2> QED
    BY <2>1, <2>2, NotificationEffect, TellsEffect DEF NothingHeard, TurnTold
<1>4. ASSUME NEW i \in DOMAIN events', events'[i].type \in {"started", "ended"}
      PROVE  /\ events'[i].arg \in DOMAIN turns' /\ turns'[events'[i].arg].announced
             /\ events'[i].type = "ended" => turns'[events'[i].arg].ended
  <2>1. CASE \E j \in DOMAIN events : events'[i] = events[j]
    BY <1>2, <1>4, <2>1 DEF NotifiedInOrder
  <2>2. ASSUME NEW e \in Event, TurnTold(e), events'[i] = e
        PROVE  /\ e.arg \in DOMAIN turns' /\ turns'[e.arg].announced
               /\ e.type = "ended" => turns'[e.arg].ended
    BY <1>4, <2>2 DEF TurnTold
  <2>3. CASE \E k \in {0, 1} : \A n \in DOMAIN events' : n + k \in DOMAIN events /\ events'[n] = events[n + k]
    BY <2>1, <2>3
  <2>4. CASE \E e \in Event : TurnTold(e) /\ events' = Append(events, e)
    <3>1. PICK e \in Event : TurnTold(e) /\ events' = Append(events, e)
      BY <2>4
    <3>2. (i \in DOMAIN events /\ events'[i] = events[i]) \/ events'[i] = e
      BY <1>1, <3>1
    <3> QED
      BY <2>1, <2>2, <3>1, <3>2
  <2> QED
    BY <1>3, <2>3, <2>4
<1>5. ASSUME NEW p \in Chains, answer'[p] # NoTurn PROVE ~turns'[answer'[p]].announced
  <2>1. CASE answer'[p] = answer[p]
    <3>1. answer[p] \in DOMAIN turns /\ ~turns[answer[p]].announced
      BY <1>5, <2>1 DEF AnswerFits, NotifiedInOrder
    <3>2. CASE Tells
      <4>1. PICK e \in Event : TurnTold(e)
        BY <3>2, TellsEffect
      <4>2. turns'[answer[p]] = turns[answer[p]]
        BY <3>1, <4>1 DEF TurnTold
      <4> QED
        BY <2>1, <3>1, <4>2
    <3> QED
      BY <2>1, <3>1, <3>2, NotificationEffect DEF NothingHeard, HeadHeard, KeptTurns
  <2>2. ASSUME NEW q \in Chains, Receive(q), answer'[p] # answer[p] PROVE ~turns'[answer'[p]].announced
    <3>1. answer'[p] = Len(turns) + 1 /\ NewTurn(job[q])
      BY <1>1, <2>2 DEF Receive
    <3>2. turns'[Len(turns) + 1].announced = FALSE
      BY <1>1, <3>1 DEF NewTurn
    <3> QED
      BY <3>1, <3>2
  <2>3. CASE \E q \in Chains : Answered(q) \/ GiveUp(q)
    BY <1>1, <1>5, <2>1, <2>3 DEF Answered, GiveUp
  <2>4. CASE \E m \in Messages : ReceiveLate(m)
    BY <2>1, <2>4 DEF ReceiveLate
  <2> QED
    BY <2>1, <2>2, <2>3, <2>4, NativeEffect
<1>6. ASSUME NEW i \in DOMAIN events', NEW j \in DOMAIN events', i < j, events'[i].type = "ended"
      PROVE  ~About(events'[j], events'[i].arg)
  <2>1. ASSUME NEW k \in {0, 1},
               \A n \in DOMAIN events' : n + k \in DOMAIN events /\ events'[n] = events[n + k]
        PROVE  ~About(events'[j], events'[i].arg)
    <3>1. /\ i + k \in DOMAIN events /\ events'[i] = events[i + k]
          /\ j + k \in DOMAIN events /\ events'[j] = events[j + k]
      BY <2>1
    <3>2. i \in Int /\ j \in Int
      BY <1>1
    <3> QED
      BY <1>6, <3>1, <3>2 DEF NotifiedInOrder
  <2>2. ASSUME NEW e \in Event, TurnTold(e), events' = Append(events, e)
        PROVE  ~About(events'[j], events'[i].arg)
    <3>1. i \in DOMAIN events /\ events'[i] = events[i]
      BY <1>1, <1>6, <2>2
    <3>2. turns[events[i].arg].ended
      BY <1>6, <3>1 DEF NotifiedInOrder
    <3>3. CASE j \in DOMAIN events
      BY <1>1, <1>6, <2>2, <3>1, <3>3 DEF NotifiedInOrder
    <3>4. CASE events'[j] = e
      BY <2>2, <3>1, <3>2, <3>4 DEF TurnTold, About
    <3> QED
      BY <1>1, <2>2, <3>3, <3>4
  <2> QED
    BY <1>3, <2>1, <2>2
<1>7. ASSUME NEW t \in terminalTurns' PROVE t \in DOMAIN turns' /\ ~Live(t)'
  <2>1. CASE t \in terminalTurns
    <3>1. t \in DOMAIN turns /\ ~Live(t)
      BY <2>1 DEF NotifiedInOrder
    <3> QED
      BY <1>2, <3>1, LiveEffect
  <2>2. CASE ApplyEnded /\ t = Head(events).arg
    <3>1. /\ events # <<>> /\ events[1].type = "ended" /\ t = events[1].arg /\ 1 \in DOMAIN events
          /\ pc["evt"] = "append"
      BY <1>1, <2>2 DEF ApplyEnded, InWork, TypeInv, Placed
    <3>2. t \in DOMAIN turns /\ turns[t].ended
      BY <3>1 DEF NotifiedInOrder
    <3>3. t \in DOMAIN turns' /\ turns'[t].ended
      BY <1>2, <3>2
    <3>4. ASSUME NEW i \in DOMAIN events', Unheard(i)' PROVE ~About(events'[i], t)
      <4>1. CASE Leave("evt")
        <5>1. i + 1 \in DOMAIN events /\ 1 < i + 1 /\ events'[i] = events[i + 1]
          BY <1>1, <3>1, <3>4, <4>1 DEF Leave
        <5> QED
          BY <3>1, <5>1 DEF NotifiedInOrder
      <4>2. CASE GoTo("evt", "record")
        <5>1. events' = events /\ HeadDone'
          BY <1>1, <4>2 DEF GoTo, HeadDone, StartPoints
        <5>2. i \in DOMAIN events /\ i # 1 /\ i \in Nat
          BY <1>1, <3>4, <5>1 DEF Unheard
        <5>3. 1 < i
          BY <1>1, <5>2
        <5> QED
          BY <3>1, <5>1, <5>2, <5>3 DEF NotifiedInOrder
      <4> QED
        BY <2>2, <4>1, <4>2 DEF ApplyEnded, DrainOrLeave
    <3> QED
      BY <3>3, <3>4 DEF Live
  <2> QED
    BY <2>1, <2>2, TerminalEffect
<1> QED
  BY <1>4, <1>5, <1>6, <1>7 DEF NotifiedInOrder

-----------------------------------------------------------------------------
(* One turn per message.                                                   *)

\* A message gets its turn where the harness takes it.
LEMMA HasTurnEffect ==
  ASSUME TypeInv, [Next]_vars, NEW m, HasTurn(m)'
  PROVE  \/ HasTurn(m)
         \/ \E p \in Chains : Receive(p) /\ m = job[p]
         \/ m \in limbo /\ ReceiveLate(m)
<1>1. turns \in Seq(Turn)
  BY DEF TypeInv, TypeOK, NativeTypeOK
<1>2. PICK t \in DOMAIN turns' : turns'[t].message = m
  BY DEF HasTurn
<1>3. CASE t \in DOMAIN turns
  BY <1>2, <1>3, NativeEffect DEF SameMessages, HasTurn
<1>4. ASSUME t \notin DOMAIN turns, NEW n, NewTurn(n) PROVE n = m
  BY <1>1, <1>2, <1>4 DEF NewTurn
<1> QED
  BY <1>2, <1>3, <1>4, NativeEffect DEF NoNewTurn, Receive, ReceiveLate

\* There is one turn more at most, of a message that had none.
LEMMA TurnsEffect ==
  ASSUME TypeInv, [Next]_vars
  PROVE  \/ NoNewTurn
         \/ \E m : /\ NewTurn(m)
                   /\ (\E p \in Chains : Receive(p) /\ m = job[p]) \/ (m \in limbo /\ ReceiveLate(m))
<1>1. ASSUME NEW m \in Messages, ReceiveLate(m) PROVE NoNewTurn \/ (m \in limbo /\ NewTurn(m))
  BY <1>1 DEF ReceiveLate, NoNewTurn
<1> QED
  BY <1>1, NativeEffect DEF Receive

\* How a chain comes to stand before its turn.
LEMMA BeforeEffect ==
  ASSUME TypeInv, QueuedIsTold, [Next]_vars, NEW q \in Chains, pc'[q] \in {"record", "handed", "refused"}
  PROVE  \/ pc[q] = pc'[q] /\ job'[q] = job[q]
         \/ pc[q] = "record" /\ pc'[q] = "handed" /\ job'[q] = job[q]
         \/ Refused(q)
         \/ pc'[q] = "record" /\ q = "cmd" /\ command'.type = "send"
         \/ /\ pc'[q] = "record" /\ chatQueue' # <<>> /\ job'[q] = Head(chatQueue')
            /\ blockedChat' = NoMessage /\ phase = "open"
<1> DEFINE Goal ==
         \/ pc[q] = pc'[q] /\ job'[q] = job[q]
         \/ pc[q] = "record" /\ pc'[q] = "handed" /\ job'[q] = job[q]
         \/ Refused(q)
         \/ pc'[q] = "record" /\ q = "cmd" /\ command'.type = "send"
         \/ /\ pc'[q] = "record" /\ chatQueue' # <<>> /\ job'[q] = Head(chatQueue')
            /\ blockedChat' = NoMessage /\ phase = "open"
<1>1. /\ pc \in [Chains -> CommandPoints \union EventPoints]
      /\ job \in [Chains -> Messages \union {NoMessage}]
      /\ Chains = {"cmd", "evt"} /\ "cmd" # "evt"
      /\ pc["cmd"] = "thread" => command.type = "send"
  BY DEF TypeInv, TypeOK, ChainTypeOK, Chains, Placed
<1>2. CASE pc'[q] = pc[q] /\ job'[q] = job[q]
  BY <1>2
<1>3. ASSUME NEW p \in Chains, Leave(p) PROVE Goal
  BY <1>1, <1>2, <1>3 DEF Leave
<1>4. ASSUME NEW p \in Chains, DrainOrLeave(p) PROVE Goal
  BY <1>1, <1>2, <1>3, <1>4 DEF GoTo, DrainOrLeave
<1>5. ASSUME NEW p \in Chains, GoOnOrLeave(p) PROVE Goal
  BY <1>3, <1>4, <1>5 DEF GoOnOrLeave
<1>6. ASSUME NEW p \in Chains, StartChatTurn(p) PROVE Goal
  <2>1. CASE Answered(p) \/ Refused(p) \/ GiveUp(p)
    BY <1>1, <2>1 DEF Answered, Refused, GiveUp, GoTo, userVars
  <2>2. CASE Record(p)
    BY <1>1, <1>5, <2>2 DEF Record, GoTo
  <2>3. CASE SettleStarted(p) \/ SettleRefused(p) \/ SettleUncertain(p)
    BY <1>1, <1>3, <1>5, <2>3 DEF SettleStarted, SettleRefused, SettleUncertain
  <2> QED
    BY <1>6, <2>1, <2>2, <2>3 DEF StartChatTurn
<1>7. CASE Dispatch \/ Close \/ Closed \/ UNCHANGED vars
  BY <1>1, <1>2, <1>7 DEF Dispatch, DispatchSend, DispatchCancel, DispatchApprove,
     DispatchWhenClosed, Begin, Close, Closed, chainVars, vars
<1>8. CASE CommandStep
  <2>1. CASE RunSend \/ StartThread \/ Enqueue
    BY <1>1, <1>2, <1>3, <2>1 DEF RunSend, StartThread, Enqueue, Ready, GoTo
  <2>2. CASE RunCancel \/ RunApprove \/ ReadFailed \/ ReadIdle \/ ReadInProgress \/ Reconcile
             \/ Interrupted \/ ApproveSettled
    BY <1>1, <1>2, <1>3, <2>2 DEF RunCancel, RunApprove, ReadFailed, ReadIdle, ReadInProgress,
       Reconcile, Interrupted, ApproveSettled, GoTo
  <2>3. CASE Abandon
    BY <1>1, <1>3, <1>4, <2>3 DEF Abandon
  <2> QED
    BY <1>1, <1>6, <1>8, <2>1, <2>2, <2>3 DEF CommandStep
<1>9. CASE EventStep
  <2>1. CASE TakeEvent
    BY <1>1, <1>2, <2>1 DEF TakeEvent
  <2>2. CASE ApplyStarted
    BY <1>1, <1>2, <1>3, <2>2 DEF ApplyStarted, GoTo
  <2>3. CASE DropEvent \/ EventFault \/ ResumeRecorded \/ ApplyEnded \/ ApplyAsked \/ ApplyResolved
    <3>1. Leave("evt") \/ DrainOrLeave("evt")
      BY <2>3 DEF DropEvent, EventFault, ResumeRecorded, ApplyEnded, ApplyAsked, ApplyResolved
    <3> QED
      BY <1>1, <1>3, <1>4, <3>1
  <2> QED
    BY <1>1, <1>6, <1>9, <2>1, <2>2, <2>3 DEF EventStep
<1>10. CASE NativeStep
  BY <1>2, <1>10 DEF NativeStep, Receive, ReceiveLate, Announce, End, Ask, Resolve, Notify, chainVars
<1> QED
  BY <1>7, <1>8, <1>9, <1>10 DEF Next

\* The uncertain message leaves the queue when its fate is known.
LEMMA BlockedStays ==
  ASSUME TypeInv, QueueOrdered, OrderlyInv, [Next]_vars,
         NEW m \in Range(chatQueue), m \in Range(chatQueue'), m = blockedChat
  PROVE  blockedChat' = m
<1>0. chatQueue \in Seq(Messages) /\ NoMessage \notin Messages
  BY DEF TypeInv, TypeOK, WorkbenchTypeOK, Messages, NoMessage
<1>1. m \in Messages /\ OneAtWork /\ BlockedAlone
  BY <1>0 DEF OrderlyInv, Range
<1>2. chatQueue # <<>> /\ Head(chatQueue) = m /\ blockedChat # NoMessage
  BY <1>0, <1>1 DEF BlockedAlone, Range
<1>3. \A p \in Chains : ~GiveUp(p) /\ ~Answered(p)
  BY <1>1, <1>2 DEF OneAtWork, WorkFits, BeforeTurn, GiveUp, Answered, Chains
<1>4. chatQueue' # Shift(chatQueue, m)
  BY <1>0, <1>1, <1>2, ShiftTakesOut DEF QueueOrdered
<1>5. ~ReadIdle /\ ~ReadInProgress /\ ~(ApplyStarted /\ Head(events).arg \notin terminalTurns)
  BY <1>0, <1>1, <1>2, <1>4 DEF ReadIdle, ReadInProgress, ApplyStarted, BlockedAlone
<1> QED
  BY <1>3, <1>5, GuardsEffect DEF Unblocked

\* No message gets a second turn.
LEMMA NoTurnTwiceKept ==
  ASSUME TypeInv, HandedOver, QueueOrdered, QueuedIsTold, AnswerFits, OrderlyInv, [Next]_vars
  PROVE  NoTurnTwice'
<1>1. /\ Chains = {"cmd", "evt"} /\ "cmd" # "evt" /\ NoMessage \notin Messages
      /\ pc \in [Chains -> CommandPoints \union EventPoints]
      /\ chatQueue \in Seq(Messages) /\ limbo \subseteq Messages
      /\ turns \in Seq(Turn) /\ answer \in [Chains -> Nat] /\ mode = "orderly"
      /\ \A p \in Chains : pc[p] \in StartPoints => job[p] \in Messages
      /\ StartPoints = {"record", "handed", "started", "refused", "uncertain"}
  BY DEF TypeInv, TypeOK, ChainTypeOK, WorkbenchTypeOK, NativeTypeOK, Placed, Chains, OrderlyInv,
     Messages, NoMessage, StartPoints
<1>2. OneAtWork /\ BlockedAlone /\ NoTurnTwice /\ CancelAlone
  BY DEF OrderlyInv
<1>3. OneAtWork' /\ BlockedAlone' /\ AnswerFits' /\ TypeInv'
  BY OneAtWorkKept, BlockedAloneKept, AnswerFitsKept, NextType
\* A chain that hands over has nothing uncertain beside it, and is the only one.
<1>4. ASSUME NEW p \in Chains, pc[p] = "handed"
      PROVE  /\ blockedChat = NoMessage /\ limbo = {} /\ \A q \in Chains : q # p => ~AtWork(q)
             /\ job[p] \in handed
             /\ job[p] \in Range(chatQueue) => chatQueue # <<>> /\ Head(chatQueue) = job[p]
  <2>1. blockedChat = NoMessage /\ \A q \in Chains : q # p => ~AtWork(q)
    BY <1>1, <1>2, <1>4 DEF OneAtWork, WorkFits, BeforeTurn, AtWork
  <2>2. limbo = {}
    BY <1>1, <1>2, <2>1 DEF BlockedAlone
  <2>3. job[p] \in handed
    BY <1>4 DEF HandedOver
  <2>4. FromQueue(p) \/ chatQueue = <<>>
    BY <1>1, <1>2, <1>4 DEF OneAtWork, WorkFits, AtWork, FromQueue, QueuedIsTold
  <2>5. job[p] \in Range(chatQueue) => chatQueue # <<>> /\ Head(chatQueue) = job[p]
    BY <1>1, <1>2, <1>4, <2>4 DEF OneAtWork, WorkFits, Range
  <2> QED
    BY <2>1, <2>2, <2>3, <2>5
<1>5. ASSUME NEW m, NewTurn(m),
             (\E p \in Chains : Receive(p) /\ m = job[p]) \/ (m \in limbo /\ ReceiveLate(m))
      PROVE  ~HasTurn(m) /\ m \in handed /\ m \in Messages
  <2>1. ASSUME NEW p \in Chains, Receive(p), m = job[p] PROVE ~HasTurn(m) /\ m \in handed /\ m \in Messages
    BY <1>1, <1>2, <1>4, <2>1 DEF Receive, NoTurnTwice
  <2>2. CASE m \in limbo
    <3>1. m \in Messages /\ m = blockedChat
      BY <1>1, <1>2, <2>2 DEF BlockedAlone
    <3> QED
      BY <1>1, <1>2, <2>2, <3>1 DEF NoTurnTwice, HandedOver
  <2> QED
    BY <1>5, <2>1, <2>2
<1>6. \A t, u \in DOMAIN turns' : turns'[t].message = turns'[u].message => t = u
  <2>1. CASE NoNewTurn
    BY <1>2, <2>1, NativeEffect DEF NoNewTurn, SameMessages, NoTurnTwice
  <2>2. ASSUME NEW m, NewTurn(m), ~HasTurn(m)
        PROVE  \A t, u \in DOMAIN turns' : turns'[t].message = turns'[u].message => t = u
    <3>1. /\ DOMAIN turns' = DOMAIN turns \union {Len(turns) + 1} /\ Len(turns) + 1 \notin DOMAIN turns
          /\ turns'[Len(turns) + 1].message = m /\ \A t \in DOMAIN turns : turns'[t] = turns[t]
      BY <1>1, <2>2 DEF NewTurn
    <3> QED
      BY <1>2, <2>2, <3>1 DEF NoTurnTwice, HasTurn
  <2> QED
    BY <1>5, <2>1, <2>2, TurnsEffect
<1>7. ASSUME NEW t \in DOMAIN turns' PROVE turns'[t].message \in handed' \union {NoMessage}
  <2>1. turns'[t].message \in handed \union {NoMessage}
    <3>1. PICK m : m = turns'[t].message
      OBVIOUS
    <3>2. HasTurn(m)'
      BY <3>1 DEF HasTurn
    <3>3. CASE HasTurn(m)
      BY <1>2, <3>1, <3>3 DEF HasTurn, NoTurnTwice
    <3>4. CASE \E p \in Chains : Receive(p) /\ m = job[p]
      BY <1>4, <3>1, <3>4 DEF Receive
    <3>5. CASE m \in limbo
      BY <1>1, <1>2, <3>1, <3>5 DEF BlockedAlone, HandedOver
    <3> QED
      BY <3>2, <3>3, <3>4, <3>5, HasTurnEffect
  <2> QED
    BY <2>1, HandedEffect
<1>8. ASSUME NEW m \in Messages, m \notin handed' PROVE ~HasTurn(m)'
  BY <1>1, <1>7, <1>8 DEF HasTurn
<1>9. ASSUME NEW m \in limbo' PROVE ~HasTurn(m)'
  <2>1. CASE m \in limbo
    <3>1. ~HasTurn(m) /\ m \in Messages
      BY <1>1, <1>2, <2>1 DEF NoTurnTwice
    <3>2. ~ReceiveLate(m)
      BY <1>9 DEF ReceiveLate
    <3>3. \A p \in Chains : ~Receive(p)
      BY <1>4, <2>1 DEF Receive
    <3> QED
      BY <3>1, <3>2, <3>3, HasTurnEffect
  <2>2. CASE m \notin limbo
    <3>1. PICK p \in Chains : GiveUp(p)
      BY <1>9, <2>2, NativeEffect DEF Receive, ReceiveLate, Answered
    <3>2. m = job[p] /\ pc[p] = "handed" /\ answer[p] = NoTurn /\ turns' = turns
      BY <1>1, <1>9, <2>2, <3>1 DEF GiveUp
    <3>3. ~HasTurn(m)
      BY <1>2, <3>2 DEF NoTurnTwice
    <3> QED
      BY <3>2, <3>3 DEF HasTurn
  <2> QED
    BY <2>1, <2>2
<1>10. ASSUME NEW m \in Range(chatQueue'), HasTurn(m)'
       PROVE  m = blockedChat' \/ \E p \in Chains : answer'[p] # NoTurn /\ job'[p] = m
  <2>1. m \in Messages
    BY <1>3, <1>10 DEF TypeInv, TypeOK, WorkbenchTypeOK, Range
  <2>2. m \in Range(chatQueue)
    <3>1. CASE Push
      <4>1. command.type = "send" /\ job["cmd"] = command.arg /\ pc["cmd"] = "enqueue" /\ handed' = handed
        BY <3>1 DEF Push, TypeInv, Placed
      <4>2. command.arg \notin handed
        BY <1>2, <4>1 DEF BlockedAlone
      <4>3. m # command.arg
        BY <1>8, <1>10, <2>1, <4>1, <4>2
      <4>4. Range(chatQueue') = Range(chatQueue) \union {command.arg}
        <5>1. command.arg \in Messages
          BY <4>1 DEF TypeInv, TypeOK, ChainTypeOK, Commands, NoCommand
        <5> QED
          BY <1>1, <3>1, <4>1, <5>1, AppendKeeps DEF Push, QueueOrdered
      <4> QED
        BY <1>10, <4>3, <4>4
    <3>2. ASSUME NEW id, chatQueue' = Shift(chatQueue, id) PROVE m \in Range(chatQueue)
      BY <1>1, <1>10, <3>2, ShiftKeeps DEF QueueOrdered
    <3> QED
      BY <1>10, <3>1, <3>2, QueueEffect
  <2>3. m = blockedChat => m = blockedChat'
    BY <1>10, <2>1, <2>2, BlockedStays
  <2>4. ASSUME NEW p \in Chains, answer[p] # NoTurn, job[p] = m
        PROVE  answer'[p] # NoTurn /\ job'[p] = m
    <3>1. pc[p] = "handed"
      BY <2>4 DEF AnswerFits
    <3>2. chatQueue # <<>> /\ Head(chatQueue) = m
      BY <1>4, <2>2, <2>4, <3>1
    <3>3. ~Answered(p)
      <4>1. chatQueue' # Shift(chatQueue, m)
        BY <1>1, <1>10, <3>2, ShiftTakesOut DEF QueueOrdered
      <4> QED
        BY <2>4, <4>1 DEF Answered
    <3>4. ~StartChatTurn(p)
      BY <1>1, <2>4, <3>1, <3>3 DEF StartChatTurn, Record, SettleStarted, Refused, SettleRefused, GiveUp,
         SettleUncertain
    <3>5. job'[p] = m
      BY <2>4, <3>1, <3>4, StandsEffect DEF Stands, StartPoints
    <3>6. \A q \in Chains : q # p => ~Answered(q) /\ ~GiveUp(q) /\ ~Receive(q)
      BY <1>1, <1>4, <3>1 DEF Answered, GiveUp, Receive, AtWork
    <3>7. ~Receive(p) /\ ~GiveUp(p)
      BY <2>4, <3>4 DEF Receive, StartChatTurn
    <3>8. answer' = answer
      BY <3>3, <3>6, <3>7, NativeEffect DEF ReceiveLate
    <3> QED
      BY <2>4, <3>5, <3>8
  <2>5. CASE HasTurn(m)
    BY <1>2, <2>2, <2>3, <2>4, <2>5 DEF NoTurnTwice
  <2>6. ASSUME NEW p \in Chains, Receive(p), m = job[p] PROVE answer'[p] # NoTurn /\ job'[p] = m
    BY <1>1, <2>6 DEF Receive, chainVars, NoTurn
  <2>7. CASE m \in limbo
    BY <1>2, <2>1, <2>3, <2>7 DEF BlockedAlone
  <2> QED
    BY <1>10, <2>5, <2>6, <2>7, HasTurnEffect
<1>11. ASSUME NEW q \in Chains,
              pc'[q] \in {"record", "refused"} \/ (pc'[q] = "handed" /\ answer'[q] = NoTurn)
       PROVE  ~HasTurn(job[q])'
  <2>1. PICK m : m = job'[q]
    OBVIOUS
  <2>2. m \in Messages
    BY <1>1, <1>3, <1>11, <2>1 DEF TypeInv, Placed
  <2> SUFFICES ASSUME HasTurn(m)' PROVE FALSE
    BY <2>1 DEF HasTurn
  <2>3. ASSUME pc[q] \in {"record", "handed", "refused"}, job[q] = m, pc[q] = "handed" => answer[q] = NoTurn
        PROVE  FALSE
    <3>1. ~HasTurn(m)
      BY <1>2, <2>3 DEF NoTurnTwice
    <3>2. m \notin limbo
      BY <1>1, <1>2, <2>2, <2>3 DEF BlockedAlone, OneAtWork, WorkFits, BeforeTurn
    <3>3. PICK p \in Chains : Receive(p)
      BY <3>1, <3>2, HasTurnEffect
    <3>4. p = q
      BY <1>1, <1>4, <2>3, <3>3 DEF Receive, AtWork
    <3>5. answer'[q] # NoTurn /\ pc' = pc /\ pc[q] = "handed"
      BY <1>1, <3>3, <3>4 DEF Receive, chainVars, NoTurn
    <3> QED
      BY <1>11, <3>5
  <2>4. CASE pc[q] = pc'[q] /\ job'[q] = job[q]
    <3>1. ASSUME pc[q] = "handed", answer[q] # NoTurn PROVE FALSE
      <4>1. \A p \in Chains : p # q => ~Answered(p) /\ ~GiveUp(p) /\ ~Receive(p)
        BY <1>1, <1>4, <3>1 DEF Answered, GiveUp, Receive, AtWork
      <4>2. ~Answered(q) /\ ~GiveUp(q) /\ ~Receive(q)
        BY <1>1, <2>4, <3>1 DEF Answered, GiveUp, Receive, GoTo
      <4>3. answer' = answer
        BY <4>1, <4>2, NativeEffect DEF ReceiveLate
      <4> QED
        BY <1>11, <2>4, <3>1, <4>3
    <3> QED
      BY <1>11, <2>1, <2>3, <2>4, <3>1
  <2>5. CASE pc[q] = "record" /\ job'[q] = job[q]
    BY <2>1, <2>3, <2>5
  <2>6. CASE Refused(q)
    BY <2>1, <2>3, <2>6 DEF Refused
  <2>7. CASE pc'[q] = "record" /\ q = "cmd" /\ command'.type = "send"
    <3>1. m = command'.arg
      BY <1>3, <2>1, <2>7 DEF TypeInv, Placed
    <3>2. m \notin handed'
      BY <1>3, <2>7, <3>1 DEF BlockedAlone
    <3> QED
      BY <1>8, <2>2, <3>2
  <2>8. CASE /\ pc'[q] = "record" /\ chatQueue' # <<>> /\ job'[q] = Head(chatQueue')
             /\ blockedChat' = NoMessage /\ phase = "open"
    <3>1. m \in Range(chatQueue')
      BY <1>3, <2>1, <2>8 DEF TypeInv, TypeOK, WorkbenchTypeOK, Range
    <3>2. PICK p \in Chains : answer'[p] # NoTurn
      BY <1>1, <1>10, <2>2, <2>8, <3>1
    <3>3. pc'[p] = "handed" /\ p # q
      BY <1>3, <2>8, <3>2 DEF AnswerFits
    <3> QED
      BY <1>1, <1>3, <2>8, <3>3 DEF OneAtWork, AtWork
  <2> QED
    BY <1>11, <2>4, <2>5, <2>6, <2>7, <2>8, BeforeEffect
<1> QED
  BY <1>6, <1>7, <1>9, <1>10, <1>11 DEF NoTurnTwice

-----------------------------------------------------------------------------
(* The workbench knows of every turn.                                      *)

\* What makes another turn the active one, or none.
LEMMA ActiveEffect ==
  ASSUME [Next]_vars
  PROVE  \/ activeTurnId' = activeTurnId
         \/ activeTurnId \in terminalTurns'
         \/ \E p \in Chains : Answered(p)
         \/ ReadInProgress
         \/ ApplyStarted /\ Head(events).arg \notin terminalTurns /\ activeTurnId' = Head(events).arg
<1>1. UNCHANGED workbenchVars => activeTurnId' = activeTurnId
  BY DEF workbenchVars
<1>2. ASSUME NEW p \in Chains, StartChatTurn(p) PROVE activeTurnId' = activeTurnId \/ Answered(p)
  BY <1>1, <1>2 DEF StartChatTurn, Record, SettleStarted, Refused, GiveUp, SettleRefused, SettleUncertain
<1>3. CASE Dispatch \/ Close \/ Closed \/ UNCHANGED vars
  BY <1>1, <1>3 DEF Dispatch, DispatchSend, DispatchCancel, DispatchApprove, DispatchWhenClosed,
                    Begin, Close, Closed, vars
<1>4. CASE CommandStep
  BY <1>1, <1>2, <1>4 DEF CommandStep, RunSend, StartThread, RunCancel, ReadFailed, Enqueue, ReadIdle,
     Abandon, Reconcile, Interrupted, RunApprove, ApproveSettled, Chains
<1>5. CASE EventStep
  BY <1>1, <1>2, <1>5 DEF EventStep, TakeEvent, DropEvent, EventFault, ApplyStarted, ResumeRecorded,
     ApplyEnded, ApplyAsked, ApplyResolved, Reconciled, Chains
<1>6. CASE NativeStep
  BY <1>1, <1>6 DEF NativeStep, Receive, ReceiveLate, Announce, End, Ask, Resolve, Notify
<1> QED
  BY <1>3, <1>4, <1>5, <1>6 DEF Next

\* A turn that runs, or is to be heard of, is never out of sight.
LEMMA LiveIsKnownKept ==
  ASSUME TypeInv, QueuedIsTold, AnswerFits, OrderlyInv, [Next]_vars
  PROVE  LiveIsKnown'
<1> SUFFICES ASSUME NEW t \in DOMAIN turns', Live(t)'
             PROVE  \/ activeTurnId' = t \/ \E p \in Chains : answer'[p] = t
                    \/ blockedChat' # NoMessage /\ turns'[t].message = blockedChat'
  BY DEF LiveIsKnown
<1>1. /\ turns \in Seq(Turn) /\ answer \in [Chains -> Nat] /\ mode = "orderly"
      /\ NoTurn \notin DOMAIN turns /\ NoMessage \notin Messages /\ limbo \subseteq Messages
      /\ pc["cmd"] = "read" => command.type = "cancel"
      /\ OneAtWork /\ BlockedAlone /\ NotifiedInOrder /\ LiveIsKnown /\ NoTurnTwice /\ CancelAlone
  BY DEF TypeInv, TypeOK, NativeTypeOK, OrderlyInv, NoTurn, NoMessage, Messages, Placed
<1>2. ~\E p \in Chains : pc[p] = "handed" /\ (blockedChat # NoMessage \/ activeTurnId # NoTurn)
  BY <1>1 DEF OneAtWork, WorkFits, BeforeTurn, Chains
<1>3. CASE t \notin DOMAIN turns
  <2>1. ASSUME NEW m, NewTurn(m) PROVE t = Len(turns) + 1 /\ turns'[t].message = m
    BY <1>1, <1>3, <2>1 DEF NewTurn
  <2>2. ASSUME NEW p \in Chains, Receive(p) PROVE answer'[p] = t
    BY <1>1, <2>1, <2>2 DEF Receive
  <2>3. ASSUME NEW m \in limbo, ReceiveLate(m), NewTurn(m)
        PROVE  blockedChat' # NoMessage /\ turns'[t].message = blockedChat'
    <3>1. blockedChat' = blockedChat
      BY <2>3 DEF ReceiveLate, workbenchVars
    <3> QED
      BY <1>1, <2>1, <2>3, <3>1 DEF BlockedAlone
  <2> QED
    BY <1>3, <2>2, <2>3, TurnsEffect DEF NoNewTurn
<1>4. CASE t \in DOMAIN turns
  <2>1. Live(t) /\ turns'[t].message = turns[t].message /\ t # NoTurn
    BY <1>1, <1>4, LiveEffect, NativeEffect DEF SameMessages
  <2>2. t \notin terminalTurns'
    <3>1. NotifiedInOrder'
      BY <1>1, NotifiedInOrderKept
    <3> QED
      BY <3>1 DEF NotifiedInOrder
  <2>3. ASSUME NEW u, u = Head(events).arg, ApplyStarted, u \notin terminalTurns
        PROVE  /\ u \in DOMAIN turns /\ activeTurnId' = u
               /\ activeTurnId = u \/ (blockedChat # NoMessage /\ turns[u].message = blockedChat)
    <3>1. pc["evt"] = "append" /\ events # <<>> /\ Head(events).type = "started"
      BY <2>3 DEF ApplyStarted, InWork, TypeInv, Placed
    <3> QED
      BY <1>1, <2>3, <3>1, StartedTurn DEF ApplyStarted
  <2>4. ASSUME NEW p \in Chains, answer[p] = t PROVE activeTurnId' = t \/ \E q \in Chains : answer'[q] = t
    <3>1. CASE Answered(p)
      BY <2>4, <3>1 DEF Answered
    <3>2. ~GiveUp(p) /\ ~Receive(p)
      BY <1>1, <2>1, <2>4 DEF GiveUp, Receive
    <3>3. CASE \E q \in Chains : q # p /\ (Answered(q) \/ GiveUp(q) \/ Receive(q))
      BY <1>1, <2>4, <3>3 DEF Answered, GiveUp, Receive
    <3>4. CASE \E m \in Messages : ReceiveLate(m)
      BY <2>4, <3>4 DEF ReceiveLate
    <3> QED
      BY <2>4, <3>1, <3>2, <3>3, <3>4, NativeEffect
  <2>5. CASE activeTurnId = t
    <3>1. blockedChat = NoMessage
      BY <1>1, <2>1, <2>5 DEF BlockedAlone
    <3>2. ~ReadInProgress /\ \A p \in Chains : ~Answered(p)
      BY <1>1, <1>2, <2>1, <2>5, <3>1 DEF ReadInProgress, Answered, BlockedAlone
    <3>3. CASE ApplyStarted /\ Head(events).arg \notin terminalTurns
      <4>1. PICK u : u = Head(events).arg
        OBVIOUS
      <4> QED
        BY <2>3, <2>5, <3>1, <3>3, <4>1
    <3> QED
      BY <2>2, <2>5, <3>2, <3>3, ActiveEffect
  <2>6. CASE blockedChat # NoMessage /\ turns[t].message = blockedChat
    <3>1. activeTurnId = NoTurn
      BY <1>1, <2>6 DEF BlockedAlone
    <3>2. \A p \in Chains : ~Answered(p) /\ ~GiveUp(p)
      BY <1>2, <2>6 DEF Answered, GiveUp
    <3>3. ASSUME NEW u \in DOMAIN turns, turns[u].message = blockedChat PROVE u = t
      BY <1>1, <1>4, <2>6, <3>3 DEF NoTurnTwice
    <3>4. CASE ApplyStarted /\ Head(events).arg \notin terminalTurns
      <4>1. PICK u : u = Head(events).arg
        OBVIOUS
      <4> QED
        BY <1>1, <2>3, <3>1, <3>3, <3>4, <4>1
    <3>5. ASSUME ReadIdle \/ ReadInProgress
          PROVE  /\ ~turns[t].ended /\ \A u \in RunningTurns : u = t
                 /\ ReadInProgress
      <4>1. events = <<>> /\ pc["cmd"] = "read" /\ \A p \in Chains : pc[p] # "handed"
        BY <1>1, <1>2, <2>6, <3>5, CancelIsAlone DEF ReadIdle, ReadInProgress
      <4>2. \A i : ~Unheard(i)
        BY <4>1 DEF Unheard
      <4>3. ~turns[t].ended
        BY <2>1, <4>2 DEF Live, Unheard
      <4>4. ASSUME NEW u \in RunningTurns PROVE u = t
        <5>1. u \in DOMAIN turns /\ Live(u) /\ u # NoTurn
          BY <1>1, <4>4 DEF RunningTurns, Live
        <5>2. \A p \in Chains : answer[p] # u
          BY <4>1, <5>1 DEF AnswerFits
        <5> QED
          BY <1>1, <3>1, <3>3, <5>1, <5>2 DEF LiveIsKnown
      <4>5. ~ReadIdle
        BY <1>4, <4>3 DEF ReadIdle, RunningTurns
      <4> QED
        BY <3>5, <4>3, <4>4, <4>5
    <3>6. CASE ReadIdle \/ ReadInProgress
      BY <3>5, <3>6 DEF ReadInProgress
    <3> QED
      BY <2>1, <2>6, <3>2, <3>4, <3>6, GuardsEffect DEF Unblocked
  <2> QED
    BY <1>1, <1>4, <2>1, <2>4, <2>5, <2>6 DEF LiveIsKnown
<1> QED
  BY <1>3, <1>4

\* ModesAssumption and Orderly leave one mode.
LEMMA InitOrderly == Orderly /\ Init => OrderlyInv
<1> SUFFICES ASSUME Orderly, Init PROVE OrderlyInv
  OBVIOUS
<1>1. /\ mode = "orderly" /\ events = <<>> /\ Len(events) = 0 /\ awaited = 0 /\ blockedChat = NoMessage
      /\ Chains = {"cmd", "evt"} /\ limbo = {} /\ terminalTurns = {} /\ chatQueue = <<>>
      /\ pc = [p \in Chains |-> "idle"] /\ answer = [p \in Chains |-> NoTurn]
      /\ command = NoCommand /\ NoCommand.type = "none" /\ Range(chatQueue) = {}
      /\ activeTurnId = Len(turns)
  BY DEF Orderly, Init, Chains, NoCommand, Range
<1>2. \/ turns = <<>> /\ DOMAIN turns = {}
      \/ DOMAIN turns = {1} /\ Len(turns) = 1 /\ turns[1].message = NoMessage
  BY DEF Init
<1>3. CancelAlone /\ OneAtWork /\ BlockedAlone
  BY <1>1 DEF CancelAlone, Reconciling, OneAtWork, AtWork, WorkFits, BeforeTurn, FromQueue, BlockedAlone,
     StartPoints
<1>4. NotifiedInOrder /\ LiveIsKnown
  BY <1>1, <1>2 DEF NotifiedInOrder, LiveIsKnown
<1>5. NoTurnTwice
  BY <1>1, <1>2 DEF NoTurnTwice, HasTurn
<1> QED
  BY <1>1, <1>3, <1>4, <1>5 DEF OrderlyInv

\* No step changes what the harness may do.
LEMMA ModeStays == [Next]_vars => mode' = mode
<1>1. ASSUME NEW p \in Chains, StartChatTurn(p) PROVE mode' = mode
  BY <1>1 DEF StartChatTurn, Record, SettleStarted, Refused, GiveUp, Answered, SettleRefused,
              SettleUncertain, nativeVars
<1>2. CASE Dispatch \/ Close \/ Closed \/ UNCHANGED vars
  BY <1>2 DEF Dispatch, DispatchSend, DispatchCancel, DispatchApprove, DispatchWhenClosed, Begin, Close,
              Closed, vars, nativeVars
<1>3. CASE CommandStep
  BY <1>1, <1>3 DEF CommandStep, RunSend, StartThread, RunCancel, ReadFailed, Enqueue, ReadIdle,
     ReadInProgress, Abandon, Reconcile, Interrupted, RunApprove, ApproveSettled, nativeVars, Chains
<1>4. CASE EventStep
  BY <1>1, <1>4 DEF EventStep, TakeEvent, DropEvent, EventFault, ApplyStarted, ResumeRecorded,
     ApplyEnded, ApplyAsked, ApplyResolved, nativeVars, Chains
<1>5. CASE NativeStep
  BY <1>5 DEF NativeStep, Receive, ReceiveLate, Announce, End, Ask, Resolve
<1> QED
  BY <1>2, <1>3, <1>4, <1>5 DEF Next

\* The orderly part of the invariant is kept by every step, given the parts before it.
LEMMA OrderlyKept == SafetyInv /\ ReceiptInv /\ OrderlyInv /\ [Next]_vars => OrderlyInv'
<1> SUFFICES ASSUME SafetyInv, ReceiptInv, OrderlyInv, [Next]_vars PROVE OrderlyInv'
  OBVIOUS
<1>1. /\ TypeInv /\ HandedOver /\ QueueOrdered /\ QueuedIsTold /\ AnswerFits
      /\ mode = "orderly" /\ CancelAlone /\ NotifiedInOrder
  BY DEF SafetyInv, ReceiptInv, OrderlyInv
<1>2. CancelAlone' /\ NotifiedInOrder'
  BY <1>1, CancelAloneKept, NotifiedInOrderKept
<1>3. OneAtWork' /\ BlockedAlone' /\ LiveIsKnown' /\ NoTurnTwice'
  BY <1>1, OneAtWorkKept, BlockedAloneKept, LiveIsKnownKept, NoTurnTwiceKept
<1> QED
  BY <1>1, <1>2, <1>3, ModeStays DEF OrderlyInv

-----------------------------------------------------------------------------
(* What an orderly harness is promised.                                    *)

\* The invariant holds of every behaviour with such a harness.
THEOREM OrderlyHolds == ASSUME Orderly PROVE Spec => []WholeInv
<1>1. Init => OrderlyInv
  BY InitOrderly
<1> QED
  BY <1>1, OrderlyKept, Safety, ReceiptsHold, PTL DEF Spec, WholeInv

\* No message is run twice: not by a retry, and not by the queue after the harness took it.
THEOREM NoMessageRunsTwice == ASSUME Orderly PROVE Spec => []OneTurnPerMessage
<1>1. WholeInv => OneTurnPerMessage
  BY DEF WholeInv, OrderlyInv, NoTurnTwice, OneTurnPerMessage
<1> QED
  BY <1>1, OrderlyHolds, PTL

\* One turn at most runs at a time.
LEMMA OneTurnRuns ==
  ASSUME WholeInv, NEW t \in RunningTurns, NEW u \in RunningTurns
  PROVE  t = u
<1>1. /\ OneAtWork /\ BlockedAlone /\ LiveIsKnown /\ NoTurnTwice /\ AnswerFits
      /\ NoTurn \notin DOMAIN turns /\ Chains = {"cmd", "evt"} /\ t \in DOMAIN turns /\ u \in DOMAIN turns
  BY DEF WholeInv, SafetyInv, ReceiptInv, OrderlyInv, TypeInv, TypeOK, NativeTypeOK, NoTurn, Chains,
     RunningTurns
<1>2. ASSUME NEW p \in Chains, NEW v \in DOMAIN turns, answer[p] = v
      PROVE  /\ activeTurnId = NoTurn /\ blockedChat = NoMessage
             /\ \A q \in Chains : q # p => answer[q] = NoTurn
  <2>1. pc[p] = "handed"
    BY <1>1, <1>2 DEF AnswerFits
  <2> QED
    BY <1>1, <2>1 DEF OneAtWork, WorkFits, BeforeTurn, AtWork, AnswerFits, StartPoints
<1>3. ASSUME NEW v \in RunningTurns
      PROVE  \/ activeTurnId = v \/ \E p \in Chains : answer[p] = v
             \/ blockedChat # NoMessage /\ turns[v].message = blockedChat
  BY <1>1, <1>3 DEF LiveIsKnown, Live, RunningTurns
<1>4. CASE blockedChat # NoMessage
  <2>1. activeTurnId = NoTurn
    BY <1>1, <1>4 DEF BlockedAlone
  <2>2. turns[t].message = blockedChat /\ turns[u].message = blockedChat
    BY <1>1, <1>2, <1>3, <1>4, <2>1
  <2> QED
    BY <1>1, <2>2 DEF NoTurnTwice
<1>5. CASE blockedChat = NoMessage
  BY <1>1, <1>2, <1>3, <1>5
<1> QED
  BY <1>4, <1>5

\* No turn is started while another one runs on the thread.
THEOREM OneTurnAtATime == ASSUME Orderly PROVE Spec => []TurnsDoNotOverlap
<1>1. WholeInv => TurnsDoNotOverlap
  <2> SUFFICES ASSUME WholeInv PROVE Cardinality(RunningTurns) <= 1
    BY DEF TurnsDoNotOverlap
  <2>1. CASE RunningTurns = {}
    BY <2>1, FS_EmptySet
  <2>2. ASSUME NEW t \in RunningTurns PROVE Cardinality(RunningTurns) <= 1
    <3>1. RunningTurns = {t}
      BY <2>2, OneTurnRuns
    <3> QED
      BY <3>1, FS_Singleton
  <2> QED
    BY <2>1, <2>2
<1> QED
  BY <1>1, OrderlyHolds, PTL

\* Nothing goes out, from either chain, while the fate of a message is unknown.
THEOREM UncertaintyHoldsAll == ASSUME Orderly PROVE Spec => UncertainHoldsQueue
<1>1. WholeInv /\ [Next]_vars => [blockedChat # NoMessage => handed' = handed]_vars
  <2> SUFFICES ASSUME WholeInv, [Next]_vars, NEW p \in Chains, Record(p), blockedChat # NoMessage
               PROVE  FALSE
    BY HandedEffect
  <2> QED
    BY DEF Record, WholeInv, OrderlyInv, OneAtWork, WorkFits, BeforeTurn, Chains
<1> QED
  BY <1>1, OrderlyHolds, PTL DEF Spec, UncertainHoldsQueue

-----------------------------------------------------------------------------
(* The order of what goes out.                                             *)

\* What was handed over is older than all that is still to be.
HandedIsOlder ==
  /\ \A n \in handed : \A m \in Range(chatQueue) : n <= m
  /\ \A n \in handed : \A p \in Chains : pc[p] = "record" => n < job[p]
  /\ command.type = "send" /\ pc["cmd"] \in Unsent => \A n \in handed : n < command.arg

\* Nothing is left that could make the queue go on.
Stuck ==
  /\ \A i \in DOMAIN events : ~Unheard(i)
  /\ RunningTurns = {} /\ activeTurnId = NoTurn /\ blockedChat = NoMessage
  /\ pc["cmd"] # "abandon" /\ \A p \in Chains : ~AtWork(p)

\* A message that was handed over is still in the queue while a chain works on it, while its
\* fate is unknown, or because the journal failed to tell that it was refused; then it stays.
HandedInQueue ==
  \A m \in Range(chatQueue) : m \in handed =>
    \/ m = blockedChat \/ phase # "open" \/ Stuck
    \/ \E p \in Chains : pc[p] \in {"handed", "refused"} /\ job[p] = m

\* The last word of a thread on which no turn runs is the end of its last turn.
EndIsLast ==
  /\ phase = "open" /\ RunningTurns = {} /\ events # <<>> => events[Len(events)].type = "ended"
  /\ asked # {} => RunningTurns # {}

OutgoingInv == HandedIsOlder /\ HandedInQueue /\ EndIsLast

\* What the harness asks, and what close() does.
LEMMA AskedEffect ==
  ASSUME [Next]_vars
  PROVE  /\ asked' = asked \/ (\E t \in DOMAIN turns : Ask(t)) \/ (\E r \in asked : Resolve(r))
         /\ phase' = phase \/ (phase' # "open" /\ UNCHANGED <<pc, job>>)
<1>1. UNCHANGED nativeVars => asked' = asked
  BY DEF nativeVars
<1>2. UNCHANGED workbenchVars => phase' = phase
  BY DEF workbenchVars
<1>3. ASSUME NEW p \in Chains, StartChatTurn(p) PROVE asked' = asked /\ phase' = phase
  BY <1>1, <1>2, <1>3 DEF StartChatTurn, Record, SettleStarted, Refused, GiveUp, Answered, SettleRefused,
                          SettleUncertain
<1>4. CASE Dispatch \/ Close \/ Closed \/ UNCHANGED vars
  BY <1>1, <1>2, <1>4 DEF Dispatch, DispatchSend, DispatchCancel, DispatchApprove, DispatchWhenClosed,
                          Begin, Close, Closed, vars, chainVars
<1>5. CASE CommandStep
  BY <1>1, <1>2, <1>3, <1>5 DEF CommandStep, RunSend, StartThread, RunCancel, ReadFailed, Enqueue,
     ReadIdle, ReadInProgress, Abandon, Reconcile, Interrupted, RunApprove, ApproveSettled, Chains
<1>6. CASE EventStep
  BY <1>1, <1>2, <1>3, <1>6 DEF EventStep, TakeEvent, DropEvent, EventFault, ApplyStarted, ResumeRecorded,
     ApplyEnded, ApplyAsked, ApplyResolved, Chains
<1>7. CASE NativeStep
  BY <1>2, <1>7 DEF NativeStep, Receive, ReceiveLate, Announce, End, Ask, Resolve, Notify
<1> QED
  BY <1>4, <1>5, <1>6, <1>7 DEF Next

\* The last word of a thread on which no turn runs stays the end of its last turn.
LEMMA EndIsLastKept ==
  ASSUME TypeInv, mode = "orderly", EndIsLast, [Next]_vars
  PROVE  EndIsLast'
<1>1. events \in Seq(Event) /\ turns \in Seq(Turn)
  BY DEF TypeInv, TypeOK, ChainTypeOK, NativeTypeOK
<1>2. ASSUME KeptTurns PROVE RunningTurns \subseteq RunningTurns'
  BY <1>2 DEF KeptTurns, RunningTurns
<1>3. CASE NothingHeard \/ HeadHeard
  <2>1. RunningTurns \subseteq RunningTurns'
    BY <1>2, <1>3 DEF NothingHeard, HeadHeard
  <2>2. events' # <<>> => events # <<>> /\ events'[Len(events')] = events[Len(events)]
    BY <1>1, <1>3 DEF NothingHeard, HeadHeard
  <2>3. asked' # {} => RunningTurns' # {}
    <3>1. asked' = asked \/ RunningTurns # {}
      BY AskedEffect DEF Ask, RunningTurns, EndIsLast
    <3> QED
      BY <2>1, <3>1 DEF EndIsLast
  <2> QED
    BY <2>1, <2>2, <2>3, AskedEffect DEF EndIsLast
<1>4. ASSUME NEW t \in DOMAIN turns, Announce(t) \/ Ask(t) PROVE EndIsLast'
  <2>1. turns[t] \in Turn /\ ~turns[t].ended
    BY <1>1, <1>4 DEF Announce, Ask
  <2>2. t \in DOMAIN turns' /\ ~turns'[t].ended
    BY <1>1, <1>4, <2>1 DEF Announce, Ask, Turn
  <2> QED
    BY <2>2 DEF EndIsLast, RunningTurns
<1>5. ASSUME NEW t \in DOMAIN turns, End(t) PROVE EndIsLast'
  <2>1. asked' = {} /\ phase' = phase
    BY <1>5 DEF End, Notify, workbenchVars
  <2>2. phase = "open" => events' = Append(events, [type |-> "ended", arg |-> t])
    BY <1>5 DEF End, Notify
  <2>3. phase = "open" => events'[Len(events')].type = "ended"
    BY <1>1, <2>2
  <2> QED
    BY <2>1, <2>3 DEF EndIsLast
<1>6. ASSUME NEW r \in asked, Resolve(r) PROVE EndIsLast'
  BY <1>6 DEF Resolve, EndIsLast, RunningTurns
<1> QED
  BY <1>3, <1>4, <1>5, <1>6, NotificationEffect DEF Tells

\* A queue without a second element ends with its first.
LEMMA OneLeft ==
  ASSUME NEW S, NEW q \in Seq(S), q # <<>>, 2 \notin DOMAIN q
  PROVE  Len(q) = 1 /\ Tail(q) = <<>>
<1>1. Len(q) \in Nat \ {0} /\ DOMAIN q = 1..Len(q) /\ Tail(q) \in Seq(S) /\ Len(Tail(q)) = Len(q) - 1
  OBVIOUS
<1>2. ~(1 <= 2 /\ 2 <= Len(q))
  BY <1>1
<1>3. Len(q) = 1 /\ Len(Tail(q)) = 0
  BY <1>1, <1>2
<1>4. ASSUME NEW r \in Seq(S), Len(r) = 0 PROVE r = <<>>
  BY <1>4
<1> QED
  BY <1>1, <1>3, <1>4

\* Once stuck, a queue that is not empty stays as it is.
LEMMA StuckStays ==
  ASSUME TypeInv, BlockedAlone, EndIsLast, mode = "orderly", Stuck, chatQueue # <<>>, [Next]_vars
  PROVE  Stuck'
<1>1. /\ pc \in [Chains -> CommandPoints \union EventPoints] /\ events \in Seq(Event)
      /\ Chains = {"cmd", "evt"} /\ "cmd" # "evt" /\ NoMessage \notin Messages /\ limbo \subseteq Messages
      /\ StartPoints = {"record", "handed", "started", "refused", "uncertain"}
      /\ RunningTurns = {} /\ activeTurnId = NoTurn /\ blockedChat = NoMessage
      /\ pc["cmd"] \notin {"abandon", "thread"} /\ pc["cmd"] \notin StartPoints
      /\ pc["evt"] \in EventPoints /\ pc["evt"] \notin StartPoints
  BY DEF TypeInv, TypeOK, ChainTypeOK, NativeTypeOK, Chains, Messages, NoMessage, StartPoints, Stuck, AtWork
<1>2. pc["cmd"] # "read" /\ limbo = {} /\ asked = {}
  BY <1>1 DEF BlockedAlone, EndIsLast
\* No notification is left but the one whose effect is done.
<1>3. events = <<>> \/ (pc["evt"] = "resume" /\ Tail(events) = <<>>)
  <2>1. ASSUME events # <<>> PROVE HeadDone /\ Tail(events) = <<>>
    <3>1. 1 \in DOMAIN events
      BY <1>1, <2>1
    <3>2. HeadDone
      BY <3>1 DEF Stuck, Unheard
    <3>3. 2 \notin DOMAIN events
      BY DEF Stuck, Unheard
    <3>4. Tail(events) = <<>>
      BY <1>1, <2>1, <3>3, OneLeft
    <3> QED
      BY <3>2, <3>4
  <2>2. HeadDone => pc["evt"] = "resume"
    BY <1>1 DEF HeadDone
  <2> QED
    BY <2>1, <2>2
<1>4. UNCHANGED workbenchVars => activeTurnId' = NoTurn /\ blockedChat' = NoMessage
  BY <1>1 DEF workbenchVars
<1>5. ASSUME turns' = turns, activeTurnId' = NoTurn, blockedChat' = NoMessage,
             events' = <<>> \/ (events' = events /\ pc'["evt"] = pc["evt"]),
             pc'["evt"] \notin StartPoints,
             pc'["cmd"] \notin {"abandon", "thread"} /\ pc'["cmd"] \notin StartPoints
      PROVE  Stuck'
  <2>0. pc'["evt"] \in EventPoints
    BY NextType DEF TypeInv, TypeOK, ChainTypeOK
  <2>1. \A p \in Chains : ~AtWork(p)'
    BY <1>1, <1>5, <2>0 DEF AtWork, EventPoints
  <2>2. ASSUME NEW i \in DOMAIN events' PROVE ~Unheard(i)'
    <3>1. events' = events /\ pc'["evt"] = pc["evt"]
      BY <1>5, <2>2
    <3> QED
      BY <2>2, <3>1 DEF Stuck, Unheard, HeadDone
  <2> QED
    BY <1>1, <1>5, <2>1, <2>2 DEF Stuck, RunningTurns
<1>6. CASE Dispatch \/ Close \/ Closed \/ UNCHANGED vars
  <2>1. turns' = turns /\ events' = events /\ pc'["evt"] = pc["evt"] /\ pc'["cmd"] \in {"wait", pc["cmd"]}
    BY <1>1, <1>6 DEF Dispatch, DispatchSend, DispatchCancel, DispatchApprove, DispatchWhenClosed, Begin,
       Close, Closed, vars, nativeVars, chainVars
  <2>2. activeTurnId' = NoTurn /\ blockedChat' = NoMessage
    BY <1>1, <1>4, <1>6 DEF Dispatch, DispatchSend, DispatchCancel, DispatchApprove, DispatchWhenClosed,
       Begin, Close, Closed, vars
  <2> QED
    BY <1>1, <1>5, <2>1, <2>2
<1>7. CASE CommandStep
  <2>1. \/ RunSend \/ Enqueue \/ RunCancel \/ Reconcile \/ Interrupted \/ RunApprove \/ ApproveSettled
    BY <1>1, <1>2, <1>7 DEF CommandStep, StartThread, ReadFailed, ReadIdle, ReadInProgress, Abandon,
       StartChatTurn, Record, SettleStarted, Refused, GiveUp, Answered, SettleRefused, SettleUncertain
  <2>2. /\ turns' = turns /\ events' = events /\ pc'["evt"] = pc["evt"]
        /\ pc'["cmd"] \in {"idle", "enqueue", "interrupt", "approve"}
    BY <1>1, <2>1 DEF RunSend, Enqueue, RunCancel, Reconcile, Interrupted, RunApprove, ApproveSettled,
       Busy, Leave, GoTo, nativeVars
  <2>3. activeTurnId' = NoTurn /\ blockedChat' = NoMessage
    BY <1>1, <1>4, <2>1 DEF RunSend, Enqueue, RunCancel, Reconcile, Interrupted, RunApprove, ApproveSettled
  <2> QED
    BY <1>1, <1>5, <2>2, <2>3
<1>8. CASE EventStep
  <2>1. EventFault \/ ResumeRecorded
    BY <1>1, <1>3, <1>8 DEF EventStep, TakeEvent, DropEvent, ApplyStarted, ApplyEnded, ApplyAsked,
       ApplyResolved, InWork, TypeInv, Placed, StartChatTurn, Record, SettleStarted, Refused, GiveUp,
       Answered, SettleRefused, SettleUncertain
  <2>2. Leave("evt") /\ turns' = turns
    BY <2>1 DEF EventFault, ResumeRecorded, nativeVars
  <2>3. events' = <<>> /\ pc'["evt"] = "idle" /\ pc'["cmd"] = pc["cmd"]
    BY <1>1, <1>3, <2>1, <2>2 DEF Leave, TypeInv, Placed, EventFault, ResumeRecorded
  <2>4. activeTurnId' = NoTurn /\ blockedChat' = NoMessage
    BY <1>1, <1>4, <2>1 DEF EventFault, ResumeRecorded, Reconciled
  <2> QED
    BY <1>1, <1>5, <2>2, <2>3, <2>4
<1>9. CASE NativeStep
  BY <1>1, <1>2, <1>9 DEF NativeStep, Receive, ReceiveLate, Announce, End, Ask, RunningTurns
<1> QED
  BY <1>6, <1>7, <1>8, <1>9 DEF Next

\* A message comes to the queue before it is handed over.
LEMMA QueuedBefore ==
  ASSUME WholeInv, [Next]_vars, NEW m \in Range(chatQueue'), m \in handed'
  PROVE  m \in Range(chatQueue)
<1>1. /\ TypeInv /\ HandedOver /\ QueueOrdered /\ BlockedAlone /\ chatQueue \in Seq(Messages)
  BY DEF WholeInv, SafetyInv, OrderlyInv, TypeInv, TypeOK, WorkbenchTypeOK
<1>2. CASE Push
  <2>1. command.type = "send" /\ job["cmd"] = command.arg /\ pc["cmd"] = "enqueue" /\ handed' = handed
    BY <1>1, <1>2 DEF Push, TypeInv, Placed
  <2>2. m # command.arg /\ command.arg \in Messages
    BY <1>1, <2>1 DEF BlockedAlone, TypeInv, TypeOK, ChainTypeOK, Commands, NoCommand
  <2>3. Range(chatQueue') = Range(chatQueue) \union {command.arg}
    BY <1>1, <1>2, <2>1, <2>2, AppendKeeps DEF Push, QueueOrdered
  <2> QED
    BY <2>2, <2>3
<1>3. ASSUME NEW id, chatQueue' = Shift(chatQueue, id) PROVE m \in Range(chatQueue)
  BY <1>1, <1>3, ShiftKeeps DEF QueueOrdered
<1> QED
  BY <1>1, <1>2, <1>3, QueueEffect

\* A chain that works on a message of the queue works on its head, and the refusal or the
\* uncertainty of the message is its own.
LEMMA WorksOnHead ==
  ASSUME WholeInv, NEW p \in Chains, pc[p] \in {"handed", "refused"}, job[p] \in Range(chatQueue)
  PROVE  /\ FromQueue(p) /\ chatQueue # <<>> /\ Head(chatQueue) = job[p]
         /\ activeTurnId = NoTurn /\ blockedChat = NoMessage
         /\ \A q \in Chains : q # p => ~AtWork(q)
<1>1. OneAtWork /\ WorkFits(p) /\ QueuedIsTold /\ Chains = {"cmd", "evt"}
  BY DEF WholeInv, OrderlyInv, ReceiptInv, OneAtWork, Chains
<1>2. AtWork(p) /\ BeforeTurn(p)
  BY DEF AtWork, BeforeTurn, StartPoints
<1>3. FromQueue(p)
  BY <1>1, <1>2 DEF WorkFits, QueuedIsTold, FromQueue, StartPoints, Range
<1> QED
  BY <1>1, <1>2, <1>3 DEF WorkFits, OneAtWork

\* No turn runs and no notification is left when a message from the queue was refused.
LEMMA RefusedIsLast ==
  ASSUME WholeInv, EndIsLast, phase = "open", NEW p \in Chains, pc[p] = "refused",
         job[p] \in Range(chatQueue)
  PROVE  /\ RunningTurns = {}
         /\ p = "cmd" => events = <<>> /\ pc["evt"] = "idle"
         /\ p = "evt" => Tail(events) = <<>> /\ pc["cmd"] # "abandon"
<1>1. /\ TypeInv /\ AnswerFits /\ CancelAlone /\ LiveIsKnown /\ NotifiedInOrder /\ events \in Seq(Event)
      /\ Chains = {"cmd", "evt"} /\ NoTurn \notin DOMAIN turns
  BY DEF WholeInv, SafetyInv, ReceiptInv, OrderlyInv, TypeInv, TypeOK, ChainTypeOK, NativeTypeOK, Chains,
     NoTurn
<1>2. /\ FromQueue(p) /\ activeTurnId = NoTurn /\ blockedChat = NoMessage
      /\ \A q \in Chains : q # p => ~AtWork(q)
  BY WorksOnHead
<1>3. \A q \in Chains : answer[q] = NoTurn
  BY <1>1, <1>2 DEF AnswerFits, AtWork, StartPoints
<1>4. \A t \in DOMAIN turns : ~Live(t)
  BY <1>1, <1>2, <1>3 DEF LiveIsKnown
<1>5. RunningTurns = {}
  BY <1>4 DEF RunningTurns, Live
<1>6. p = "cmd" => command.type = "cancel"
  BY <1>2 DEF FromQueue
<1>7. p = "cmd" => events = <<>> /\ pc["evt"] = "idle"
  BY <1>1, <1>6, CancelIsAlone
<1>8. ASSUME p = "evt" PROVE Tail(events) = <<>>
  <2>1. events # <<>>
    BY <1>1, <1>8 DEF TypeInv, Placed
  <2>2. Len(events) \in DOMAIN events
    BY <1>1, <2>1
  <2>3. events[Len(events)].type = "ended"
    BY <1>5, <2>1 DEF EndIsLast
  <2>4. events[Len(events)].arg \in DOMAIN turns
    BY <1>1, <2>2, <2>3 DEF NotifiedInOrder
  <2>5. ~Unheard(Len(events))
    BY <1>4, <2>2, <2>3, <2>4 DEF Live, About
  <2>6. 2 \notin DOMAIN events
    BY <1>1, <2>2, <2>5 DEF Unheard
  <2> QED
    BY <1>1, <2>1, <2>6, OneLeft
<1>9. ASSUME p = "evt" PROVE pc["cmd"] # "abandon"
  BY <1>1, <1>9, CancelIsAlone DEF TypeInv, Placed
<1> QED
  BY <1>5, <1>7, <1>8, <1>9

\* A message that was handed over leaves the queue, or the queue rests.
LEMMA HandedInQueueKept ==
  ASSUME WholeInv, OutgoingInv, [Next]_vars
  PROVE  HandedInQueue'
<1> SUFFICES ASSUME NEW m \in Range(chatQueue'), m \in handed'
             PROVE  \/ m = blockedChat' \/ phase' # "open" \/ Stuck'
                    \/ \E p \in Chains : pc'[p] \in {"handed", "refused"} /\ job'[p] = m
  BY DEF HandedInQueue
<1>1. /\ TypeInv /\ HandedOver /\ QueueOrdered /\ QueuedIsTold /\ AnswerFits /\ OrderlyInv /\ NoTurnTwice
      /\ BlockedAlone /\ EndIsLast /\ mode = "orderly" /\ Chains = {"cmd", "evt"} /\ HandedInQueue
      /\ chatQueue \in Seq(Messages) /\ pc \in [Chains -> CommandPoints \union EventPoints]
      /\ job \in [Chains -> Messages \union {NoMessage}]
  BY DEF WholeInv, SafetyInv, ReceiptInv, OrderlyInv, OutgoingInv, Chains, TypeInv, TypeOK, WorkbenchTypeOK,
     ChainTypeOK
<1>2. m \in Range(chatQueue) /\ chatQueue # <<>>
  BY QueuedBefore DEF Range
<1>3. CASE m \notin handed
  <2>1. PICK p \in Chains : Record(p) /\ handed' = handed \union {job[p]}
    BY <1>3, HandedEffect
  <2>2. pc'[p] = "handed" /\ job'[p] = m
    BY <1>1, <1>3, <2>1 DEF Record, GoTo
  <2> QED
    BY <2>2
<1>4. CASE m = blockedChat
  BY <1>1, <1>2, <1>4, BlockedStays
<1>5. CASE phase # "open"
  BY <1>5, AskedEffect
<1>6. CASE Stuck
  BY <1>1, <1>2, <1>6, StuckStays
<1>7. ASSUME NEW p \in Chains, pc[p] \in {"handed", "refused"}, job[p] = m
      PROVE  \/ m = blockedChat' \/ phase' # "open" \/ Stuck'
             \/ pc'[p] \in {"handed", "refused"} /\ job'[p] = m
  <2>1. /\ FromQueue(p) /\ chatQueue # <<>> /\ Head(chatQueue) = m
        /\ activeTurnId = NoTurn /\ blockedChat = NoMessage
        /\ \A q \in Chains : q # p => ~AtWork(q)
    BY <1>2, <1>7, WorksOnHead
  <2>2. chatQueue' # Shift(chatQueue, m)
    BY <1>1, <2>1, ShiftTakesOut DEF QueueOrdered
  <2>3. CASE Stands(p)
    BY <1>7, <2>3 DEF Stands
  <2>4. CASE Refused(p)
    BY <1>1, <1>7, <2>4 DEF Refused, GoTo
  <2>5. CASE GiveUp(p)
    BY <1>7, <2>5 DEF GiveUp
  <2>6. CASE SettleRefused(p) /\ phase = "open"
    <3>1. chatQueue' = chatQueue /\ turns' = turns /\ activeTurnId' = NoTurn /\ blockedChat' = NoMessage
          /\ pc[p] = "refused"
      BY <1>7, <2>1, <2>2, <2>6 DEF SettleRefused, nativeVars
    <3>2. Leave(p)
      BY <1>7, <2>1, <2>6, <3>1 DEF SettleRefused, GoOnOrLeave
    <3>3. /\ RunningTurns = {}
          /\ p = "cmd" => events = <<>> /\ pc["evt"] = "idle"
          /\ p = "evt" => Tail(events) = <<>> /\ pc["cmd"] # "abandon"
      BY <1>1, <1>2, <1>7, <2>6, <3>1, RefusedIsLast
    <3>4. events' = <<>> /\ pc'["cmd"] # "abandon"
      BY <1>1, <3>2, <3>3 DEF Leave
    <3>5. \A q \in Chains : ~AtWork(q)'
      BY <1>1, <2>1, <3>2 DEF Leave, AtWork, StartPoints
    <3>6. RunningTurns' = {}
      BY <3>1, <3>3 DEF RunningTurns
    <3>7. \A i \in DOMAIN events' : ~Unheard(i)'
      BY <3>4
    <3> QED
      BY <3>1, <3>4, <3>5, <3>6, <3>7 DEF Stuck
  <2>7. StartChatTurn(p) => Refused(p) \/ GiveUp(p) \/ SettleRefused(p)
    BY <1>1, <1>7, <2>2 DEF StartChatTurn, Record, Answered, SettleStarted, SettleUncertain
  <2>8. CASE phase # "open"
    BY <2>8, AskedEffect
  <2> QED
    BY <1>1, <1>7, <2>3, <2>4, <2>5, <2>6, <2>7, <2>8, StandsEffect DEF StartPoints
<1> QED
  BY <1>1, <1>2, <1>3, <1>4, <1>5, <1>6, <1>7 DEF HandedInQueue

\* Nothing goes out behind a younger message, or for the second time.
LEMMA HandedIsOlderKept ==
  ASSUME WholeInv, OutgoingInv, [Next]_vars
  PROVE  HandedIsOlder'
<1>1. /\ TypeInv /\ HandedOver /\ QueueOrdered /\ QueuedIsTold /\ AnswerFits /\ OrderlyInv
      /\ OneAtWork /\ HandedIsOlder /\ Chains = {"cmd", "evt"} /\ handed \subseteq Messages
      /\ \A m \in Messages : m \in Nat /\ m # NoMessage
      /\ chatQueue \in Seq(Messages) /\ pc \in [Chains -> CommandPoints \union EventPoints]
      /\ submitted \in Nat
  BY BoundsAssumption DEF WholeInv, SafetyInv, ReceiptInv, OrderlyInv, OutgoingInv, Chains, TypeInv, TypeOK,
     WorkbenchTypeOK, ChainTypeOK, UserTypeOK, Messages, NoMessage
<1>2. OneAtWork' /\ BlockedAlone' /\ HandedInQueue' /\ TypeInv'
  BY <1>1, OneAtWorkKept, BlockedAloneKept, HandedInQueueKept, NextType
<1>3. ASSUME NEW n \in handed', NEW m \in Range(chatQueue') PROVE n <= m
  <2>1. CASE n \in handed
    <3>1. CASE m \in Range(chatQueue)
      BY <1>1, <2>1, <3>1 DEF HandedIsOlder
    <3>2. CASE m \notin Range(chatQueue)
      <4>1. Push
        BY <1>1, <1>3, <3>2, ShiftKeeps, QueueEffect DEF QueueOrdered
      <4>2. command.type = "send" /\ job["cmd"] = command.arg /\ pc["cmd"] = "enqueue"
        BY <1>1, <4>1 DEF Push, TypeInv, Placed
      <4>3. command.arg \in Messages
        BY <1>1, <4>2 DEF TypeInv, TypeOK, ChainTypeOK, Commands, NoCommand
      <4>4. m = command.arg
        BY <1>1, <1>3, <3>2, <4>1, <4>2, <4>3, AppendKeeps DEF Push, QueueOrdered
      <4>5. n < command.arg
        BY <1>1, <2>1, <4>2 DEF HandedIsOlder, Unsent
      <4> QED
        BY <1>1, <2>1, <4>3, <4>4, <4>5
    <3> QED
      BY <3>1, <3>2
  <2>2. CASE n \notin handed
    <3>1. PICK p \in Chains : Record(p) /\ n = job[p]
      BY <1>3, <2>2, HandedEffect
    <3>2. pc[p] = "record" /\ chatQueue' = chatQueue
      BY <3>1 DEF Record, workbenchVars
    <3> QED
      BY <1>1, <1>3, <3>1, <3>2 DEF QueueOrdered
  <2> QED
    BY <2>1, <2>2
<1>4. ASSUME command'.type = "send", pc'["cmd"] \in Unsent, NEW n \in handed' PROVE n < command'.arg
  <2>1. CASE command'.arg = submitted + 1 /\ handed' = handed
    BY <1>1, <1>4, <2>1 DEF QueueOrdered
  <2>2. CASE /\ command' = command /\ pc["cmd"] \in Unsent
             /\ handed' = handed \/ handed' = handed \union {job["evt"]}
    BY <1>1, <1>4, <2>2 DEF QueueOrdered, HandedIsOlder
  <2> QED
    BY <1>1, <1>4, <2>1, <2>2, UnsentEffect
<1>5. ASSUME NEW q \in Chains, pc'[q] = "record", NEW n \in handed' PROVE n < job'[q]
  <2>1. CASE pc[q] = "record" /\ job'[q] = job[q]
    <3>1. CASE n \in handed
      BY <1>1, <2>1, <3>1 DEF HandedIsOlder
    <3>2. CASE n \notin handed
      <4>1. PICK p \in Chains : Record(p) /\ handed' = handed \union {job[p]}
        BY <1>5, <3>2, HandedEffect
      <4>2. p = q
        BY <1>1, <2>1, <4>1 DEF Record, OneAtWork, AtWork, StartPoints
      <4>3. GoTo(p, "handed")
        BY <1>5, <3>2, <4>1 DEF Record
      <4> QED
        BY <1>1, <1>5, <4>2, <4>3 DEF GoTo
    <3> QED
      BY <3>1, <3>2
  <2>2. CASE q = "cmd" /\ command'.type = "send"
    <3>1. job'["cmd"] = command'.arg
      BY <1>2, <1>5, <2>2 DEF TypeInv, Placed
    <3> QED
      BY <1>4, <1>5, <2>2, <3>1 DEF Unsent
  <2>3. CASE chatQueue' # <<>> /\ job'[q] = Head(chatQueue') /\ blockedChat' = NoMessage /\ phase' = "open"
    <3>1. PICK m : m = job'[q]
      OBVIOUS
    <3>2. m \in Range(chatQueue') /\ m \in Messages
      BY <1>2, <2>3, <3>1 DEF TypeInv, TypeOK, WorkbenchTypeOK, Range
    <3>3. m \notin handed'
      <4>1. ~Stuck'
        BY <1>5 DEF Stuck, AtWork, StartPoints
      <4>2. ~\E p \in Chains : pc'[p] \in {"handed", "refused"}
        BY <1>1, <1>2, <1>5 DEF OneAtWork, AtWork, StartPoints
      <4> QED
        BY <1>1, <1>2, <2>3, <3>2, <4>1, <4>2 DEF HandedInQueue
    <3>4. n <= m /\ n # m
      BY <1>3, <1>5, <3>2, <3>3
    <3>5. n \in Messages
      BY <1>2 DEF TypeInv, TypeOK, UserTypeOK
    <3> QED
      BY <1>1, <3>1, <3>2, <3>4, <3>5
  <2> QED
    BY <1>1, <1>5, <2>1, <2>2, <2>3, BeforeEffect, AskedEffect DEF Refused, GoTo
<1> QED
  BY <1>3, <1>4, <1>5 DEF HandedIsOlder

-----------------------------------------------------------------------------
(* ChatDelivery implements ChatOutbox.                                     *)

\* What the status of a message depends on.
Running(m) == \E t \in DOMAIN turns : turns[t].message = m /\ ~turns[t].ended
InDoubt(m) == m = blockedChat \/ m \in limbo
Out(m) == \E p \in Chains : pc[p] = "handed" /\ job[p] = m
AllMessages == Messages \union {NoMessage}
StatusMap == [m \in AllMessages |-> Status(m)]

\* The status of a message, by these.
StatusFits ==
  \A m : Status(m) =
    IF Running(m) THEN "running"
    ELSE IF HasTurn(m) \/ m = NoMessage THEN "over"
    ELSE IF m \notin handed THEN "new"
    ELSE IF InDoubt(m) THEN "unknown"
    ELSE IF Out(m) THEN "out" ELSE "refused"

\* Exactly one of the arms of Status applies, and it is this one.
LEMMA StatusIs == StatusFits
<1> SUFFICES ASSUME NEW m
             PROVE  Status(m) =
                      IF Running(m) THEN "running"
                      ELSE IF HasTurn(m) \/ m = NoMessage THEN "over"
                      ELSE IF m \notin handed THEN "new"
                      ELSE IF InDoubt(m) THEN "unknown"
                      ELSE IF Out(m) THEN "out" ELSE "refused"
  BY DEF StatusFits
<1>1. (\E t \in TurnsOf(m) : ~turns[t].ended) <=> Running(m)
  BY DEF TurnsOf, Running
<1>2. TurnsOf(m) # {} <=> HasTurn(m)
  BY DEF TurnsOf, HasTurn
<1>3. CASE Running(m)
  BY <1>1, <1>3 DEF Status
<1>4. CASE ~Running(m) /\ HasTurn(m)
  BY <1>1, <1>2, <1>4 DEF Status
<1>5. CASE ~Running(m) /\ ~HasTurn(m)
  <2>1. TurnsOf(m) = {} /\ ~(\E t \in TurnsOf(m) : ~turns[t].ended)
    BY <1>1, <1>2, <1>5
  <2>2. CASE m = NoMessage
    BY <1>5, <2>1, <2>2 DEF Status
  <2>3. CASE m # NoMessage /\ m \notin handed
    BY <1>5, <2>1, <2>3 DEF Status
  <2>4. CASE m # NoMessage /\ m \in handed
    BY <1>5, <2>1, <2>4 DEF Status, InDoubt, Out
  <2> QED
    BY <2>2, <2>3, <2>4
<1> QED
  BY <1>3, <1>4, <1>5

\* One message at most changes its status.
Only(m) == \A n \in AllMessages : n # m => Status(n)' = Status(n)

\* A change of one message's status, along the edges of the outbox, is a step of the outbox.
LEMMA StepOf ==
  ASSUME NEW m \in AllMessages, Only(m), Status(m)' # Status(m),
         \/ Status(m) = "running" /\ Status(m)' = "over"
         \/ m \in Messages /\ Status(m) \in {"out", "unknown"} /\ Status(m)' \in {"running", "refused"}
         \/ m \in Messages /\ Status(m) = "out" /\ Status(m)' = "unknown"
         \/ /\ m \in Messages /\ Status(m) = "new" /\ Status(m)' = "out"
            /\ \A n \in AllMessages : Status(n) \notin {"out", "unknown", "running"}
            /\ \A n \in Messages : n > m => Status(n) = "new"
  PROVE  Outbox!Next
<1>1. /\ StatusMap' = [StatusMap EXCEPT ![m] = Status(m)']
      /\ StatusMap[m] = Status(m) /\ StatusMap'[m] = Status(m)'
      /\ \A n \in AllMessages : StatusMap[n] = Status(n)
  BY DEF Only, StatusMap
<1>2. StatusMap' # StatusMap
  BY <1>1
<1>3. Outbox!Step(m)
  BY <1>1 DEF Outbox!Step, Outbox!Finish, Outbox!Take, Outbox!Refuse, Outbox!Lose, Outbox!HandOver,
     Outbox!Free, Outbox!Become, Outbox!Resumed, StatusMap, AllMessages, NoMessage
<1> QED
  BY <1>2, <1>3 DEF Outbox!Next, StatusMap, AllMessages, Outbox!Resumed, NoMessage

\* So it is after a step.
LEMMA StatusIsThen == StatusFits'
  BY StatusIs, PTL

\* What leaves the status of a message as it is.
LEMMA SameStatus ==
  ASSUME NEW m, Running(m)' <=> Running(m), HasTurn(m)' <=> HasTurn(m),
         HasTurn(m) \/ m = NoMessage \/
           (/\ m \in handed' <=> m \in handed
            /\ InDoubt(m)' <=> InDoubt(m)
            /\ Out(m)' <=> Out(m))
  PROVE  Status(m)' = Status(m)
<1>1. Running(m) => HasTurn(m)
  BY DEF Running, HasTurn
<1> QED
  BY <1>1, StatusIs, StatusIsThen DEF StatusFits

\* Turns that stay as they are.
LEMMA SameTurns ==
  ASSUME KeptTurns, NoNewTurn, NEW m
  PROVE  (Running(m)' <=> Running(m)) /\ (HasTurn(m)' <=> HasTurn(m))
  BY DEF KeptTurns, NoNewTurn, Running, HasTurn

\* A new turn runs, and is of no other message.
LEMMA TurnAdded ==
  ASSUME turns \in Seq(Turn), NEW m, NewTurn(m)
  PROVE  /\ Running(m)' /\ HasTurn(m)'
         /\ \A n : n # m => (Running(n)' <=> Running(n)) /\ (HasTurn(n)' <=> HasTurn(n))
<1>1. /\ DOMAIN turns' = DOMAIN turns \union {Len(turns) + 1} /\ Len(turns) + 1 \notin DOMAIN turns
      /\ turns'[Len(turns) + 1].message = m /\ ~turns'[Len(turns) + 1].ended
      /\ \A t \in DOMAIN turns : turns'[t] = turns[t]
  BY DEF NewTurn
<1> QED
  BY <1>1 DEF Running, HasTurn

\* A message is on its way from native.startTurn to the answer.
LEMMA OutEffect ==
  ASSUME TypeInv, QueuedIsTold, [Next]_vars,
         \A p \in Chains : ~Record(p) /\ ~Answered(p) /\ ~Refused(p) /\ ~GiveUp(p), NEW m
  PROVE  Out(m)' <=> Out(m)
<1>1. ASSUME NEW p \in Chains, pc[p] \in {"record", "handed"}
      PROVE  \/ pc'[p] = pc[p] /\ job'[p] = job[p]
             \/ pc[p] = "record" /\ pc'[p] # "handed"
  <2>1. ~StartChatTurn(p)
    BY <1>1 DEF StartChatTurn, SettleStarted, SettleRefused, SettleUncertain
  <2> QED
    BY <1>1, <2>1, StandsEffect DEF Stands, StartPoints
<1>2. ASSUME NEW p \in Chains, pc'[p] = "handed" PROVE pc[p] = "handed" /\ job'[p] = job[p]
  BY <1>1, <1>2, BeforeEffect
<1> QED
  BY <1>1, <1>2 DEF Out

\* The chain that moves leaves the other one where it is.
LEMMA OutBeside ==
  ASSUME TypeInv, NEW p \in Chains, NEW point, GoTo(p, point), job' = job, NEW m, m # job[p]
  PROVE  Out(m)' <=> Out(m)
  BY DEF GoTo, Out, TypeInv, TypeOK, ChainTypeOK

\* A chain that is about to hand over, or has, is alone.
LEMMA NothingElse ==
  ASSUME WholeInv, NEW p \in Chains,
         pc[p] = "record" \/ (pc[p] = "handed" /\ answer[p] = NoTurn)
  PROVE  /\ activeTurnId = NoTurn /\ blockedChat = NoMessage /\ limbo = {}
         /\ \A q \in Chains : q # p => ~AtWork(q)
         /\ job[p] \in Messages /\ ~HasTurn(job[p])
         /\ \A n : ~Running(n)
<1>1. /\ OneAtWork /\ WorkFits(p) /\ BlockedAlone /\ NoTurnTwice /\ LiveIsKnown /\ AnswerFits
      /\ Chains = {"cmd", "evt"} /\ limbo \subseteq Messages /\ NoMessage \notin Messages
      /\ NoTurn \notin DOMAIN turns
  BY DEF WholeInv, SafetyInv, OrderlyInv, ReceiptInv, OneAtWork, Chains, TypeInv, TypeOK, NativeTypeOK,
     Messages, NoMessage, NoTurn
<1>2. /\ activeTurnId = NoTurn /\ blockedChat = NoMessage
      /\ \A q \in Chains : q # p => ~AtWork(q)
  BY <1>1 DEF WorkFits, OneAtWork, BeforeTurn, AtWork, StartPoints
<1>3. limbo = {}
  BY <1>1, <1>2 DEF BlockedAlone
<1>4. job[p] \in Messages /\ ~HasTurn(job[p])
  BY <1>1 DEF WholeInv, SafetyInv, TypeInv, Placed, StartPoints, NoTurnTwice
<1>5. \A q \in Chains : answer[q] = NoTurn
  BY <1>1, <1>2 DEF AnswerFits, AtWork, StartPoints
<1>6. \A t \in DOMAIN turns : turns[t].ended
  BY <1>1, <1>2, <1>5 DEF LiveIsKnown, Live
<1> QED
  BY <1>2, <1>3, <1>4, <1>6 DEF Running

-----------------------------------------------------------------------------
(* Every step is a step of ChatOutbox, or none.                            *)

AllSame == \A n \in AllMessages : Status(n)' = Status(n)
Refined == Outbox!Next \/ AllSame

\* What a step may rely on, about the message p works on: it is handed over, or about to be.
LEMMA WorkTypes ==
  ASSUME WholeInv
  PROVE  /\ turns \in Seq(Turn) /\ Messages \subseteq AllMessages /\ NoMessage \notin Messages
         /\ Chains = {"cmd", "evt"} /\ "cmd" # "evt" /\ limbo \subseteq {blockedChat}
         /\ pc \in [Chains -> CommandPoints \union EventPoints]
         /\ job \in [Chains -> Messages \union {NoMessage}]
         /\ TypeInv /\ HandedOver /\ QueuedIsTold /\ AnswerFits /\ OneAtWork /\ BlockedAlone
         /\ NotifiedInOrder /\ LiveIsKnown /\ NoTurnTwice /\ CancelAlone /\ mode = "orderly"
         /\ NoTurn \notin DOMAIN turns
         /\ blockedChat # NoMessage => blockedChat \in Messages
  BY DEF WholeInv, SafetyInv, ReceiptInv, OrderlyInv, BlockedAlone, TypeInv, TypeOK, WorkbenchTypeOK,
     ChainTypeOK, NativeTypeOK, AllMessages, Messages, NoMessage, NoTurn, Chains

\* The harness takes the message of a chain.
LEMMA ReceiveRefines ==
  ASSUME WholeInv, NEW p \in Chains, Receive(p)
  PROVE  Outbox!Next
<1>1. pc[p] = "handed" /\ answer[p] = NoTurn /\ NewTurn(job[p])
      /\ UNCHANGED <<handed, blockedChat, limbo, pc, job>>
  BY DEF Receive, workbenchVars, chainVars, userVars
<1>2. PICK m : m = job[p]
  OBVIOUS
<1>3. /\ m \in Messages /\ ~HasTurn(m) /\ ~Running(m) /\ ~InDoubt(m) /\ m # NoMessage
  BY <1>1, <1>2, NothingElse, WorkTypes DEF InDoubt
<1>4. m \in handed /\ Out(m)
  BY <1>1, <1>2, WorkTypes DEF HandedOver, Out
<1>5. /\ Running(m)' /\ \A n : n # m => (Running(n)' <=> Running(n)) /\ (HasTurn(n)' <=> HasTurn(n))
  BY <1>1, <1>2, WorkTypes, TurnAdded
<1>6. \A n : (InDoubt(n)' <=> InDoubt(n)) /\ (Out(n)' <=> Out(n)) /\ (n \in handed' <=> n \in handed)
  BY <1>1 DEF InDoubt, Out
<1>7. Only(m)
  BY <1>5, <1>6, SameStatus DEF Only
<1>8. Status(m) = "out" /\ Status(m)' = "running"
  BY <1>3, <1>4, <1>5, StatusIs, StatusIsThen DEF StatusFits
<1> QED
  BY <1>3, <1>7, <1>8, WorkTypes, StepOf

\* It takes, or drops, a request that was given up.
LEMMA ReceiveLateRefines ==
  ASSUME WholeInv, NEW m \in Messages, ReceiveLate(m)
  PROVE  Refined
<1>1. m \in limbo /\ limbo' = limbo \ {m} /\ (NewTurn(m) \/ turns' = turns)
      /\ UNCHANGED <<handed, blockedChat, pc, job>>
  BY DEF ReceiveLate, workbenchVars, chainVars, userVars
<1>2. m = blockedChat /\ m # NoMessage /\ ~HasTurn(m) /\ m \in handed
  BY <1>1, WorkTypes DEF NoTurnTwice, HandedOver
<1>3. \A n : (InDoubt(n)' <=> InDoubt(n)) /\ (Out(n)' <=> Out(n)) /\ (n \in handed' <=> n \in handed)
  BY <1>1, <1>2 DEF InDoubt, Out
<1>4. CASE NewTurn(m)
  <2>1. Running(m)' /\ \A n : n # m => (Running(n)' <=> Running(n)) /\ (HasTurn(n)' <=> HasTurn(n))
    BY <1>4, WorkTypes, TurnAdded
  <2>2. Only(m)
    BY <1>3, <2>1, SameStatus DEF Only
  <2>3. ~Running(m)
    BY <1>2 DEF Running, HasTurn
  <2>4. Status(m) = "unknown" /\ Status(m)' = "running"
    BY <1>2, <2>1, <2>3, StatusIs, StatusIsThen DEF StatusFits, InDoubt
  <2> QED
    BY <2>2, <2>4, WorkTypes, StepOf DEF Refined
<1>5. CASE turns' = turns
  <2>1. \A n : (Running(n)' <=> Running(n)) /\ (HasTurn(n)' <=> HasTurn(n))
    BY <1>5 DEF Running, HasTurn
  <2> QED
    BY <1>3, <2>1, SameStatus DEF Refined, AllSame
<1> QED
  BY <1>1, <1>4, <1>5

\* A turn ends, or the harness tells something else.
LEMMA TellsRefines ==
  ASSUME WholeInv, Tells
  PROVE  Refined
<1>1. UNCHANGED <<handed, blockedChat, limbo, pc, job>>
  BY DEF Tells, Announce, End, Ask, Resolve, Notify, workbenchVars, userVars
<1>2. \A n : (InDoubt(n)' <=> InDoubt(n)) /\ (Out(n)' <=> Out(n)) /\ (n \in handed' <=> n \in handed)
  BY <1>1 DEF InDoubt, Out
<1>3. ASSUME NEW t \in DOMAIN turns, End(t) PROVE Refined
  <2>1. turns[t] \in Turn
    BY WorkTypes
  <2>2. /\ ~turns[t].ended /\ DOMAIN turns' = DOMAIN turns
        /\ turns'[t].ended /\ turns'[t].message = turns[t].message
        /\ \A u \in DOMAIN turns : u # t => turns'[u] = turns[u]
    BY <1>3, <2>1, WorkTypes DEF End, Turn
  <2>3. PICK m : m = turns[t].message
    OBVIOUS
  <2>4. m \in AllMessages
    BY <2>1, <2>3 DEF Turn, AllMessages
  <2>5. \A n : n # m => (Running(n)' <=> Running(n)) /\ (HasTurn(n)' <=> HasTurn(n))
    BY <2>2, <2>3 DEF Running, HasTurn
  <2>6. Only(m)
    BY <1>2, <2>5, SameStatus DEF Only
  <2>7. \A u \in DOMAIN turns : turns[u].message = m => u = t
    BY <2>3, WorkTypes DEF NoTurnTwice
  <2>8. Running(m) /\ ~Running(m)' /\ HasTurn(m)'
    BY <2>2, <2>3, <2>7 DEF Running, HasTurn
  <2>9. Status(m) = "running" /\ Status(m)' = "over"
    BY <2>8, StatusIs, StatusIsThen DEF StatusFits
  <2> QED
    BY <2>4, <2>6, <2>9, StepOf DEF Refined
<1>4. ASSUME NEW t \in DOMAIN turns, Announce(t) PROVE Refined
  <2>1. turns[t] \in Turn
    BY WorkTypes
  <2>2. /\ DOMAIN turns' = DOMAIN turns
        /\ turns'[t].ended = turns[t].ended /\ turns'[t].message = turns[t].message
        /\ \A u \in DOMAIN turns : u # t => turns'[u] = turns[u]
    BY <1>4, <2>1, WorkTypes DEF Announce, Turn
  <2>3. \A n : (Running(n)' <=> Running(n)) /\ (HasTurn(n)' <=> HasTurn(n))
    BY <2>2 DEF Running, HasTurn
  <2> QED
    BY <1>2, <2>3, SameStatus DEF Refined, AllSame
<1>5. CASE turns' = turns
  <2>1. \A n : (Running(n)' <=> Running(n)) /\ (HasTurn(n)' <=> HasTurn(n))
    BY <1>5 DEF Running, HasTurn
  <2> QED
    BY <1>2, <2>1, SameStatus DEF Refined, AllSame
<1> QED
  BY <1>3, <1>4, <1>5 DEF Tells, Ask, Resolve

\* A chain hands its message over, or the journal fails before it can.
LEMMA RecordRefines ==
  ASSUME WholeInv, OutgoingInv, NEW p \in Chains, Record(p)
  PROVE  Refined
<1>1. pc[p] = "record" /\ UNCHANGED <<turns, limbo, blockedChat>>
  BY DEF Record, workbenchVars, nativeVars
<1>2. \A n : /\ Running(n)' <=> Running(n)
             /\ HasTurn(n)' <=> HasTurn(n)
             /\ InDoubt(n)' <=> InDoubt(n)
  BY <1>1 DEF Running, HasTurn, InDoubt
<1>3. PICK m : m = job[p]
  OBVIOUS
<1>4. /\ m \in Messages /\ ~HasTurn(m) /\ m # NoMessage /\ blockedChat = NoMessage /\ limbo = {}
      /\ \A q \in Chains : pc[q] # "handed"
      /\ \A n : ~Running(n)
  BY <1>1, <1>3, NothingElse, WorkTypes DEF AtWork, StartPoints
<1>5. \A n : ~Out(n)
  BY <1>4 DEF Out
<1>6. CASE GoTo(p, "handed") /\ job' = job /\ handed' = handed \union {m}
  <2>1. /\ \A n \in handed : n < m
        /\ handed \subseteq Messages /\ \A n \in Messages : n \in Nat
    BY <1>1, <1>3, BoundsAssumption
       DEF OutgoingInv, HandedIsOlder, WholeInv, SafetyInv, TypeInv, TypeOK, UserTypeOK, Messages
  <2>2. m \notin handed
    BY <1>4, <2>1
  <2>3. ASSUME NEW n, n # m PROVE (n \in handed' <=> n \in handed) /\ (Out(n)' <=> Out(n))
    <3>1. TypeInv
      BY WorkTypes
    <3> QED
      BY <1>3, <1>6, <2>3, <3>1, OutBeside
  <2>4. Only(m)
    BY <1>2, <2>3, SameStatus DEF Only
  <2>5. Out(m)'
    BY <1>3, <1>6, WorkTypes DEF GoTo, Out
  <2>6. Status(m) = "new" /\ Status(m)' = "out"
    BY <1>2, <1>4, <1>6, <2>2, <2>5, StatusIs, StatusIsThen DEF StatusFits, InDoubt
  <2>7. \A n : Status(n) \notin {"out", "unknown", "running"}
    BY <1>4, <1>5, StatusIs DEF StatusFits, InDoubt
  <2>8. ASSUME NEW n \in Messages, n > m PROVE Status(n) = "new"
    <3>1. n \notin handed /\ n # NoMessage
      BY <1>4, <2>1, <2>8, WorkTypes
    <3>2. ~HasTurn(n)
      BY <3>1, WorkTypes DEF HasTurn, NoTurnTwice
    <3> QED
      BY <1>4, <3>1, <3>2, StatusIs DEF StatusFits
  <2> QED
    BY <1>4, <2>4, <2>6, <2>7, <2>8, WorkTypes, StepOf DEF Refined
<1>7. CASE GoOnOrLeave(p) /\ handed' = handed
  <2>1. \A q \in Chains : pc'[q] # "handed"
    BY <1>4, <1>7, WorkTypes DEF GoOnOrLeave, DrainOrLeave, Leave, GoTo
  <2>2. \A n : ~Out(n)'
    BY <2>1 DEF Out
  <2> QED
    BY <1>2, <1>5, <1>7, <2>2, SameStatus DEF Refined, AllSame
<1> QED
  BY <1>3, <1>6, <1>7 DEF Record

\* The harness has answered: the message has its turn.
LEMMA AnsweredRefines ==
  ASSUME WholeInv, NEW p \in Chains, Answered(p)
  PROVE  AllSame
<1>1. /\ pc[p] = "handed" /\ answer[p] # NoTurn /\ GoTo(p, "started") /\ blockedChat' = NoMessage
      /\ UNCHANGED <<turns, limbo, handed, job>>
  BY DEF Answered, userVars
<1>2. PICK m : m = job[p]
  OBVIOUS
<1>3. HasTurn(m)
  BY <1>1, <1>2, WorkTypes DEF AnswerFits, HasTurn
<1>4. blockedChat = NoMessage
  BY <1>1, WorkTypes DEF OneAtWork, WorkFits, BeforeTurn
<1>5. \A n : /\ Running(n)' <=> Running(n)
             /\ HasTurn(n)' <=> HasTurn(n)
             /\ InDoubt(n)' <=> InDoubt(n)
             /\ n \in handed' <=> n \in handed
  BY <1>1, <1>4 DEF Running, HasTurn, InDoubt
<1>6. ASSUME NEW n, n # m PROVE Out(n)' <=> Out(n)
  BY <1>1, <1>2, <1>6, WorkTypes, OutBeside
<1> QED
  BY <1>3, <1>5, <1>6, SameStatus DEF AllSame

\* The harness refuses the message of a chain, or nobody knows.
LEMMA UnansweredRefines ==
  ASSUME WholeInv, NEW p \in Chains, Refused(p) \/ GiveUp(p)
  PROVE  Outbox!Next
<1>1. pc[p] = "handed" /\ answer[p] = NoTurn /\ UNCHANGED <<turns, handed, job>>
  BY WorkTypes DEF Refused, GiveUp, nativeVars, userVars
<1>2. PICK m : m = job[p]
  OBVIOUS
<1>3. /\ m \in Messages /\ ~HasTurn(m) /\ m # NoMessage /\ blockedChat = NoMessage /\ limbo = {}
      /\ \A n : ~Running(n)
      /\ \A q \in Chains : q # p => pc[q] # "handed"
  BY <1>1, <1>2, NothingElse, WorkTypes DEF AtWork, StartPoints
<1>4. m \in handed /\ Out(m)
  BY <1>1, <1>2, WorkTypes DEF HandedOver, Out
<1>5. \A n : /\ Running(n)' <=> Running(n)
             /\ HasTurn(n)' <=> HasTurn(n)
             /\ n \in handed' <=> n \in handed
  BY <1>1 DEF Running, HasTurn
<1>6. PICK point \in {"refused", "uncertain"} :
        /\ GoTo(p, point)
        /\ point = "refused" => blockedChat' = NoMessage /\ limbo' = {}
        /\ point = "uncertain" => blockedChat' = m /\ limbo' = {m}
  BY <1>1, <1>2, <1>3 DEF Refused, GiveUp, workbenchVars, nativeVars
<1>7. ASSUME NEW n, n # m, n # NoMessage PROVE (Out(n)' <=> Out(n)) /\ (InDoubt(n)' <=> InDoubt(n))
  <2>1. Out(n)' <=> Out(n)
    BY <1>1, <1>2, <1>6, <1>7, WorkTypes, OutBeside
  <2> QED
    BY <1>3, <1>6, <1>7, <2>1 DEF InDoubt
<1>8. Only(m)
  BY <1>5, <1>7, SameStatus DEF Only
<1>9. ~Out(m)'
  BY <1>1, <1>3, <1>6, WorkTypes DEF Out, GoTo
<1>10. Status(m) = "out"
  BY <1>3, <1>4, StatusIs DEF StatusFits, InDoubt
<1>11. Status(m)' \in {"refused", "unknown"}
  BY <1>3, <1>4, <1>5, <1>6, <1>9, StatusIsThen DEF StatusFits
<1> QED
  BY <1>3, <1>8, <1>10, <1>11, WorkTypes, StepOf

\* The message a /cancel asks about has the turn that runs, or is taken for never received.
LEMMA ReadRefines ==
  ASSUME WholeInv, ReadIdle \/ ReadInProgress
  PROVE  Refined
<1>1. /\ pc["cmd"] = "read" /\ limbo = {} /\ blockedChat' = NoMessage
      /\ UNCHANGED <<turns, limbo, handed, job>>
      /\ \E point \in {"abandon", "reconcile"} : GoTo("cmd", point)
  BY DEF ReadIdle, ReadInProgress, nativeVars, userVars
<1>2. PICK m : m = blockedChat
  OBVIOUS
<1>3. /\ m # NoMessage /\ m \in Messages /\ m \in handed /\ activeTurnId = NoTurn
      /\ \A p \in Chains : pc[p] # "handed"
  <2>1. m # NoMessage /\ m \in Messages /\ m \in handed /\ activeTurnId = NoTurn
    BY <1>1, <1>2, WorkTypes DEF BlockedAlone, HandedOver
  <2>2. \A p \in Chains : ~BeforeTurn(p)
    BY <1>2, <2>1, WorkTypes DEF OneAtWork, WorkFits
  <2> QED
    BY <2>1, <2>2 DEF BeforeTurn
<1>4. \A p \in Chains : pc'[p] # "handed"
  BY <1>1, <1>3, WorkTypes DEF GoTo
<1>5. \A n : /\ Running(n)' <=> Running(n)
             /\ HasTurn(n)' <=> HasTurn(n)
             /\ Out(n)' <=> Out(n)
             /\ n \in handed' <=> n \in handed
             /\ n # m /\ n # NoMessage => (InDoubt(n)' <=> InDoubt(n))
  BY <1>1, <1>2, <1>3, <1>4 DEF Running, HasTurn, Out, InDoubt
<1>6. CASE HasTurn(m)
  BY <1>5, <1>6, SameStatus DEF Refined, AllSame
<1>7. CASE ~HasTurn(m)
  <2>1. Only(m)
    BY <1>5, SameStatus DEF Only
  <2>2. ~Running(m) /\ InDoubt(m) /\ ~InDoubt(m)' /\ ~Out(m)'
    BY <1>1, <1>2, <1>3, <1>4, <1>7 DEF Running, HasTurn, InDoubt, Out
  <2>3. Status(m) = "unknown" /\ Status(m)' = "refused"
    BY <1>3, <1>5, <1>7, <2>2, StatusIs, StatusIsThen DEF StatusFits
  <2> QED
    BY <1>3, <2>1, <2>3, WorkTypes, StepOf DEF Refined
<1> QED
  BY <1>6, <1>7

\* The start of a turn tells of the uncertain message, which then has that turn.
LEMMA StartedRefines ==
  ASSUME WholeInv, ApplyStarted, Head(events).arg \notin terminalTurns
  PROVE  AllSame
<1>1. /\ pc["evt"] = "append" /\ blockedChat' = NoMessage /\ UNCHANGED <<turns, limbo, handed>>
      /\ Leave("evt") \/ (GoTo("evt", "resume") /\ job' = job)
      /\ Head(events).type = "started" /\ events # <<>>
  BY WorkTypes DEF ApplyStarted, InWork, nativeVars, userVars, TypeInv, Placed
<1>2. PICK t : t = Head(events).arg
  OBVIOUS
<1>3. blockedChat # NoMessage => HasTurn(blockedChat)
  <2>1. /\ t \in DOMAIN turns /\ t # NoTurn
        /\ activeTurnId = t \/ (blockedChat # NoMessage /\ turns[t].message = blockedChat)
    BY <1>1, <1>2, WorkTypes, StartedTurn
  <2>2. blockedChat # NoMessage => activeTurnId = NoTurn
    BY WorkTypes DEF BlockedAlone
  <2> QED
    BY <2>1, <2>2 DEF HasTurn
<1>4. \A p \in Chains : pc'[p] = "handed" \/ pc[p] = "handed" => pc'[p] = pc[p] /\ job'[p] = job[p]
  BY <1>1, WorkTypes DEF Leave, GoTo
<1>5. \A n : /\ Running(n)' <=> Running(n)
             /\ HasTurn(n)' <=> HasTurn(n)
             /\ Out(n)' <=> Out(n)
             /\ n \in handed' <=> n \in handed
             /\ n # blockedChat /\ n # NoMessage => (InDoubt(n)' <=> InDoubt(n))
  BY <1>1, <1>4 DEF Running, HasTurn, Out, InDoubt
<1> QED
  BY <1>3, <1>5, SameStatus DEF AllSame

\* No other step tells of a message.
LEMMA OthersStutter ==
  ASSUME WholeInv, [Next]_vars, ~Tells, ~ReadIdle, ~ReadInProgress,
         ~(ApplyStarted /\ Head(events).arg \notin terminalTurns),
         \A p \in Chains : ~Receive(p) /\ ~Record(p) /\ ~Answered(p) /\ ~Refused(p) /\ ~GiveUp(p),
         \A m \in Messages : ~ReceiveLate(m)
  PROVE  AllSame
<1>1. KeptTurns
  BY WorkTypes, NotificationEffect DEF NothingHeard, HeadHeard
<1>2. NoNewTurn /\ limbo' = limbo
  BY WorkTypes, NativeEffect
<1>3. handed' = handed
  BY HandedEffect
<1>4. blockedChat' = blockedChat
  BY GuardsEffect DEF Unblocked
<1>5. ASSUME NEW n PROVE Status(n)' = Status(n)
  <2>1. (Running(n)' <=> Running(n)) /\ (HasTurn(n)' <=> HasTurn(n))
    BY <1>1, <1>2, SameTurns
  <2>2. Out(n)' <=> Out(n)
    BY WorkTypes, OutEffect
  <2>3. InDoubt(n)' <=> InDoubt(n)
    BY <1>2, <1>4 DEF InDoubt
  <2> QED
    BY <1>3, <2>1, <2>2, <2>3, SameStatus
<1> QED
  BY <1>5 DEF AllSame

\* A step of ChatDelivery is one of ChatOutbox, or changes the status of no message.
LEMMA StepRefines ==
  ASSUME WholeInv, OutgoingInv, [Next]_vars
  PROVE  Outbox!Next \/ StatusMap' = StatusMap
<1>1. Refined
  <2>1. CASE \E p \in Chains : Receive(p) \/ Record(p) \/ Answered(p) \/ Refused(p) \/ GiveUp(p)
    BY <2>1, ReceiveRefines, RecordRefines, AnsweredRefines, UnansweredRefines DEF Refined
  <2>2. CASE \E m \in Messages : ReceiveLate(m)
    BY <2>2, ReceiveLateRefines
  <2>3. CASE Tells \/ ReadIdle \/ ReadInProgress
    BY <2>3, TellsRefines, ReadRefines
  <2>4. CASE ApplyStarted /\ Head(events).arg \notin terminalTurns
    BY <2>4, StartedRefines DEF Refined
  <2> QED
    BY <2>1, <2>2, <2>3, <2>4, OthersStutter DEF Refined
<1>2. AllSame => StatusMap' = StatusMap
  BY DEF AllSame, StatusMap
<1> QED
  BY <1>1, <1>2 DEF Refined

\* Every message is new, and the turn of a resumed session runs or was none.
LEMMA InitRefines == Init => Outbox!Init
<1> SUFFICES ASSUME Init PROVE Outbox!Init
  OBVIOUS
<1>1. /\ handed = {} /\ NoMessage \notin Messages
      /\ \A t \in DOMAIN turns : turns[t].message = NoMessage
  BY DEF Init, Messages, NoMessage
<1>2. ASSUME NEW m \in Messages PROVE Status(m) = "new"
  <2>1. ~Running(m) /\ ~HasTurn(m) /\ m # NoMessage /\ m \notin handed
    BY <1>1 DEF Running, HasTurn
  <2> QED
    BY <2>1, StatusIs DEF StatusFits
<1>3. Status(NoMessage) \in {"running", "over"}
  BY StatusIs DEF StatusFits
<1> QED
  BY <1>2, <1>3 DEF Outbox!Init, Outbox!Statuses, Outbox!Resumed, NoMessage

\* Nothing was handed over, and the resumed turn has asked for nothing.
LEMMA InitOutgoing == Init => OutgoingInv
<1> SUFFICES ASSUME Init PROVE OutgoingInv
  OBVIOUS
<1>1. handed = {} /\ events = <<>> /\ asked = {}
  BY DEF Init
<1> QED
  BY <1>1 DEF OutgoingInv, HandedIsOlder, HandedInQueue, EndIsLast

\* What goes out is in order in every behaviour with an orderly harness.
THEOREM OutgoingHolds == ASSUME Orderly PROVE Spec => [](WholeInv /\ OutgoingInv)
<1>1. WholeInv /\ OutgoingInv /\ [Next]_vars => OutgoingInv'
  <2> SUFFICES ASSUME WholeInv, OutgoingInv, [Next]_vars PROVE OutgoingInv'
    OBVIOUS
  <2>1. EndIsLast'
    BY WorkTypes, EndIsLastKept DEF OutgoingInv
  <2> QED
    BY <2>1, HandedIsOlderKept, HandedInQueueKept DEF OutgoingInv
<1> QED
  BY <1>1, InitOutgoing, OrderlyHolds, PTL DEF Spec

\* The whole promise: with an orderly harness, delivery by two interleaved chains, a queue and
\* late news is, for the user, the outbox where one message after the other goes out.
THEOREM DeliversAsPromised == ASSUME Orderly PROVE Spec => DeliversLikeAnOutbox
<1>1. WholeInv /\ OutgoingInv /\ [Next]_vars => [Outbox!Next]_StatusMap
  BY StepRefines
<1>2. WholeInv /\ OutgoingInv /\ [Next]_vars
        => [Outbox!Next]_([m \in Messages \union {NoMessage} |-> Status(m)])
  BY <1>1 DEF StatusMap, AllMessages
<1> QED
  BY <1>2, InitRefines, OutgoingHolds, PTL DEF Spec, DeliversLikeAnOutbox, Outbox!Spec

===============================================================================
