------------------------- MODULE ChatDeliverySafety -------------------------
(***************************************************************************)
(* Theorems about ChatDelivery for every value of its constants, whatever  *)
(* the native harness does: its types, that no queued message is lost,     *)
(* that messages go out in their order, and that what dispatch() answers   *)
(* is so.                                                                  *)
(***************************************************************************)
EXTENDS ChatDelivery, TLAPS

\* Where the chains stand fits what they work on.
Placed ==
  /\ pc["evt"] # "idle" => events # <<>>
  /\ pc["cmd"] = "idle" => command = NoCommand
  /\ pc["cmd"] \in {"enqueue", "thread"} => command.type = "send"
  /\ pc["cmd"] \in {"read", "abandon", "reconcile"} => command.type = "cancel"
  /\ \A p \in Chains : pc[p] \in StartPoints => job[p] \in Messages
  /\ command.type = "send" /\ pc["cmd"] # "wait" => job["cmd"] = command.arg

TypeInv == TypeOK /\ Placed

-----------------------------------------------------------------------------
(* The helpers keep the types.                                             *)

\* The tail of a queue is a queue of the same elements.
LEMMA SeqTail ==
  ASSUME NEW S, NEW q \in Seq(S), q # <<>>
  PROVE  Head(q) \in S /\ Tail(q) \in Seq(S)
  OBVIOUS

\* Updating one point of a function keeps its type.
LEMMA ExceptType ==
  ASSUME NEW S, NEW T, NEW f \in [S -> T], NEW x, NEW v \in T
  PROVE  [f EXCEPT ![x] = v] \in [S -> T]
  OBVIOUS

\* A shift of chatQueue leaves a queue of messages.
LEMMA ShiftType ==
  ASSUME NEW S, NEW q \in Seq(S), NEW id
  PROVE  Shift(q, id) \in Seq(S)
  BY DEF Shift

\* Leave settles whatever the chain was doing.
LEMMA LeaveType ==
  ASSUME TypeInv, NEW p \in Chains, pc[p] # "idle", Leave(p)
  PROVE  (ChainTypeOK /\ Placed)'
<1>1. CASE p = "cmd"
  BY <1>1, SMT DEF TypeInv, TypeOK, ChainTypeOK, Placed, Leave, Other, Chains, NoCommand,
       Commands, NoMessage, CommandPoints, EventPoints, StartPoints
<1>2. CASE p = "evt"
  <2>1. events # <<>> /\ events \in Seq(Event)
    BY <1>2 DEF TypeInv, TypeOK, ChainTypeOK, Placed
  <2>2. Tail(events) \in Seq(Event)
    BY <2>1, SeqTail
  <2>3. EventSettled \in Nat
    BY SMT DEF TypeInv, TypeOK, ChainTypeOK, EventSettled
  <2>4. /\ pc' = [pc EXCEPT !["evt"] = "idle"] /\ job' = [job EXCEPT !["evt"] = 0]
        /\ longer' = "cmd" /\ command' = command /\ events' = Tail(events)
        /\ awaited' = EventSettled /\ completedActive' = FALSE
    BY <1>2 DEF Leave, Other, NoMessage
  <2>a. completedActive' \in BOOLEAN
    BY <2>4
  <2>b. events' \in Seq(Event) /\ awaited' \in Nat /\ longer' \in Chains
    BY <2>2, <2>3, <2>4 DEF Chains
  <2>c. /\ pc' \in [Chains -> CommandPoints \union EventPoints]
        /\ pc'["cmd"] \in CommandPoints /\ pc'["evt"] \in EventPoints
        /\ job' \in [Chains -> Messages \union {NoMessage}]
    BY <2>4, SMT DEF TypeInv, TypeOK, ChainTypeOK, Chains, NoMessage, EventPoints, CommandPoints
  <2>5. ChainTypeOK'
    BY <2>4, <2>a, <2>b, <2>c DEF TypeInv, TypeOK, ChainTypeOK
  <2>6. Placed'
    BY <2>4, SMT DEF TypeInv, TypeOK, ChainTypeOK, Placed, Chains, StartPoints
  <2> QED
    BY <2>5, <2>6
<1> QED
  BY <1>1, <1>2 DEF Chains
\* The chain goes on to another await, perhaps with another message.
LEMMA GoToType ==
  ASSUME TypeInv, NEW p \in Chains, pc[p] # "idle", NEW point, GoTo(p, point),
         NEW m \in Messages \union {NoMessage}, job' = [job EXCEPT ![p] = m],
         p = "cmd" => point \in CommandPoints \ {"idle"},
         p = "evt" => point \in EventPoints \ {"idle"},
         point \in StartPoints => m \in Messages,
         point \in {"enqueue", "thread"} => command.type = "send",
         point \in {"read", "abandon", "reconcile"} => command.type = "cancel",
         p = "cmd" /\ command.type = "send" => m = command.arg
  PROVE  (ChainTypeOK /\ Placed)'
<1>1. /\ pc' = [pc EXCEPT ![p] = point] /\ longer' = Other(p)
      /\ UNCHANGED <<command, events, awaited, completedActive>>
  BY DEF GoTo
<1>2. /\ pc' \in [Chains -> CommandPoints \union EventPoints]
      /\ pc'["cmd"] \in CommandPoints /\ pc'["evt"] \in EventPoints
      /\ job' \in [Chains -> Messages \union {NoMessage}]
  BY <1>1, SMT DEF TypeInv, TypeOK, ChainTypeOK, Chains
<1>3. longer' \in Chains
  BY <1>1 DEF Other, Chains
<1>4. ChainTypeOK'
  BY <1>1, <1>2, <1>3 DEF TypeInv, TypeOK, ChainTypeOK
<1>5. Placed'
  BY <1>1, SMT DEF TypeInv, TypeOK, ChainTypeOK, Placed, Chains
<1> QED
  BY <1>4, <1>5

\* The same when it goes on with the message it has.
LEMMA GoOnType ==
  ASSUME TypeInv, NEW p \in Chains, pc[p] # "idle", NEW point, GoTo(p, point),
         UNCHANGED job,
         p = "cmd" => point \in CommandPoints \ {"idle"},
         p = "evt" => point \in EventPoints \ {"idle"},
         point \in StartPoints => job[p] \in Messages,
         point \in {"enqueue", "thread"} => command.type = "send",
         point \in {"read", "abandon", "reconcile"} => command.type = "cancel",
         p = "cmd" /\ command.type = "send" => job[p] = command.arg
  PROVE  (ChainTypeOK /\ Placed)'
<1>1. /\ job[p] \in Messages \union {NoMessage}
      /\ job' = [job EXCEPT ![p] = job[p]]
  BY SMT DEF TypeInv, TypeOK, ChainTypeOK
<1> QED
  BY <1>1, GoToType

\* drainChatQueue, whether it goes on to a message or settles, keeps the chains typed.
LEMMA DrainType ==
  ASSUME TypeInv, NEW p \in Chains, pc[p] # "idle", FromQueue(p), DrainOrLeave(p),
         chatQueue' \in Seq(Messages)
  PROVE  (ChainTypeOK /\ Placed)'
<1>1. CASE GoTo(p, "record") /\ chatQueue' # <<>>
           /\ job' = [job EXCEPT ![p] = Head(chatQueue')]
  <2>1. Head(chatQueue') \in Messages
    BY <1>1, SeqTail
  <2>2. ~(p = "cmd" /\ command.type = "send")
    BY DEF FromQueue
  <2>3. /\ "record" \in CommandPoints \ {"idle"} /\ "record" \in EventPoints \ {"idle"}
        /\ "record" \notin {"enqueue", "thread", "read", "abandon", "reconcile"}
    BY SMT DEF CommandPoints, EventPoints, StartPoints
  <2> HIDE DEF CommandPoints, EventPoints, StartPoints
  <2> QED
    BY <1>1, <2>1, <2>2, <2>3, GoToType
<1>2. CASE Leave(p)
  BY <1>2, LeaveType
<1> QED
  BY <1>1, <1>2 DEF DrainOrLeave

\* The same of its catch clause.
LEMMA GoOnOrLeaveType ==
  ASSUME TypeInv, NEW p \in Chains, pc[p] # "idle", GoOnOrLeave(p),
         chatQueue' \in Seq(Messages)
  PROVE  (ChainTypeOK /\ Placed)'
  BY DrainType, LeaveType DEF GoOnOrLeave

\* A reply of dispatch() is a receipt.
LEMMA ReplyType ==
  ASSUME TypeInv, NEW p, NEW r \in Receipts, Reply(p, r)
  PROVE  receipt' \in [Messages -> Receipts]
<1>1. receipt \in [Messages -> Receipts]
  BY DEF TypeInv, TypeOK, UserTypeOK
<1>2. receipt' = receipt \/ receipt' = [receipt EXCEPT ![command.arg] = r]
  BY DEF Reply
<1>3. [receipt EXCEPT ![command.arg] = r] \in [Messages -> Receipts]
  BY <1>1, ExceptType
<1> QED
  BY <1>1, <1>2, <1>3

\* What an action leaves alone keeps its type.
LEMMA Kept ==
  ASSUME TypeInv
  PROVE  /\ UNCHANGED workbenchVars => WorkbenchTypeOK'
         /\ UNCHANGED nativeVars => NativeTypeOK'
         /\ UNCHANGED userVars => UserTypeOK'
         /\ UNCHANGED <<pc, job, command, awaited, events, completedActive, longer>>
              => (ChainTypeOK /\ Placed)'
<1>1. UNCHANGED workbenchVars => WorkbenchTypeOK'
  BY DEF TypeInv, TypeOK, WorkbenchTypeOK, workbenchVars
<1>2. UNCHANGED nativeVars => NativeTypeOK'
  BY DEF TypeInv, TypeOK, NativeTypeOK, nativeVars
<1>3. UNCHANGED userVars => UserTypeOK'
  BY DEF TypeInv, TypeOK, UserTypeOK, userVars
<1>4. UNCHANGED <<pc, job, command, awaited, events, completedActive, longer>>
        => (ChainTypeOK /\ Placed)'
  BY DEF TypeInv, TypeOK, ChainTypeOK, Placed
<1> QED
  BY <1>1, <1>2, <1>3, <1>4

-----------------------------------------------------------------------------
(* Type correctness, action by action.                                     *)

\* A session starts well typed, with both chains at rest.
LEMMA InitType == Init => TypeInv
<1> SUFFICES ASSUME Init PROVE TypeInv
  OBVIOUS
<1>1. turns \in Seq(Turn) /\ Len(turns) \in Nat
  <2> DEFINE resumed == [message |-> NoMessage, announced |-> TRUE, ended |-> FALSE]
  <2>1. resumed \in Turn
    BY DEF Turn
  <2>2. turns = <<>> \/ turns = <<resumed>>
    BY DEF Init
  <2>3. <<>> \in Seq(Turn) /\ <<resumed>> \in Seq(Turn)
    BY <2>1
  <2> HIDE DEF resumed
  <2> QED
    BY <2>2, <2>3
<1>2. WorkbenchTypeOK
  <2>1. hasThread \in BOOLEAN
    BY DEF Init
  <2>2. activeTurnId \in Nat /\ terminalTurns \subseteq Nat \ {0} /\ chatQueue \in Seq(Messages)
    BY <1>1 DEF Init
  <2> QED
    BY <2>1, <2>2 DEF Init, WorkbenchTypeOK
<1>3. ChainTypeOK
  <2>1. completedActive \in BOOLEAN
    BY DEF Init
  <2>2. /\ pc \in [Chains -> CommandPoints \union EventPoints]
        /\ pc["cmd"] \in CommandPoints /\ pc["evt"] \in EventPoints
        /\ job \in [Chains -> Messages \union {NoMessage}]
    BY SMT DEF Init, Chains, CommandPoints, EventPoints
  <2>3. command \in Commands /\ awaited \in Nat /\ events \in Seq(Event) /\ longer \in Chains
    BY DEF Init, Commands, Chains
  <2> QED
    BY <2>1, <2>2, <2>3 DEF ChainTypeOK
<1>4. NativeTypeOK
  BY <1>1, ModesAssumption, SMT DEF Init, NativeTypeOK, Chains, NoTurn
<1>5. UserTypeOK
  BY BoundsAssumption, SMT DEF Init, UserTypeOK, Receipts
<1>6. Placed
  BY SMT DEF Init, Placed, Chains, StartPoints, NoCommand
<1> QED
  BY <1>2, <1>3, <1>4, <1>5, <1>6 DEF TypeInv, TypeOK

\* A dispatched command finds the command chain at rest and leaves it waiting.
LEMMA DispatchType == TypeInv /\ Dispatch => TypeInv'
<1> SUFFICES ASSUME TypeInv, Dispatch PROVE TypeInv'
  OBVIOUS
<1>1. ASSUME NEW c \in Commands, Begin(c), c # NoCommand
      PROVE  WorkbenchTypeOK' /\ NativeTypeOK' /\ (ChainTypeOK /\ Placed)'
  <2>1. WorkbenchTypeOK' /\ NativeTypeOK'
    BY <1>1, Kept DEF Begin
  <2>2. /\ pc' = [pc EXCEPT !["cmd"] = "wait"] /\ command' = c /\ awaited' = Len(events)
        /\ longer' = "evt" /\ UNCHANGED <<job, events, completedActive>>
    BY <1>1 DEF Begin
  <2>3. /\ pc' \in [Chains -> CommandPoints \union EventPoints]
        /\ pc'["cmd"] \in CommandPoints /\ pc'["evt"] \in EventPoints
        /\ awaited' \in Nat /\ longer' \in Chains
    BY <2>2, SMT DEF TypeInv, TypeOK, ChainTypeOK, Chains, CommandPoints
  <2>4. ChainTypeOK'
    BY <1>1, <2>2, <2>3 DEF TypeInv, TypeOK, ChainTypeOK
  <2>5. Placed'
    BY <2>2, SMT DEF TypeInv, TypeOK, ChainTypeOK, Placed, Chains, StartPoints
  <2> QED
    BY <2>1, <2>4, <2>5
<1>2. CASE DispatchSend
  <2>1. submitted + 1 \in Messages /\ submitted' \in 0..MaxMessages
    BY <1>2, BoundsAssumption, SMT DEF DispatchSend, TypeInv, TypeOK, UserTypeOK, Messages
  <2>2. [type |-> "send", arg |-> submitted + 1] \in Commands \ {NoCommand}
    BY <2>1, SMT DEF Commands, NoCommand
  <2>3. receipt' \in [Messages -> Receipts]
    BY <1>2, ExceptType DEF DispatchSend, TypeInv, TypeOK, UserTypeOK, Receipts
  <2>4. UserTypeOK'
    BY <1>2, <2>1, <2>3 DEF DispatchSend, Begin, TypeInv, TypeOK, UserTypeOK
  <2> QED
    BY <1>1, <1>2, <2>2, <2>4 DEF DispatchSend, TypeInv, TypeOK
<1>3. CASE DispatchCancel
  <2>1. [type |-> "cancel", arg |-> 0] \in Commands \ {NoCommand}
    BY SMT DEF Commands, NoCommand
  <2>2. cancels' \in 0..MaxCancels
    BY <1>3, BoundsAssumption, SMT DEF DispatchCancel, TypeInv, TypeOK, UserTypeOK
  <2>3. UserTypeOK'
    BY <1>3, <2>2 DEF DispatchCancel, Begin, TypeInv, TypeOK, UserTypeOK
  <2> QED
    BY <1>1, <1>3, <2>1, <2>3 DEF DispatchCancel, TypeInv, TypeOK
<1>4. CASE DispatchApprove
  <2>1. PICK id \in 1..approvals : Begin([type |-> "approve", arg |-> id])
    BY <1>4 DEF DispatchApprove
  <2>2. id \in 1..MaxApprovals
    BY BoundsAssumption, SMT DEF TypeInv, TypeOK, UserTypeOK
  <2>3. [type |-> "approve", arg |-> id] \in Commands \ {NoCommand}
    BY <2>2, SMT DEF Commands, NoCommand
  <2>4. UserTypeOK'
    BY <1>4, <2>1 DEF DispatchApprove, Begin, TypeInv, TypeOK, UserTypeOK
  <2> QED
    BY <1>1, <2>1, <2>3, <2>4 DEF TypeInv, TypeOK
<1>5. CASE DispatchWhenClosed
  <2>1. WorkbenchTypeOK' /\ NativeTypeOK' /\ (ChainTypeOK /\ Placed)'
    BY <1>5, Kept DEF DispatchWhenClosed, chainVars
  <2>2. submitted' \in 0..MaxMessages
    BY <1>5, BoundsAssumption, SMT DEF DispatchWhenClosed, TypeInv, TypeOK, UserTypeOK
  <2>3. receipt' \in [Messages -> Receipts]
    BY <1>5, ExceptType DEF DispatchWhenClosed, TypeInv, TypeOK, UserTypeOK, Receipts
  <2> QED
    BY <1>5, <2>1, <2>2, <2>3 DEF DispatchWhenClosed, TypeInv, TypeOK, UserTypeOK
<1> QED
  BY <1>2, <1>3, <1>4, <1>5 DEF Dispatch

\* One step of startChatTurn, on either chain.
LEMMA StartChatTurnType ==
  ASSUME TypeInv, NEW p \in Chains, StartChatTurn(p)
  PROVE  TypeInv'
<1>1. /\ chatQueue \in Seq(Messages) /\ answer \in [Chains -> Nat]
      /\ limbo \subseteq Messages /\ handed \subseteq Messages
      /\ faults \in Nat /\ MaxFaults \in Nat /\ giveUps \in Nat /\ MaxGiveUps \in Nat
  BY BoundsAssumption, SMT DEF TypeInv, TypeOK, WorkbenchTypeOK, NativeTypeOK, UserTypeOK
<1>2. pc[p] \in StartPoints => job[p] \in Messages
  BY DEF TypeInv, Placed
<1>3. p = "cmd" /\ command.type = "send" /\ pc[p] # "wait" => job[p] = command.arg
  BY DEF TypeInv, Placed
<1>4. StartPoints \subseteq CommandPoints \ {"idle"} /\ StartPoints \subseteq EventPoints \ {"idle"}
      /\ {"enqueue", "thread", "read", "abandon", "reconcile"} \intersect StartPoints = {}
  BY SMT DEF StartPoints, CommandPoints, EventPoints
<1>5. \A point \in StartPoints :
        pc[p] \in StartPoints /\ GoTo(p, point) /\ UNCHANGED job => (ChainTypeOK /\ Placed)'
  <2> SUFFICES ASSUME NEW point \in StartPoints, pc[p] \in StartPoints, GoTo(p, point), UNCHANGED job
               PROVE  (ChainTypeOK /\ Placed)'
    OBVIOUS
  <2>1. pc[p] # "idle" /\ pc[p] # "wait"
    BY SMT DEF StartPoints
  <2> HIDE DEF StartPoints, CommandPoints, EventPoints
  <2> QED
    BY <1>2, <1>3, <1>4, <2>1, GoOnType
<1>6. Fault \/ NoFault => faults' \in 0..MaxFaults
  BY <1>1, SMT DEF Fault, NoFault, TypeInv, TypeOK, UserTypeOK
<1>7. \A r \in Receipts : Reply(p, r) => receipt' \in [Messages -> Receipts]
  BY ReplyType
<1>8. {"accepted", "rejected", "uncertain", "queued"} \subseteq Receipts
  BY DEF Receipts
<1>9. CASE Record(p)
  <2>1. UNCHANGED <<workbenchVars, nativeVars>> /\ pc[p] = "record"
    BY <1>9 DEF Record
  <2>2. WorkbenchTypeOK' /\ NativeTypeOK' /\ chatQueue' \in Seq(Messages)
    BY <2>1, <1>1, Kept DEF workbenchVars
  <2>3. (ChainTypeOK /\ Placed)'
    <3>1. CASE GoTo(p, "handed") /\ UNCHANGED job
      BY <3>1, <2>1, <1>5 DEF StartPoints
    <3>2. CASE GoOnOrLeave(p)
      BY <3>2, <2>1, <2>2, GoOnOrLeaveType
    <3> QED
      BY <1>9, <3>1, <3>2 DEF Record
  <2>4. handed' \subseteq Messages
    BY <1>9, <1>1, <1>2, <2>1 DEF Record, StartPoints
  <2>5. receipt' \in [Messages -> Receipts] /\ faults' \in 0..MaxFaults
    BY <1>9, <1>6, <1>7, <1>8 DEF Record, TypeInv, TypeOK, UserTypeOK
  <2>6. UserTypeOK'
    BY <1>9, <2>4, <2>5 DEF Record, TypeInv, TypeOK, UserTypeOK
  <2> QED
    BY <2>2, <2>3, <2>6 DEF TypeInv, TypeOK
<1>10. CASE Answered(p)
  <2>1. pc[p] = "handed" /\ GoTo(p, "started") /\ UNCHANGED job
    BY <1>10 DEF Answered
  <2>2. (ChainTypeOK /\ Placed)'
    BY <2>1, <1>5 DEF StartPoints
  <2>3. activeTurnId' \in Nat /\ chatQueue' \in Seq(Messages)
    BY <1>10, <1>1, ShiftType DEF Answered
  <2>4. WorkbenchTypeOK'
    BY <1>10, <2>3 DEF Answered, TypeInv, TypeOK, WorkbenchTypeOK
  <2>5. answer' \in [Chains -> Nat]
    BY <1>10, <1>1, ExceptType DEF Answered, NoTurn
  <2>6. NativeTypeOK' /\ UserTypeOK'
    BY <1>10, <2>5, Kept DEF Answered, TypeInv, TypeOK, NativeTypeOK
  <2> QED
    BY <2>2, <2>4, <2>6 DEF TypeInv, TypeOK
<1>11. CASE SettleStarted(p)
  <2>1. UNCHANGED <<workbenchVars, nativeVars>> /\ pc[p] = "started"
    BY <1>11 DEF SettleStarted
  <2>2. WorkbenchTypeOK' /\ NativeTypeOK' /\ chatQueue' \in Seq(Messages)
    BY <2>1, <1>1, Kept DEF workbenchVars
  <2>3. (ChainTypeOK /\ Placed)'
    BY <1>11, <2>1, <2>2, LeaveType, GoOnOrLeaveType DEF SettleStarted
  <2>4. receipt' \in [Messages -> Receipts] /\ faults' \in 0..MaxFaults
    BY <1>11, <1>6, <1>7, <1>8 DEF SettleStarted
  <2>5. UserTypeOK'
    BY <1>11, <2>4 DEF SettleStarted, TypeInv, TypeOK, UserTypeOK
  <2> QED
    BY <2>2, <2>3, <2>5 DEF TypeInv, TypeOK
<1>12. CASE Refused(p)
  <2>1. (ChainTypeOK /\ Placed)'
    BY <1>12, <1>5 DEF Refused, StartPoints
  <2> QED
    BY <1>12, <2>1, Kept DEF Refused, TypeInv, TypeOK
<1>13. CASE SettleRefused(p)
  <2>1. pc[p] = "refused" /\ GoOnOrLeave(p) /\ UNCHANGED nativeVars
    BY <1>13 DEF SettleRefused
  <2>2. chatQueue' \in Seq(Messages)
    BY <1>13, <1>1, ShiftType DEF SettleRefused
  <2>3. (ChainTypeOK /\ Placed)'
    BY <2>1, <2>2, GoOnOrLeaveType
  <2>4. WorkbenchTypeOK' /\ NativeTypeOK'
    BY <1>13, <2>1, <2>2, Kept DEF SettleRefused, TypeInv, TypeOK, WorkbenchTypeOK
  <2>5. receipt' \in [Messages -> Receipts] /\ faults' \in 0..MaxFaults
    BY <1>13, <1>6, <1>7, <1>8 DEF SettleRefused
  <2>6. UserTypeOK'
    BY <1>13, <2>5 DEF SettleRefused, TypeInv, TypeOK, UserTypeOK
  <2> QED
    BY <2>3, <2>4, <2>6 DEF TypeInv, TypeOK
<1>14. CASE GiveUp(p)
  <2>1. pc[p] = "handed" /\ GoTo(p, "uncertain") /\ UNCHANGED job /\ job[p] \in Messages
    BY <1>14, <1>2 DEF GiveUp, StartPoints
  <2>2. (ChainTypeOK /\ Placed)'
    BY <2>1, <1>5 DEF StartPoints
  <2>3. WorkbenchTypeOK'
    BY <1>14, <2>1 DEF GiveUp, TypeInv, TypeOK, WorkbenchTypeOK
  <2>4. limbo' \subseteq Messages
    BY <1>14, <1>1, <2>1 DEF GiveUp
  <2>5. answer' \in [Chains -> Nat]
    BY <1>14, <1>1, ExceptType DEF GiveUp, NoTurn
  <2>6. giveUps' \in 0..MaxGiveUps
    BY <1>14, <1>1, SMT DEF GiveUp
  <2>7. NativeTypeOK' /\ UserTypeOK'
    BY <1>14, <2>4, <2>5, <2>6 DEF GiveUp, TypeInv, TypeOK, NativeTypeOK, UserTypeOK
  <2> QED
    BY <2>2, <2>3, <2>7 DEF TypeInv, TypeOK
<1>15. CASE SettleUncertain(p)
  <2>1. pc[p] = "uncertain" /\ (Leave(p) \/ GoOnOrLeave(p)) /\ UNCHANGED nativeVars
    BY <1>15 DEF SettleUncertain
  <2>2. chatQueue' \in Seq(Messages)
    BY <1>15, <1>1, ShiftType DEF SettleUncertain
  <2>3. (ChainTypeOK /\ Placed)'
    BY <2>1, <2>2, LeaveType, GoOnOrLeaveType
  <2>4. WorkbenchTypeOK' /\ NativeTypeOK'
    BY <1>15, <2>1, <2>2, Kept DEF SettleUncertain, TypeInv, TypeOK, WorkbenchTypeOK
  <2>5. receipt' \in [Messages -> Receipts] /\ faults' \in 0..MaxFaults
    BY <1>15, <1>6, <1>7, <1>8 DEF SettleUncertain
  <2>6. UserTypeOK'
    BY <1>15, <2>5 DEF SettleUncertain, TypeInv, TypeOK, UserTypeOK
  <2> QED
    BY <2>3, <2>4, <2>6 DEF TypeInv, TypeOK
<1> QED
  BY <1>9, <1>10, <1>11, <1>12, <1>13, <1>14, <1>15 DEF StartChatTurn

\* The other steps of the command chain.
LEMMA CommandStepType == TypeInv /\ CommandStep => TypeInv'
<1> SUFFICES ASSUME TypeInv, CommandStep PROVE TypeInv'
  OBVIOUS
<1>1. /\ chatQueue \in Seq(Messages) /\ blockedChat \in Messages \union {NoMessage}
      /\ "cmd" \in Chains /\ job["cmd"] \in Messages \union {NoMessage}
      /\ command \in Commands
  BY DEF TypeInv, TypeOK, WorkbenchTypeOK, ChainTypeOK, Chains
<1>2. command.type = "send" => command.arg \in Messages
  BY <1>1, SMT DEF Commands, NoCommand
<1>3. /\ pc["cmd"] \in {"enqueue", "thread"} => command.type = "send"
      /\ pc["cmd"] \in {"read", "abandon", "reconcile"} => command.type = "cancel"
      /\ command.type = "send" /\ pc["cmd"] # "wait" => job["cmd"] = command.arg
  BY DEF TypeInv, Placed
<1>4. Fault \/ NoFault => faults' \in 0..MaxFaults
  BY BoundsAssumption, SMT DEF Fault, NoFault, TypeInv, TypeOK, UserTypeOK
<1>5. \A r \in Receipts : Reply("cmd", r) => receipt' \in [Messages -> Receipts]
  BY ReplyType
<1>6. {"accepted", "rejected", "uncertain", "queued"} \subseteq Receipts
  BY DEF Receipts
<1>7. /\ {"enqueue", "thread", "record", "read", "abandon", "reconcile", "interrupt", "approve"}
            \subseteq CommandPoints \ {"idle"}
      /\ "record" \in StartPoints
      /\ {"enqueue", "thread", "read", "abandon", "reconcile", "interrupt", "approve"}
            \intersect StartPoints = {}
  BY SMT DEF StartPoints, CommandPoints
<1> HIDE DEF CommandPoints, StartPoints
<1>8. CASE RunSend
  <2>1. /\ command.type = "send" /\ pc["cmd"] = "wait" /\ command.arg \in Messages
        /\ job' = [job EXCEPT !["cmd"] = command.arg]
        /\ \E point \in {"enqueue", "thread", "record"} : GoTo("cmd", point)
    BY <1>8, <1>2 DEF RunSend, Ready
  <2>2. (ChainTypeOK /\ Placed)'
    BY <1>1, <1>7, <2>1, GoToType
  <2> QED
    BY <1>8, <2>2, Kept DEF RunSend, TypeInv, TypeOK
<1>9. CASE Enqueue
  <2>1. pc["cmd"] = "enqueue" /\ Leave("cmd") /\ UNCHANGED nativeVars
    BY <1>9 DEF Enqueue
  <2>2. (ChainTypeOK /\ Placed)'
    BY <1>1, <2>1, LeaveType
  <2>3. chatQueue' \in Seq(Messages)
    BY <1>9, <1>1, <1>2, <1>3, <2>1 DEF Enqueue
  <2>4. WorkbenchTypeOK' /\ NativeTypeOK'
    BY <1>9, <2>1, <2>3, Kept DEF Enqueue, TypeInv, TypeOK, WorkbenchTypeOK
  <2>5. receipt' \in [Messages -> Receipts] /\ faults' \in 0..MaxFaults
    BY <1>9, <1>4, <1>5, <1>6 DEF Enqueue
  <2>6. UserTypeOK'
    BY <1>9, <2>5 DEF Enqueue, TypeInv, TypeOK, UserTypeOK
  <2> QED
    BY <2>2, <2>4, <2>6 DEF TypeInv, TypeOK
<1>10. CASE StartThread
  <2>1. pc["cmd"] = "thread" /\ UNCHANGED nativeVars
    BY <1>10 DEF StartThread
  <2>2. (ChainTypeOK /\ Placed)'
    <3>1. CASE GoTo("cmd", "record") /\ UNCHANGED job
      BY <1>1, <1>2, <1>3, <1>7, <2>1, <3>1, GoOnType
    <3>2. CASE Leave("cmd")
      BY <1>1, <2>1, <3>2, LeaveType
    <3> QED
      BY <1>10, <3>1, <3>2 DEF StartThread
  <2>3. hasThread' \in BOOLEAN
    BY <1>10 DEF StartThread, TypeInv, TypeOK, WorkbenchTypeOK
  <2>4. WorkbenchTypeOK' /\ NativeTypeOK'
    BY <1>10, <2>1, <2>3, Kept DEF StartThread, TypeInv, TypeOK, WorkbenchTypeOK
  <2>5. receipt' \in [Messages -> Receipts] /\ faults' \in 0..MaxFaults
    BY <1>10, <1>4, <1>5, <1>6 DEF StartThread, TypeInv, TypeOK, UserTypeOK
  <2>6. UserTypeOK'
    BY <1>10, <2>5 DEF StartThread, TypeInv, TypeOK, UserTypeOK
  <2> QED
    BY <2>2, <2>4, <2>6 DEF TypeInv, TypeOK
<1>11. CASE RunCancel
  <2>1. command.type = "cancel" /\ pc["cmd"] = "wait"
    BY <1>11 DEF RunCancel, Ready
  <2>2. (ChainTypeOK /\ Placed)'
    <3>1. CASE GoTo("cmd", "read") /\ job' = [job EXCEPT !["cmd"] = blockedChat]
      BY <1>1, <1>7, <2>1, <3>1, GoToType
    <3>2. CASE GoTo("cmd", "interrupt") /\ UNCHANGED job
      BY <1>1, <1>7, <2>1, <3>2, GoOnType
    <3>3. CASE Leave("cmd")
      BY <1>1, <2>1, <3>3, LeaveType
    <3> QED
      BY <1>11, <3>1, <3>2, <3>3 DEF RunCancel
  <2> QED
    BY <1>11, <2>2, Kept DEF RunCancel, TypeInv, TypeOK
<1>12. CASE ReadFailed \/ Interrupted \/ ApproveSettled
  <2>1. pc["cmd"] # "idle" /\ Leave("cmd") /\ UNCHANGED <<workbenchVars, nativeVars, userVars>>
    BY <1>12 DEF ReadFailed, Interrupted, ApproveSettled
  <2>2. (ChainTypeOK /\ Placed)'
    BY <1>1, <2>1, LeaveType
  <2> QED
    BY <2>1, <2>2, Kept DEF TypeInv, TypeOK
<1>13. CASE ReadIdle \/ ReadInProgress
  <2>1. /\ pc["cmd"] = "read" /\ UNCHANGED job /\ UNCHANGED nativeVars /\ UNCHANGED userVars
        /\ \E point \in {"abandon", "reconcile"} : GoTo("cmd", point)
    BY <1>13 DEF ReadIdle, ReadInProgress
  <2>2. (ChainTypeOK /\ Placed)'
    BY <1>1, <1>3, <1>7, <2>1, GoOnType
  <2>3. chatQueue' \in Seq(Messages) /\ blockedChat' = NoMessage
    BY <1>13, <1>1, ShiftType DEF ReadIdle, ReadInProgress
  <2>4. activeTurnId' \in Nat
    BY <1>13, SMT DEF ReadIdle, ReadInProgress, RunningTurns, TypeInv, TypeOK, WorkbenchTypeOK, NativeTypeOK
  <2>5. WorkbenchTypeOK'
    BY <1>13, <2>3, <2>4 DEF ReadIdle, ReadInProgress, TypeInv, TypeOK, WorkbenchTypeOK
  <2> QED
    BY <2>1, <2>2, <2>5, Kept DEF TypeInv, TypeOK
<1>14. CASE Abandon \/ Reconcile
  <2>1. /\ pc["cmd"] \in {"abandon", "reconcile"}
        /\ UNCHANGED workbenchVars /\ UNCHANGED nativeVars
        /\ UNCHANGED <<submitted, receipt, handed, cancels, approvals, giveUps>>
    BY <1>14 DEF Abandon, Reconcile
  <2>2. (ChainTypeOK /\ Placed)'
    <3>1. FromQueue("cmd")
      BY <1>3, <2>1 DEF FromQueue
    <3>2. CASE DrainOrLeave("cmd")
      BY <1>1, <2>1, <3>1, <3>2, DrainType DEF workbenchVars
    <3>3. CASE Leave("cmd")
      BY <1>1, <2>1, <3>3, LeaveType
    <3>4. CASE GoTo("cmd", "interrupt") /\ UNCHANGED job
      BY <1>1, <1>3, <1>7, <2>1, <3>4, GoOnType
    <3> QED
      BY <1>14, <3>2, <3>3, <3>4 DEF Abandon, Reconcile
  <2>3. faults' \in 0..MaxFaults
    BY <1>14, <1>4 DEF Abandon, Reconcile
  <2>4. UserTypeOK'
    BY <2>1, <2>3 DEF TypeInv, TypeOK, UserTypeOK
  <2> QED
    BY <2>1, <2>2, <2>4, Kept DEF TypeInv, TypeOK
<1>15. CASE RunApprove
  <2>1. command.type # "send" /\ pc["cmd"] = "wait"
    BY <1>15 DEF RunApprove, Ready
  <2>2. (ChainTypeOK /\ Placed)'
    BY <1>15, <1>1, <1>7, <2>1, GoOnType, LeaveType DEF RunApprove
  <2> QED
    BY <1>15, <2>2, Kept DEF RunApprove, TypeInv, TypeOK
<1>16. CASE StartChatTurn("cmd")
  BY <1>1, <1>16, StartChatTurnType
<1> QED
  BY <1>8, <1>9, <1>10, <1>11, <1>12, <1>13, <1>14, <1>15, <1>16 DEF CommandStep

\* The other steps of the event chain.
LEMMA EventStepType == TypeInv /\ EventStep => TypeInv'
<1> SUFFICES ASSUME TypeInv, EventStep PROVE TypeInv'
  OBVIOUS
<1>1. /\ chatQueue \in Seq(Messages) /\ "evt" \in Chains /\ events \in Seq(Event)
      /\ activeTurnId \in Nat /\ terminalTurns \subseteq Nat \ {0}
      /\ job["evt"] \in Messages \union {NoMessage}
  BY DEF TypeInv, TypeOK, WorkbenchTypeOK, ChainTypeOK, Chains
<1>2. FromQueue("evt")
  BY DEF FromQueue
<1>3. pc["evt"] # "idle" => Head(events) \in Event
  BY <1>1, SeqTail DEF TypeInv, Placed
<1>4. \A S : Reconciled(activeTurnId, S) \in Nat
  BY <1>1 DEF Reconciled, NoTurn
<1>5. "resume" \in EventPoints \ {"idle"} /\ "append" \in EventPoints /\ "resume" \notin StartPoints
      /\ "resume" \notin {"enqueue", "thread", "read", "abandon", "reconcile"}
  BY SMT DEF EventPoints, StartPoints
<1> HIDE DEF EventPoints, StartPoints
<1>6. CASE TakeEvent
  <2>1. /\ pc' = [pc EXCEPT !["evt"] = "append"] /\ longer' = "cmd" /\ events # <<>>
        /\ UNCHANGED <<job, command, awaited, events>>
    BY <1>6 DEF TakeEvent
  <2>2. completedActive' \in BOOLEAN
    BY <1>6 DEF TakeEvent
  <2>3. /\ pc' \in [Chains -> CommandPoints \union EventPoints]
        /\ pc'["cmd"] \in CommandPoints /\ pc'["evt"] \in EventPoints
        /\ longer' \in Chains
    BY <1>1, <1>5, <2>1, SMT DEF TypeInv, TypeOK, ChainTypeOK, Chains
  <2>4. ChainTypeOK'
    BY <2>1, <2>2, <2>3 DEF TypeInv, TypeOK, ChainTypeOK
  <2>5. Placed'
    BY <2>1, SMT DEF TypeInv, TypeOK, ChainTypeOK, Placed, Chains, StartPoints
  <2> QED
    BY <1>6, <2>4, <2>5, Kept DEF TakeEvent, TypeInv, TypeOK
<1>7. ASSUME pc["evt"] \in {"append", "resume"}, Leave("evt") PROVE (ChainTypeOK /\ Placed)'
  BY <1>1, <1>7, LeaveType
<1>8. ASSUME pc["evt"] \in {"append", "resume"}, DrainOrLeave("evt"), chatQueue' = chatQueue
      PROVE  (ChainTypeOK /\ Placed)'
  BY <1>1, <1>2, <1>8, DrainType
<1>9. CASE DropEvent
  <2>1. events # <<>> /\ pc["evt"] = "idle"
    BY <1>9 DEF DropEvent
  <2>2. Tail(events) \in Seq(Event) /\ EventSettled \in Nat
    <3>1. awaited \in Nat
      BY DEF TypeInv, TypeOK, ChainTypeOK
    <3> QED
      BY <1>1, <2>1, <3>1, SeqTail, SMT DEF EventSettled
  <2>3. /\ pc' = [pc EXCEPT !["evt"] = "idle"] /\ job' = [job EXCEPT !["evt"] = 0]
        /\ longer' = "cmd" /\ command' = command /\ events' = Tail(events)
        /\ awaited' = EventSettled /\ completedActive' = FALSE
    BY <1>9 DEF DropEvent, Leave, Other, NoMessage
  <2>4. completedActive' \in BOOLEAN
    BY <2>3
  <2>5. /\ pc' \in [Chains -> CommandPoints \union EventPoints]
        /\ pc'["cmd"] \in CommandPoints /\ pc'["evt"] \in EventPoints
        /\ job' \in [Chains -> Messages \union {NoMessage}] /\ longer' \in Chains
    BY <2>3, SMT DEF TypeInv, TypeOK, ChainTypeOK, Chains, NoMessage, EventPoints
  <2>6. ChainTypeOK'
    BY <2>2, <2>3, <2>4, <2>5 DEF TypeInv, TypeOK, ChainTypeOK
  <2>7. Placed'
    BY <2>3, SMT DEF TypeInv, TypeOK, ChainTypeOK, Placed, Chains, StartPoints
  <2> QED
    BY <1>9, <2>6, <2>7, Kept DEF DropEvent, TypeInv, TypeOK
<1>10. CASE EventFault
  <2>1. UNCHANGED workbenchVars /\ UNCHANGED nativeVars /\ (ChainTypeOK /\ Placed)'
    BY <1>7, <1>10 DEF EventFault
  <2>2. faults' \in 0..MaxFaults
    BY <1>10, BoundsAssumption, SMT DEF EventFault, Fault, TypeInv, TypeOK, UserTypeOK
  <2>3. UserTypeOK'
    BY <1>10, <2>2 DEF EventFault, TypeInv, TypeOK, UserTypeOK
  <2> QED
    BY <2>1, <2>3, Kept DEF TypeInv, TypeOK
<1>11. CASE ApplyStarted
  <2>1. pc["evt"] = "append" /\ Head(events).type = "started" /\ Head(events).arg \in Nat
    BY <1>3, <1>11, SMT DEF ApplyStarted, InWork, Event
  <2>2. (ChainTypeOK /\ Placed)'
    BY <1>1, <1>5, <1>7, <1>11, <2>1, GoOnType DEF ApplyStarted
  <2>3. /\ activeTurnId' \in Nat /\ chatQueue' \in Seq(Messages)
        /\ blockedChat' \in Messages \union {NoMessage}
    BY <1>1, <1>4, <1>11, <2>1, ShiftType DEF ApplyStarted, TypeInv, TypeOK, WorkbenchTypeOK
  <2>4. WorkbenchTypeOK'
    BY <1>11, <2>3 DEF ApplyStarted, TypeInv, TypeOK, WorkbenchTypeOK
  <2> QED
    BY <1>11, <2>2, <2>4, Kept DEF ApplyStarted, TypeInv, TypeOK
<1>12. CASE ResumeRecorded
  <2>1. (ChainTypeOK /\ Placed)'
    BY <1>7, <1>12 DEF ResumeRecorded
  <2>2. WorkbenchTypeOK'
    BY <1>4, <1>12 DEF ResumeRecorded, TypeInv, TypeOK, WorkbenchTypeOK
  <2> QED
    BY <1>12, <2>1, <2>2, Kept DEF ResumeRecorded, TypeInv, TypeOK
<1>13. CASE ApplyEnded
  <2>1. /\ pc["evt"] = "append" /\ Head(events).type = "ended" /\ Head(events).arg \in Nat \ {0}
        /\ chatQueue' = chatQueue
    BY <1>3, <1>13, SMT DEF ApplyEnded, InWork, Event
  <2>2. (ChainTypeOK /\ Placed)'
    BY <1>7, <1>8, <1>13, <2>1 DEF ApplyEnded
  <2>3. terminalTurns' \subseteq Nat \ {0} /\ activeTurnId' \in Nat
    BY <1>1, <1>4, <1>13, <2>1 DEF ApplyEnded
  <2>4. WorkbenchTypeOK'
    BY <1>13, <2>3 DEF ApplyEnded, TypeInv, TypeOK, WorkbenchTypeOK
  <2> QED
    BY <1>13, <2>2, <2>4, Kept DEF ApplyEnded, TypeInv, TypeOK
<1>14. CASE ApplyAsked
  <2>1. pc["evt"] = "append" /\ Head(events).arg \in Requests
    BY <1>3, <1>14, SMT DEF ApplyAsked, InWork, Event
  <2>2. (ChainTypeOK /\ Placed)'
    BY <1>7, <1>14, <2>1 DEF ApplyAsked
  <2>3. WorkbenchTypeOK'
    BY <1>4, <1>14, <2>1 DEF ApplyAsked, TypeInv, TypeOK, WorkbenchTypeOK
  <2> QED
    BY <1>14, <2>2, <2>3, Kept DEF ApplyAsked, TypeInv, TypeOK
<1>15. CASE ApplyResolved
  <2>1. pc["evt"] = "append" /\ chatQueue' = chatQueue
    BY <1>15 DEF ApplyResolved, InWork
  <2>2. (ChainTypeOK /\ Placed)'
    BY <1>7, <1>8, <1>15, <2>1 DEF ApplyResolved
  <2>3. WorkbenchTypeOK'
    BY <1>4, <1>15 DEF ApplyResolved, TypeInv, TypeOK, WorkbenchTypeOK
  <2> QED
    BY <1>15, <2>2, <2>3, Kept DEF ApplyResolved, TypeInv, TypeOK
<1>16. CASE StartChatTurn("evt")
  BY <1>1, <1>16, StartChatTurnType
<1> QED
  BY <1>6, <1>9, <1>10, <1>11, <1>12, <1>13, <1>14, <1>15, <1>16 DEF EventStep

\* The steps of the native harness.
LEMMA NativeStepType == TypeInv /\ NativeStep => TypeInv'
<1> SUFFICES ASSUME TypeInv, NativeStep PROVE TypeInv'
  OBVIOUS
<1>1. /\ turns \in Seq(Turn) /\ answer \in [Chains -> Nat] /\ limbo \subseteq Messages
      /\ asked \subseteq Requests /\ events \in Seq(Event)
  BY DEF TypeInv, TypeOK, NativeTypeOK, ChainTypeOK
<1>2. ASSUME NEW e \in Event, events' = events \/ events' = Append(events, e),
             UNCHANGED <<pc, job, command, awaited, completedActive, longer>>
      PROVE  (ChainTypeOK /\ Placed)'
  <2>1. events' \in Seq(Event) /\ (events # <<>> => events' # <<>>)
    BY <1>1, <1>2
  <2>2. ChainTypeOK'
    BY <1>2, <2>1 DEF TypeInv, TypeOK, ChainTypeOK
  <2>3. Placed'
    BY <1>2, <2>1 DEF TypeInv, Placed
  <2> QED
    BY <2>2, <2>3
<1>3. ASSUME NEW m \in Messages \union {NoMessage}, NewTurn(m) PROVE turns' \in Seq(Turn)
  <2>1. [message |-> m, announced |-> FALSE, ended |-> FALSE] \in Turn
    BY DEF Turn
  <2> HIDE DEF Turn
  <2> QED
    BY <1>1, <1>3, <2>1 DEF NewTurn
<1>4. ASSUME NEW p \in Chains, Receive(p) PROVE TypeInv'
  <2>1. job[p] \in Messages \union {NoMessage}
    BY DEF TypeInv, TypeOK, ChainTypeOK
  <2>2. turns' \in Seq(Turn)
    BY <1>3, <1>4, <2>1 DEF Receive
  <2>3. answer' \in [Chains -> Nat]
    <3>1. Len(turns) + 1 \in Nat
      BY <1>1
    <3> QED
      BY <1>1, <1>4, <3>1, ExceptType DEF Receive
  <2> QED
    BY <1>4, <2>2, <2>3, Kept DEF Receive, chainVars, TypeInv, TypeOK, NativeTypeOK
<1>5. ASSUME NEW m \in Messages, ReceiveLate(m) PROVE TypeInv'
  <2>1. turns' \in Seq(Turn) /\ limbo' \subseteq Messages
    BY <1>1, <1>3, <1>5 DEF ReceiveLate
  <2> QED
    BY <1>5, <2>1, Kept DEF ReceiveLate, chainVars, TypeInv, TypeOK, NativeTypeOK
<1>6. ASSUME NEW t \in DOMAIN turns, Announce(t) \/ End(t) \/ Ask(t) PROVE TypeInv'
  <2>1. t \in Nat \ {0} /\ turns[t] \in Turn
    BY <1>1
  <2>2. [turns[t] EXCEPT !.announced = TRUE] \in Turn /\ [turns[t] EXCEPT !.ended = TRUE] \in Turn
    BY <2>1 DEF Turn
  <2>3. /\ [turns EXCEPT ![t].announced = TRUE] \in Seq(Turn)
        /\ [turns EXCEPT ![t].ended = TRUE] \in Seq(Turn)
    BY <1>1, <2>2
  <2>4. turns' \in Seq(Turn)
    BY <1>1, <1>6, <2>3 DEF Announce, End, Ask
  <2>5. /\ Ask(t) => approvals + 1 \in Requests /\ approvals' \in 0..MaxApprovals
        /\ ~Ask(t) => approvals' = approvals
    BY <1>6, BoundsAssumption, SMT DEF Ask, Announce, End, Requests, TypeInv, TypeOK, UserTypeOK, userVars
  <2>6. PICK type, arg : /\ [type |-> type, arg |-> arg] \in Event
                         /\ Notify(type, arg)
    BY <1>6, <2>1, <2>5 DEF Announce, End, Ask, Event
  <2>7. UNCHANGED workbenchVars /\ (ChainTypeOK /\ Placed)'
    BY <1>2, <2>6 DEF Notify
  <2>8. NativeTypeOK'
    BY <1>6, <2>4, <2>5 DEF Announce, End, Ask, TypeInv, TypeOK, NativeTypeOK
  <2>9. UserTypeOK'
    BY <1>6, <2>5 DEF Announce, End, Ask, TypeInv, TypeOK, UserTypeOK, userVars
  <2> QED
    BY <2>7, <2>8, <2>9, Kept DEF TypeInv, TypeOK
<1>7. ASSUME NEW r \in asked, Resolve(r) PROVE TypeInv'
  <2>1. [type |-> "resolved", arg |-> r] \in Event
    BY <1>1, <1>7 DEF Event
  <2>2. UNCHANGED workbenchVars /\ (ChainTypeOK /\ Placed)'
    BY <1>2, <1>7, <2>1 DEF Resolve, Notify
  <2>3. NativeTypeOK'
    BY <1>7 DEF Resolve, TypeInv, TypeOK, NativeTypeOK
  <2> QED
    BY <1>7, <2>2, <2>3, Kept DEF Resolve, TypeInv, TypeOK
<1> QED
  BY <1>4, <1>5, <1>6, <1>7 DEF NativeStep

\* TypeInv is inductive.
LEMMA NextType == TypeInv /\ [Next]_vars => TypeInv'
<1> SUFFICES ASSUME TypeInv, [Next]_vars PROVE TypeInv'
  OBVIOUS
<1>1. CASE Close \/ Closed
  <2>1. WorkbenchTypeOK'
    BY <1>1 DEF Close, Closed, TypeInv, TypeOK, WorkbenchTypeOK
  <2> QED
    BY <1>1, <2>1, Kept DEF Close, Closed, chainVars, TypeInv, TypeOK
<1>2. CASE UNCHANGED vars
  BY <1>2, Kept DEF vars, chainVars, TypeInv, TypeOK
<1> QED
  BY <1>1, <1>2, DispatchType, CommandStepType, EventStepType, NativeStepType DEF Next

\* Every variable keeps its type, and the chains stand where their work is.
THEOREM TypeCorrect == Spec => []TypeInv
<1>1. Init => TypeInv
  BY InitType
<1>2. TypeInv /\ [Next]_vars => TypeInv'
  BY NextType
<1> QED
  BY <1>1, <1>2, PTL DEF Spec

\* Every variable of the model has its type in every state, whatever the bounds
\* and the modes of the harness: the type invariant of the fields of ProjectWorkbench.
THEOREM TypesHold == Spec => []TypeOK
<1>1. TypeInv => TypeOK
  BY DEF TypeInv
<1> QED
  BY <1>1, TypeCorrect, PTL

-----------------------------------------------------------------------------
(* The safety of the queue and of the answers.                             *)

\* What has been handed to the harness: all that is past native.startTurn.
HandedOver ==
  /\ \A p \in Chains :
       pc[p] \in {"handed", "started", "refused", "uncertain"} => job[p] \in handed
  /\ pc["cmd"] = "read" => job["cmd"] \in handed
  /\ blockedChat # NoMessage => blockedChat \in handed

\* The queue is in the order of dispatch, behind what the chains work on and
\* before the message still being sent.
Sorted(q) == \A i, j \in DOMAIN q : i < j => q[i] < q[j]

QueueOrdered ==
  /\ Sorted(chatQueue)
  /\ \A m \in Range(chatQueue) : m <= submitted
  /\ \A p \in Chains : job[p] <= submitted
  /\ \A m \in handed : m <= submitted
  /\ command.type = "send" =>
       /\ command.arg <= submitted
       /\ job["evt"] < command.arg
       /\ \A m \in Range(chatQueue) : m < command.arg
       /\ pc["cmd"] \in {"thread", "record"} => chatQueue = <<>>
  /\ \A p \in Chains : pc[p] = "record" => \A m \in Range(chatQueue) : job[p] <= m

SafetyInv == TypeInv /\ HandedOver /\ QueueOrdered /\ QueuedNotLost

-----------------------------------------------------------------------------
(* The queue.                                                              *)

\* A shift keeps every message but the one it names, and keeps the order.
LEMMA ShiftKeeps ==
  ASSUME NEW q \in Seq(Messages), NEW id, Sorted(q)
  PROVE  /\ Sorted(Shift(q, id))
         /\ Range(Shift(q, id)) \subseteq Range(q)
         /\ \A m \in Range(q) : m # id => m \in Range(Shift(q, id))
<1>1. CASE q # <<>> /\ Head(q) = id
  <2>1. Len(q) \in Nat \ {0} /\ Len(Tail(q)) = Len(q) - 1
    BY <1>1
  <2>2. \A i \in 1..Len(q) - 1 : Tail(q)[i] = q[i + 1]
    BY <1>1
  <2>3. Sorted(Tail(q))
    BY <2>1, <2>2 DEF Sorted
  <2>4. Range(Tail(q)) \subseteq Range(q)
    BY <2>1, <2>2 DEF Range
  <2>5. ASSUME NEW m \in Range(q), m # id PROVE m \in Range(Tail(q))
    <3>1. PICK i \in 1..Len(q) : m = q[i]
      BY DEF Range
    <3>2. i # 1
      BY <1>1, <2>5, <3>1
    <3>3. i - 1 \in 1..Len(Tail(q)) /\ Tail(q)[i - 1] = q[i]
      BY <2>1, <2>2, <3>1, <3>2
    <3>4. i - 1 \in DOMAIN Tail(q)
      BY <1>1, <3>3
    <3> HIDE DEF Messages
    <3> QED
      BY <3>1, <3>3, <3>4, Zenon DEF Range
  <2> QED
    BY <1>1, <2>3, <2>4, <2>5 DEF Shift
<1>2. CASE ~(q # <<>> /\ Head(q) = id)
  BY <1>2 DEF Shift
<1> QED
  BY <1>1, <1>2

\* A push keeps every message, and the order if the new one is the youngest.
LEMMA AppendKeeps ==
  ASSUME NEW q \in Seq(Messages), NEW m \in Messages, Sorted(q), \A n \in Range(q) : n < m
  PROVE  Sorted(Append(q, m)) /\ Range(Append(q, m)) = Range(q) \union {m}
<1>1. /\ Len(q) \in Nat /\ Len(Append(q, m)) = Len(q) + 1
      /\ \A i \in 1..Len(q) : Append(q, m)[i] = q[i]
      /\ Append(q, m)[Len(q) + 1] = m
  OBVIOUS
<1>2. \A i \in 1..Len(q) : q[i] < m
  BY DEF Range
<1>3. Sorted(Append(q, m))
  BY <1>1, <1>2 DEF Sorted
<1>4. Range(Append(q, m)) = Range(q) \union {m}
  BY <1>1 DEF Range
<1> QED
  BY <1>3, <1>4

\* The head of an ordered queue is the oldest message in it.
LEMMA HeadIsLeast ==
  ASSUME NEW q \in Seq(Messages), q # <<>>, Sorted(q)
  PROVE  Head(q) \in Range(q) /\ \A m \in Range(q) : Head(q) <= m
<1>1. Len(q) \in Nat \ {0} /\ Head(q) = q[1] /\ \A i \in 1..Len(q) : q[i] \in Nat
  BY BoundsAssumption DEF Messages
<1> QED
  BY <1>1 DEF Sorted, Range

-----------------------------------------------------------------------------
(* What a step may do to the queue, to the receipts and to what is handed. *)

\* The command chain puts the message of its command at the end of the queue, and
\* says so.
Push ==
  /\ pc["cmd"] = "enqueue" /\ Leave("cmd") /\ Reply("cmd", "queued")
  /\ chatQueue' = Append(chatQueue, job["cmd"])
  /\ UNCHANGED <<submitted, handed, blockedChat>>

\* A step leaves chatQueue alone, pushes the message of the command, or shifts one
\* that was handed over.
LEMMA QueueEffect ==
  ASSUME TypeInv, HandedOver, [Next]_vars
  PROVE  \/ chatQueue' = chatQueue
         \/ \E id \in handed : chatQueue' = Shift(chatQueue, id)
         \/ Push
<1>1. ASSUME NEW p \in Chains, StartChatTurn(p)
      PROVE  chatQueue' = chatQueue \/ \E id \in handed : chatQueue' = Shift(chatQueue, id)
  <2>1. CASE Record(p) \/ SettleStarted(p) \/ Refused(p) \/ GiveUp(p)
    BY <2>1 DEF Record, SettleStarted, Refused, GiveUp, workbenchVars
  <2>2. CASE Answered(p) \/ SettleRefused(p) \/ SettleUncertain(p)
    BY <2>2 DEF Answered, SettleRefused, SettleUncertain, HandedOver
  <2> QED
    BY <1>1, <2>1, <2>2 DEF StartChatTurn
<1>2. CASE Dispatch
  BY <1>2 DEF Dispatch, DispatchSend, DispatchCancel, DispatchApprove, DispatchWhenClosed,
              Begin, workbenchVars
<1>3. CASE Close \/ Closed \/ UNCHANGED vars
  BY <1>3 DEF Close, Closed, vars, workbenchVars
<1>4. CASE CommandStep
  <2>1. CASE Enqueue
    BY <2>1 DEF Enqueue, Push
  <2>2. CASE ReadIdle \/ ReadInProgress
    BY <2>2 DEF ReadIdle, ReadInProgress, HandedOver
  <2>3. CASE StartChatTurn("cmd")
    BY <1>1, <2>3 DEF Chains
  <2> QED
    BY <1>4, <2>1, <2>2, <2>3 DEF CommandStep, RunSend, StartThread, RunCancel, ReadFailed,
       Abandon, Reconcile, Interrupted, RunApprove, ApproveSettled, workbenchVars
<1>5. CASE EventStep
  <2>1. CASE ApplyStarted
    BY <2>1 DEF ApplyStarted, HandedOver
  <2>2. CASE StartChatTurn("evt")
    BY <1>1, <2>2 DEF Chains
  <2> QED
    BY <1>5, <2>1, <2>2 DEF EventStep, TakeEvent, DropEvent, EventFault, ResumeRecorded,
       ApplyEnded, ApplyAsked, ApplyResolved, workbenchVars
<1>6. CASE NativeStep
  BY <1>6 DEF NativeStep, Receive, ReceiveLate, Announce, End, Ask, Resolve, Notify, workbenchVars
<1> QED
  BY <1>2, <1>3, <1>4, <1>5, <1>6 DEF Next

\* What is handed over stays so, and only Record hands something over.
LEMMA HandedEffect ==
  ASSUME [Next]_vars
  PROVE  \/ handed' = handed
         \/ \E p \in Chains : Record(p) /\ handed' = handed \union {job[p]}
<1>1. ASSUME NEW p \in Chains, StartChatTurn(p)
      PROVE  handed' = handed \/ (Record(p) /\ handed' = handed \union {job[p]})
  BY <1>1 DEF StartChatTurn, Record, SettleStarted, Refused, GiveUp, Answered, SettleRefused,
              SettleUncertain, userVars
<1>2. CASE Dispatch \/ Close \/ Closed \/ UNCHANGED vars
  BY <1>2 DEF Dispatch, DispatchSend, DispatchCancel, DispatchApprove, DispatchWhenClosed,
              Begin, Close, Closed, vars, userVars
<1>3. CASE CommandStep
  BY <1>1, <1>3 DEF CommandStep, RunSend, StartThread, RunCancel, ReadFailed, Enqueue, ReadIdle,
     ReadInProgress, Abandon, Reconcile, Interrupted, RunApprove, ApproveSettled, userVars, Chains
<1>4. CASE EventStep
  BY <1>1, <1>4 DEF EventStep, TakeEvent, DropEvent, EventFault, ApplyStarted, ResumeRecorded,
     ApplyEnded, ApplyAsked, ApplyResolved, userVars, Chains
<1>5. CASE NativeStep
  BY <1>5 DEF NativeStep, Receive, ReceiveLate, Announce, End, Ask, Resolve, userVars
<1> QED
  BY <1>2, <1>3, <1>4, <1>5 DEF Next

\* Only Enqueue promises a place in the queue, and it makes the place.
LEMMA ReceiptEffect ==
  ASSUME TypeInv, [Next]_vars, NEW m \in Messages, receipt'[m] = "queued"
  PROVE  \/ receipt[m] = "queued"
         \/ chatQueue' = Append(chatQueue, m)
<1>1. receipt \in [Messages -> Receipts]
  BY DEF TypeInv, TypeOK, UserTypeOK
<1>2. ASSUME NEW p, NEW r \in {"accepted", "rejected", "uncertain"}, Reply(p, r)
      PROVE  receipt[m] = "queued"
  BY <1>1, <1>2 DEF Reply
<1>3. CASE receipt' = receipt
  BY <1>3
<1>4. ASSUME NEW p \in Chains, StartChatTurn(p)
      PROVE  receipt[m] = "queued"
  BY <1>2, <1>3, <1>4 DEF StartChatTurn, Record, SettleStarted, Refused, GiveUp, Answered,
                          SettleRefused, SettleUncertain, userVars
<1>5. CASE Dispatch \/ Close \/ Closed \/ UNCHANGED vars
  BY <1>1, <1>5 DEF Dispatch, DispatchSend, DispatchCancel, DispatchApprove, DispatchWhenClosed,
              Begin, Close, Closed, vars, userVars
<1>6. CASE CommandStep
  <2>1. CASE Enqueue
    <3>1. job["cmd"] = command.arg
      BY <2>1 DEF Enqueue, TypeInv, Placed
    <3> QED
      BY <1>1, <1>2, <2>1, <3>1 DEF Enqueue, Reply
  <2> QED
    BY <1>2, <1>3, <1>4, <1>6, <2>1 DEF CommandStep, RunSend, StartThread, RunCancel, ReadFailed,
       ReadIdle, ReadInProgress, Abandon, Reconcile, Interrupted, RunApprove, ApproveSettled,
       userVars, Chains
<1>7. CASE EventStep
  BY <1>3, <1>4, <1>7 DEF EventStep, TakeEvent, DropEvent, EventFault, ApplyStarted, ResumeRecorded,
     ApplyEnded, ApplyAsked, ApplyResolved, userVars, Chains
<1>8. CASE NativeStep
  BY <1>3, <1>8 DEF NativeStep, Receive, ReceiveLate, Announce, End, Ask, Resolve, userVars
<1> QED
  BY <1>5, <1>6, <1>7, <1>8 DEF Next

-----------------------------------------------------------------------------
(* How a step moves a chain.                                               *)

\* Settled, or on to the next message of the queue.
Drained(p) ==
  \/ /\ pc' = [pc EXCEPT ![p] = "idle"] /\ job' = [job EXCEPT ![p] = NoMessage]
     /\ command' = command \/ command' = NoCommand
  \/ /\ pc' = [pc EXCEPT ![p] = "record"] /\ job' = [job EXCEPT ![p] = Head(chatQueue')]
     /\ command' = command /\ chatQueue' # <<>> /\ FromQueue(p)

\* On to another await with the same message; handed over first where the new
\* await lies behind native.startTurn.
Moved(p) ==
  \E point \in CommandPoints \union EventPoints :
    /\ pc' = [pc EXCEPT ![p] = point] /\ job' = job /\ command' = command
    /\ point \in {"handed", "started", "refused", "uncertain"} => job[p] \in handed'
    /\ point = "read" => FALSE
    /\ point \in {"thread", "record"} =>
         p = "cmd" /\ pc[p] = "thread" /\ command.type = "send" /\ chatQueue' = chatQueue

Unmoved == pc' = pc /\ job' = job /\ command' = command

\* dispatch hands the command chain a new command.
Taken ==
  /\ pc' = [pc EXCEPT !["cmd"] = "wait"] /\ job' = job /\ chatQueue' = chatQueue
  /\ \/ command'.type # "send" /\ submitted' = submitted
     \/ command'.arg = submitted + 1 /\ submitted' = submitted + 1

\* sendChat begins, with the message of its command.
Begun ==
  /\ command' = command /\ command.type = "send" /\ chatQueue' = chatQueue
  /\ job' = [job EXCEPT !["cmd"] = command.arg] /\ submitted' = submitted
  /\ \/ pc' = [pc EXCEPT !["cmd"] = "enqueue"]
     \/ /\ pc' = [pc EXCEPT !["cmd"] = "thread"] \/ pc' = [pc EXCEPT !["cmd"] = "record"]
        /\ chatQueue = <<>>

\* cancelChat asks about the message it cannot be sure of.
Asked ==
  /\ command' = command /\ command.type = "cancel" /\ chatQueue' = chatQueue
  /\ blockedChat # NoMessage /\ job' = [job EXCEPT !["cmd"] = blockedChat]
  /\ pc' = [pc EXCEPT !["cmd"] = "read"]

\* Settling, drainChatQueue and its catch clause do no more than Drained says.
LEMMA DrainedBy ==
  ASSUME NEW p \in Chains, Leave(p) \/ (DrainOrLeave(p) /\ FromQueue(p)) \/ GoOnOrLeave(p)
  PROVE  Drained(p)
  BY DEF Leave, GoTo, DrainOrLeave, GoOnOrLeave, Drained, Chains

\* What makes a step a move of one chain to another await.
LEMMA MovedBy ==
  ASSUME NEW p \in Chains, NEW point \in CommandPoints \union EventPoints,
         pc' = [pc EXCEPT ![p] = point], job' = job, command' = command,
         point \in {"handed", "started", "refused", "uncertain"} => job[p] \in handed',
         point \notin {"read", "thread", "record"}
  PROVE  Moved(p)
  BY DEF Moved

\* The awaits of the two chains differ.
LEMMA Points ==
  /\ {"handed", "started", "refused", "uncertain", "abandon", "reconcile", "interrupt",
      "approve", "record", "append", "resume"} \subseteq CommandPoints \union EventPoints
  /\ "cmd" \in Chains /\ "evt" \in Chains
  BY DEF CommandPoints, EventPoints, StartPoints, Chains

\* What a step can do to a chain: nothing, another await, a new message, or rest.
LEMMA ChainEffect ==
  ASSUME TypeInv, HandedOver, [Next]_vars
  PROVE  \/ Taken
         \/ /\ submitted' = submitted \/ (submitted' = submitted + 1 /\ Unmoved)
            /\ \/ Unmoved \/ Begun \/ Asked
               \/ \E p \in Chains : Drained(p) \/ Moved(p)
<1>1. ASSUME NEW p \in Chains, StartChatTurn(p)
      PROVE  submitted' = submitted /\ (Drained(p) \/ Moved(p))
  <2>4. submitted' = submitted
    BY <1>1 DEF StartChatTurn, Record, SettleStarted, Refused, GiveUp, Answered, SettleRefused,
                SettleUncertain, userVars
  <2>1. CASE Record(p)
    <3>1. CASE GoTo(p, "handed") /\ job' = job /\ handed' = handed \union {job[p]}
      BY <2>4, <3>1, MovedBy, Points DEF GoTo
    <3>2. CASE GoOnOrLeave(p)
      BY <2>4, <3>2, DrainedBy
    <3> QED
      BY <2>1, <3>1, <3>2 DEF Record
  <2>2. CASE Answered(p) \/ Refused(p) \/ GiveUp(p)
    <3>1. PICK point \in {"started", "refused", "uncertain"} : GoTo(p, point)
      BY <2>2 DEF Answered, Refused, GiveUp
    <3>2. pc[p] = "handed" /\ job[p] \in handed /\ job' = job /\ handed' = handed
          /\ submitted' = submitted
      BY <2>2 DEF Answered, Refused, GiveUp, HandedOver, userVars
    <3> QED
      BY <3>1, <3>2, MovedBy, Points DEF GoTo
  <2>3. CASE SettleStarted(p) \/ SettleRefused(p) \/ SettleUncertain(p)
    <3>1. (Leave(p) \/ GoOnOrLeave(p)) /\ submitted' = submitted
      BY <2>3 DEF SettleStarted, SettleRefused, SettleUncertain
    <3> QED
      BY <3>1, DrainedBy
  <2> QED
    BY <1>1, <2>1, <2>2, <2>3, <2>4 DEF StartChatTurn
<1>2. CASE Dispatch
  <2>1. CASE DispatchWhenClosed
    BY <2>1 DEF DispatchWhenClosed, chainVars, Unmoved
  <2>2. CASE DispatchSend
    BY <2>2 DEF DispatchSend, Begin, Taken, workbenchVars
  <2>3. CASE DispatchCancel \/ DispatchApprove
    BY <2>3 DEF DispatchCancel, DispatchApprove, Begin, Taken, workbenchVars
  <2> QED
    BY <1>2, <2>1, <2>2, <2>3 DEF Dispatch
<1>3. CASE Close \/ Closed \/ UNCHANGED vars
  BY <1>3 DEF Close, Closed, vars, chainVars, userVars, Unmoved
<1>4. CASE CommandStep
  <2>1. CASE RunSend
    BY <2>1 DEF RunSend, Ready, Busy, GoTo, Begun, workbenchVars, userVars
  <2>2. CASE StartThread
    <3>1. submitted' = submitted /\ chatQueue' = chatQueue /\ pc["cmd"] = "thread"
          /\ command.type = "send"
      BY <2>2 DEF StartThread, TypeInv, Placed
    <3>2. CASE GoTo("cmd", "record") /\ job' = job
      BY <3>1, <3>2 DEF GoTo, Moved, CommandPoints, StartPoints, Chains
    <3>3. CASE Leave("cmd")
      BY <3>1, <3>3, DrainedBy DEF Chains
    <3> QED
      BY <2>2, <3>2, <3>3 DEF StartThread
  <2>3. CASE RunCancel
    <3>1. submitted' = submitted /\ command.type = "cancel" /\ chatQueue' = chatQueue
      BY <2>3 DEF RunCancel, Ready, userVars, workbenchVars
    <3>2. CASE blockedChat # NoMessage /\ GoTo("cmd", "read")
               /\ job' = [job EXCEPT !["cmd"] = blockedChat]
      BY <3>1, <3>2 DEF GoTo, Asked
    <3>3. CASE GoTo("cmd", "interrupt") /\ job' = job
      BY <3>1, <3>3, MovedBy, Points DEF GoTo
    <3>4. CASE Leave("cmd")
      BY <3>1, <3>4, DrainedBy DEF Chains
    <3> QED
      BY <2>3, <3>2, <3>3, <3>4 DEF RunCancel
  <2>4. CASE Enqueue \/ ReadFailed \/ Interrupted \/ ApproveSettled
    <3>1. Leave("cmd") /\ submitted' = submitted
      BY <2>4 DEF Enqueue, ReadFailed, Interrupted, ApproveSettled, userVars
    <3> QED
      BY <3>1, DrainedBy DEF Chains
  <2>5. CASE ReadIdle \/ ReadInProgress \/ Reconcile \/ RunApprove
    <3>1. submitted' = submitted
      BY <2>5 DEF ReadIdle, ReadInProgress, Reconcile, RunApprove, userVars
    <3>2. ASSUME NEW point \in {"abandon", "reconcile", "interrupt", "approve"},
                 GoTo("cmd", point), job' = job
          PROVE  submitted' = submitted /\ Moved("cmd")
      BY <3>1, <3>2, MovedBy, Points DEF GoTo
    <3>3. CASE Leave("cmd")
      BY <3>1, <3>3, DrainedBy, Points
    <3>4. \/ Leave("cmd")
          \/ \E point \in {"abandon", "reconcile", "interrupt", "approve"} :
               GoTo("cmd", point) /\ job' = job
      BY <2>5 DEF ReadIdle, ReadInProgress, Reconcile, RunApprove
    <3> QED
      BY <3>2, <3>3, <3>4, Points
  <2>6. CASE Abandon
    <3>1. FromQueue("cmd") /\ submitted' = submitted
      BY <2>6 DEF Abandon, FromQueue, TypeInv, Placed
    <3> QED
      BY <2>6, <3>1, DrainedBy DEF Abandon, Chains
  <2>7. CASE StartChatTurn("cmd")
    BY <1>1, <2>7 DEF Chains
  <2> QED
    BY <1>4, <2>1, <2>2, <2>3, <2>4, <2>5, <2>6, <2>7 DEF CommandStep
<1>5. CASE EventStep
  <2>1. CASE TakeEvent
    BY <2>1, MovedBy, Points DEF TakeEvent, userVars
  <2>2. CASE ApplyStarted
    <3>1. submitted' = submitted
      BY <2>2 DEF ApplyStarted, userVars
    <3>2. CASE GoTo("evt", "resume") /\ job' = job
      BY <3>1, <3>2, MovedBy, Points DEF GoTo
    <3>3. CASE Leave("evt")
      BY <3>1, <3>3, DrainedBy DEF Chains
    <3> QED
      BY <2>2, <3>2, <3>3 DEF ApplyStarted
  <2>3. CASE \/ DropEvent \/ EventFault \/ ResumeRecorded \/ ApplyAsked \/ ApplyEnded
             \/ ApplyResolved
    <3>1. (Leave("evt") \/ DrainOrLeave("evt")) /\ submitted' = submitted
      BY <2>3 DEF DropEvent, EventFault, ResumeRecorded, ApplyAsked, ApplyEnded, ApplyResolved,
         userVars
    <3>2. FromQueue("evt")
      BY DEF FromQueue
    <3> QED
      BY <3>1, <3>2, DrainedBy DEF Chains
  <2>4. CASE StartChatTurn("evt")
    BY <1>1, <2>4 DEF Chains
  <2> QED
    BY <1>5, <2>1, <2>2, <2>3, <2>4 DEF EventStep
<1>6. CASE NativeStep
  BY <1>6 DEF NativeStep, Receive, ReceiveLate, Announce, End, Ask, Resolve, Notify, chainVars,
              userVars, Unmoved
<1> QED
  BY <1>2, <1>3, <1>4, <1>5, <1>6 DEF Next

\* Only a message that was handed over becomes the uncertain one.
LEMMA BlockedEffect ==
  ASSUME HandedOver, [Next]_vars
  PROVE  blockedChat' \in {blockedChat, NoMessage} \union handed
<1>1. ASSUME NEW p \in Chains, StartChatTurn(p)
      PROVE  blockedChat' \in {blockedChat, NoMessage} \union handed
  <2>1. CASE GiveUp(p)
    BY <2>1 DEF GiveUp, HandedOver
  <2> QED
    BY <1>1, <2>1 DEF StartChatTurn, Record, SettleStarted, Refused, Answered, SettleRefused,
                      SettleUncertain, workbenchVars
<1>2. CASE Dispatch \/ Close \/ Closed \/ UNCHANGED vars
  BY <1>2 DEF Dispatch, DispatchSend, DispatchCancel, DispatchApprove, DispatchWhenClosed,
              Begin, Close, Closed, vars, workbenchVars
<1>3. CASE CommandStep
  BY <1>1, <1>3 DEF CommandStep, RunSend, StartThread, RunCancel, ReadFailed, Enqueue, ReadIdle,
     ReadInProgress, Abandon, Reconcile, Interrupted, RunApprove, ApproveSettled, workbenchVars,
     Chains
<1>4. CASE EventStep
  BY <1>1, <1>4 DEF EventStep, TakeEvent, DropEvent, EventFault, ApplyStarted, ResumeRecorded,
     ApplyEnded, ApplyAsked, ApplyResolved, workbenchVars, Chains
<1>5. CASE NativeStep
  BY <1>5 DEF NativeStep, Receive, ReceiveLate, Announce, End, Ask, Resolve, Notify, workbenchVars
<1> QED
  BY <1>2, <1>3, <1>4, <1>5 DEF Next

-----------------------------------------------------------------------------
(* The invariant.                                                          *)

\* A chain that waits for the answer of the harness has handed its message over.
LEMMA HandedOverKept == TypeInv /\ HandedOver /\ [Next]_vars => HandedOver'
<1> SUFFICES ASSUME TypeInv, HandedOver, [Next]_vars PROVE HandedOver'
  OBVIOUS
<1>1. handed \subseteq handed'
  BY HandedEffect
<1>2. blockedChat' # NoMessage => blockedChat' \in handed'
  BY <1>1, BlockedEffect DEF HandedOver
<1>3. pc \in [Chains -> CommandPoints \union EventPoints] /\ job \in [Chains -> Messages \union {NoMessage}]
  BY DEF TypeInv, TypeOK, ChainTypeOK
<1> DEFINE Over(P, J, H) ==
      /\ \A p \in Chains : P[p] \in {"handed", "started", "refused", "uncertain"} => J[p] \in H
      /\ P["cmd"] = "read" => J["cmd"] \in H
<1>4. Over(pc, job, handed')
  BY <1>1 DEF HandedOver
<1>5. Over(pc', job', handed')
  <2>1. CASE Taken \/ Begun
    BY <1>3, <1>4, <2>1 DEF Taken, Begun, Chains
  <2>2. CASE Unmoved
    BY <1>4, <2>2 DEF Unmoved
  <2>3. CASE Asked
    <3>1. blockedChat \in handed'
      BY <1>1, <2>3 DEF Asked, HandedOver
    <3> QED
      BY <1>3, <1>4, <2>3, <3>1 DEF Asked, Chains
  <2>4. ASSUME NEW p \in Chains, Drained(p) PROVE Over(pc', job', handed')
    BY <1>3, <1>4, <2>4 DEF Drained, Chains
  <2>5. ASSUME NEW p \in Chains, Moved(p) PROVE Over(pc', job', handed')
    BY <1>3, <1>4, <2>5 DEF Moved, Chains
  <2> QED
    BY <2>1, <2>2, <2>3, <2>4, <2>5, ChainEffect
<1> QED
  BY <1>2, <1>5 DEF HandedOver

\* No step takes a queued message out of chatQueue before it was handed over.
LEMMA QueuedNotLostKept ==
  TypeInv /\ HandedOver /\ QueueOrdered /\ QueuedNotLost /\ [Next]_vars => QueuedNotLost'
<1> SUFFICES ASSUME TypeInv, HandedOver, QueueOrdered, QueuedNotLost, [Next]_vars,
                    NEW m \in Messages, receipt'[m] = "queued"
             PROVE  m \in Range(chatQueue') \union handed'
  BY DEF QueuedNotLost
<1>1. chatQueue \in Seq(Messages) /\ Sorted(chatQueue) /\ handed \subseteq handed'
  BY HandedEffect DEF TypeInv, TypeOK, WorkbenchTypeOK, QueueOrdered
<1>2. CASE chatQueue' = Append(chatQueue, m)
  <2>1. /\ Len(chatQueue) + 1 \in DOMAIN Append(chatQueue, m)
        /\ Append(chatQueue, m)[Len(chatQueue) + 1] = m
    BY <1>1
  <2> QED
    BY <1>2, <2>1, Zenon DEF Range
<1>3. CASE receipt[m] = "queued"
  <2>1. m \in Range(chatQueue) \union handed
    BY <1>3 DEF QueuedNotLost
  <2>2. CASE chatQueue' = chatQueue
    BY <1>1, <2>1, <2>2
  <2>3. ASSUME NEW id \in handed, chatQueue' = Shift(chatQueue, id)
        PROVE  m \in Range(chatQueue') \union handed'
    BY <1>1, <2>1, <2>3, ShiftKeeps
  <2>4. CASE Push
    <3>1. job["cmd"] \in Messages \union {NoMessage} /\ chatQueue' = Append(chatQueue, job["cmd"])
      BY <2>4 DEF Push, TypeInv, TypeOK, ChainTypeOK, Chains
    <3>2. \A i \in DOMAIN chatQueue : i \in DOMAIN chatQueue' /\ chatQueue'[i] = chatQueue[i]
      BY <1>1, <3>1
    <3> QED
      BY <1>1, <2>1, <3>2, Zenon DEF Range
  <2> QED
    BY <2>2, <2>3, <2>4, QueueEffect
<1> QED
  BY <1>2, <1>3, ReceiptEffect

\* chatQueue stays ordered by age, and older than what is still to be sent.
LEMMA QueueOrderedKept == TypeInv /\ HandedOver /\ QueueOrdered /\ [Next]_vars => QueueOrdered'
<1> SUFFICES ASSUME TypeInv, HandedOver, QueueOrdered, [Next]_vars PROVE QueueOrdered'
  OBVIOUS
<1>1. /\ chatQueue \in Seq(Messages) /\ chatQueue' \in Seq(Messages)
      /\ pc \in [Chains -> CommandPoints \union EventPoints]
      /\ job \in [Chains -> Messages \union {NoMessage}]
      /\ submitted \in Nat /\ handed \subseteq Messages
      /\ Chains = {"cmd", "evt"} /\ NoMessage = 0
  <2>1. TypeInv'
    BY NextType
  <2> QED
    BY <2>1, BoundsAssumption DEF TypeInv, TypeOK, WorkbenchTypeOK, ChainTypeOK, UserTypeOK, Chains,
       NoMessage
<1>2. \A m \in Messages : m \in Nat /\ 0 < m
  BY BoundsAssumption DEF Messages
<1>3. /\ command.type = "send" => command.arg \in Messages
      /\ NoCommand.type # "send"
  BY SMT DEF TypeInv, TypeOK, ChainTypeOK, Commands, NoCommand
<1>4. submitted' \in {submitted, submitted + 1}
  BY ChainEffect DEF Taken
<1>5. \A m \in handed' : m <= submitted'
  <2>1. \A m \in handed' : m \in Nat /\ m <= submitted
    BY <1>1, <1>2, HandedEffect DEF QueueOrdered
  <2> QED
    BY <1>1, <1>4, <2>1, SMT
<1>6. CASE Push
  <2>1. /\ command.type = "send" /\ job["cmd"] = command.arg
        /\ pc' = [pc EXCEPT !["cmd"] = "idle"] /\ job' = [job EXCEPT !["cmd"] = 0]
        /\ command' = NoCommand /\ chatQueue' = Append(chatQueue, job["cmd"])
        /\ submitted' = submitted
    BY <1>1, <1>6 DEF Push, Leave, TypeInv, Placed
  <2>2. Sorted(chatQueue') /\ Range(chatQueue') = Range(chatQueue) \union {job["cmd"]}
    BY <1>1, <1>3, <2>1, AppendKeeps DEF QueueOrdered
  <2>3. \A m \in Range(chatQueue') : m <= submitted'
    BY <2>1, <2>2 DEF QueueOrdered
  <2>4. \A p \in Chains : job'[p] <= submitted'
    BY <1>1, <2>1 DEF QueueOrdered
  <2>5. \A p \in Chains : pc'[p] = "record" => \A m \in Range(chatQueue') : job'[p] <= m
    <3>1. job["evt"] <= job["cmd"]
      BY <1>1, <1>2, <2>1 DEF QueueOrdered
    <3> QED
      BY <1>1, <2>1, <2>2, <3>1 DEF QueueOrdered
  <2> QED
    BY <1>3, <1>5, <2>1, <2>2, <2>3, <2>4, <2>5 DEF QueueOrdered
<1>7. CASE ~Push
  <2>1. /\ Sorted(chatQueue') /\ Range(chatQueue') \subseteq Range(chatQueue)
        /\ chatQueue = <<>> => chatQueue' = <<>>
    <3>1. CASE chatQueue' = chatQueue
      BY <3>1 DEF QueueOrdered
    <3>2. ASSUME NEW id \in handed, chatQueue' = Shift(chatQueue, id)
          PROVE  /\ Sorted(chatQueue') /\ Range(chatQueue') \subseteq Range(chatQueue)
                 /\ chatQueue = <<>> => chatQueue' = <<>>
      BY <1>1, <3>2, ShiftKeeps DEF QueueOrdered, Shift
    <3> QED
      BY <1>7, <3>1, <3>2, QueueEffect
  <2>2. \A m \in Range(chatQueue) : m \in Messages /\ m <= submitted
    BY <1>1 DEF QueueOrdered, Range
  <2>3. \A m \in Range(chatQueue') : m <= submitted'
    BY <1>1, <1>2, <1>4, <2>1, <2>2
  <2>4. \A p \in Chains : job[p] \in Nat /\ job[p] <= submitted /\ job[p] <= submitted'
    BY <1>1, <1>2, <1>4 DEF QueueOrdered
  <2>5. CASE Unmoved
    BY <1>5, <2>1, <2>3, <2>4, <2>5, <1>1, <1>2, <1>4, <1>3 DEF Unmoved, QueueOrdered
  <2>6. CASE Taken
    BY <1>1, <1>2, <1>3, <1>5, <2>1, <2>2, <2>3, <2>4, <2>6 DEF Taken, QueueOrdered
  <2>7. CASE Begun
    BY <1>1, <1>2, <1>3, <1>5, <2>1, <2>2, <2>3, <2>4, <2>7 DEF Begun, QueueOrdered, Range
  <2>8. CASE Asked
    BY <1>1, <1>2, <1>3, <1>4, <1>5, <2>1, <2>2, <2>3, <2>4, <2>8 DEF Asked, HandedOver, QueueOrdered
  <2>9. ASSUME NEW p \in Chains, Drained(p) PROVE QueueOrdered'
    <3>1. CASE /\ pc' = [pc EXCEPT ![p] = "idle"] /\ job' = [job EXCEPT ![p] = NoMessage]
               /\ command' = command \/ command' = NoCommand
      BY <1>1, <1>2, <1>3, <1>4, <1>5, <2>1, <2>2, <2>3, <2>4, <3>1 DEF QueueOrdered
    <3>2. CASE /\ pc' = [pc EXCEPT ![p] = "record"] /\ job' = [job EXCEPT ![p] = Head(chatQueue')]
               /\ command' = command /\ chatQueue' # <<>> /\ FromQueue(p)
      <4>1. /\ Head(chatQueue') \in Range(chatQueue') /\ Head(chatQueue') \in Range(chatQueue)
            /\ \A m \in Range(chatQueue') : Head(chatQueue') <= m
        BY <1>1, <2>1, <3>2, HeadIsLeast
      <4>2. p = "cmd" => command.type # "send"
        BY <3>2 DEF FromQueue
      <4> QED
        BY <1>1, <1>2, <1>3, <1>4, <1>5, <2>1, <2>2, <2>3, <2>4, <3>2, <4>1, <4>2 DEF QueueOrdered
    <3> QED
      BY <2>9, <3>1, <3>2 DEF Drained
  <2>10. ASSUME NEW p \in Chains, Moved(p) PROVE QueueOrdered'
    <3>1. PICK point : /\ pc' = [pc EXCEPT ![p] = point] /\ job' = job /\ command' = command
                       /\ point \in {"thread", "record"} =>
                            p = "cmd" /\ pc[p] = "thread" /\ command.type = "send"
      BY <2>10 DEF Moved
    <3>2. point \in {"thread", "record"} => chatQueue' = <<>> /\ Range(chatQueue') = {}
      BY <2>1, <3>1 DEF QueueOrdered, Range
    <3>3. \A q \in Chains : q # p => pc'[q] = pc[q]
      BY <1>1, <3>1
    <3>4. pc'[p] = point
      BY <1>1, <3>1
    <3>5. command'.type = "send" =>
            /\ command'.arg <= submitted' /\ job'["evt"] < command'.arg
            /\ \A m \in Range(chatQueue') : m < command'.arg
      BY <1>1, <1>2, <1>3, <1>4, <2>1, <3>1 DEF QueueOrdered
    <3>6. command'.type = "send" =>
            (pc'["cmd"] \in {"thread", "record"} => chatQueue' = <<>>)
      BY <1>1, <2>1, <3>1, <3>2, <3>3, <3>4 DEF QueueOrdered
    <3>7. \A q \in Chains : pc'[q] = "record" => \A m \in Range(chatQueue') : job'[q] <= m
      BY <2>1, <3>1, <3>2, <3>3, <3>4 DEF QueueOrdered
    <3> QED
      BY <1>5, <2>1, <2>3, <2>4, <3>1, <3>5, <3>6, <3>7 DEF QueueOrdered
  <2> QED
    BY <2>5, <2>6, <2>7, <2>8, <2>9, <2>10, ChainEffect
<1> QED
  BY <1>6, <1>7

\* A session starts with an empty queue.
LEMMA InitSafety == Init => SafetyInv
<1> SUFFICES ASSUME Init PROVE SafetyInv
  OBVIOUS
<1>1. HandedOver
  BY DEF Init, HandedOver, Chains, NoMessage
<1>2. QueueOrdered
  BY SMT DEF Init, QueueOrdered, Sorted, Range, Chains, NoMessage, NoCommand
<1>3. QueuedNotLost
  BY DEF Init, QueuedNotLost
<1> QED
  BY <1>1, <1>2, <1>3, InitType DEF SafetyInv

\* The invariant holds of every behaviour.
THEOREM Safety == Spec => []SafetyInv
<1>1. Init => SafetyInv
  BY InitSafety
<1>2. SafetyInv /\ [Next]_vars => SafetyInv'
  BY NextType, HandedOverKept, QueueOrderedKept, QueuedNotLostKept DEF SafetyInv
<1> QED
  BY <1>1, <1>2, PTL DEF Spec

\* No shift of the queue, on either chain, drops a message that was not handed over.
THEOREM NothingQueuedIsLost == Spec => []QueuedNotLost
<1>1. SafetyInv => QueuedNotLost
  BY DEF SafetyInv
<1> QED
  BY <1>1, Safety, PTL

\* Nothing goes out ahead of an older message that is still in the queue.
THEOREM InOrder == Spec => HandedInOrder
<1>1. SafetyInv /\ [Next]_vars
        => [\A p \in Chains : pc[p] = "record" /\ pc'[p] = "handed"
              => \A m \in Range(chatQueue) : job[p] <= m]_vars
  BY DEF SafetyInv, QueueOrdered
<1> QED
  BY <1>1, Safety, PTL DEF Spec, HandedInOrder

-----------------------------------------------------------------------------
(* Shutdown.                                                               *)

\* Nothing sets a chain to work once the workbench is closed.
LEMMA ClosedIsQuietKept == TypeInv /\ ClosedIsQuiet /\ [Next]_vars => ClosedIsQuiet'
<1> SUFFICES ASSUME TypeInv, ClosedIsQuiet, [Next]_vars, phase' = "closed"
             PROVE  (\A p \in Chains : pc[p] = "idle")' /\ events' = <<>> /\ command' = NoCommand
  BY DEF ClosedIsQuiet
<1>1. CASE phase = "closed"
  <2>1. /\ pc["cmd"] = "idle" /\ pc["evt"] = "idle" /\ events = <<>> /\ command = NoCommand
        /\ command.type = "none"
    BY <1>1 DEF ClosedIsQuiet, Chains, NoCommand
  <2>2. UNCHANGED <<pc, events, command>>
    <3>1. \A p \in Chains : ~StartChatTurn(p)
      BY <2>1 DEF Chains, StartChatTurn, Record, SettleStarted, Refused, GiveUp, Answered,
                  SettleRefused, SettleUncertain
    <3>2. ~CommandStep
      BY <2>1, <3>1 DEF CommandStep, RunSend, StartThread, RunCancel, ReadFailed, Enqueue, ReadIdle,
         ReadInProgress, Abandon, Reconcile, Interrupted, RunApprove, ApproveSettled, Ready, Chains
    <3>3. ~EventStep
      BY <2>1, <3>1 DEF EventStep, TakeEvent, DropEvent, EventFault, ApplyStarted, ResumeRecorded,
         ApplyEnded, ApplyAsked, ApplyResolved, InWork, Chains
    <3>4. CASE NativeStep
      BY <1>1, <3>4 DEF NativeStep, Receive, ReceiveLate, Announce, End, Ask, Resolve, Notify,
                        chainVars
    <3>5. CASE Dispatch
      BY <1>1, <3>5 DEF Dispatch, DispatchSend, DispatchCancel, DispatchApprove,
                        DispatchWhenClosed, Begin, chainVars
    <3>6. CASE Close \/ Closed \/ UNCHANGED vars
      BY <3>6 DEF Close, Closed, chainVars, vars
    <3> QED
      BY <3>2, <3>3, <3>4, <3>5, <3>6 DEF Next
  <2> QED
    BY <2>1, <2>2 DEF Chains
<1>2. CASE phase # "closed"
  <2>1. ASSUME NEW p \in Chains, StartChatTurn(p) PROVE phase' = phase
    BY <2>1 DEF StartChatTurn, Record, SettleStarted, Refused, GiveUp, Answered,
                SettleRefused, SettleUncertain, workbenchVars
  <2>2. CASE CommandStep
    BY <1>2, <2>1, <2>2 DEF CommandStep, RunSend, StartThread, RunCancel, ReadFailed, Enqueue,
       ReadIdle, ReadInProgress, Abandon, Reconcile, Interrupted, RunApprove, ApproveSettled,
       workbenchVars, Chains
  <2>3. CASE EventStep
    BY <1>2, <2>1, <2>3 DEF EventStep, TakeEvent, DropEvent, EventFault, ApplyStarted,
       ResumeRecorded, ApplyEnded, ApplyAsked, ApplyResolved, workbenchVars, Chains
  <2>4. CASE NativeStep
    BY <1>2, <2>4 DEF NativeStep, Receive, ReceiveLate, Announce, End, Ask, Resolve, Notify,
                      workbenchVars
  <2>5. CASE Dispatch \/ Close \/ UNCHANGED vars
    BY <1>2, <2>5 DEF Dispatch, DispatchSend, DispatchCancel, DispatchApprove,
                      DispatchWhenClosed, Begin, Close, vars, workbenchVars
  <2>6. CASE Closed
    BY <2>6 DEF Closed, chainVars, TypeInv, Placed, Chains
  <2> QED
    BY <2>2, <2>3, <2>4, <2>5, <2>6 DEF Next
<1> QED
  BY <1>1, <1>2

\* After close() has resolved, nothing is under way on either chain, for good.
THEOREM QuietOnceClosed == Spec => []ClosedIsQuiet
<1>1. Init => ClosedIsQuiet
  BY DEF Init, ClosedIsQuiet
<1> QED
  BY <1>1, ClosedIsQuietKept, TypeCorrect, PTL DEF Spec

-----------------------------------------------------------------------------
(* Receipts: what dispatch() answers is so.                                *)

\* What became of a message is told: it is to be sent, nobody knows, or the journal
\* failed after the harness had it.
Told(m) ==
  \/ receipt[m] \in {"queued", "uncertain"}
  \/ receipt[m] = "rejected" /\ faults > 0

\* The command chain sends m itself, and the harness may have it.
Sending(m) == command.type = "send" /\ command.arg = m

\* A receipt is given once, when its command settles.
ReceiptGivenOnce ==
  /\ \A m \in Messages : m > submitted => receipt[m] = "none"
  /\ command.type = "send" => receipt[command.arg] = "pending"

\* What waits in the queue, or is sent from it, is queued for the user; a command that
\* starts a turn without the queue is a send.
QueuedIsTold ==
  /\ \A m \in Range(chatQueue) : receipt[m] = "queued"
  /\ \A p \in Chains : pc[p] \in StartPoints =>
       IF FromQueue(p) THEN receipt[job[p]] = "queued" ELSE command.type = "send"
  /\ pc["cmd"] \in {"interrupt", "approve"} => command.type # "send"

\* The answer that is on its way to a chain is the turn of its message.
AnswerFits ==
  \A p \in Chains : answer[p] # NoTurn =>
    /\ pc[p] = "handed" /\ answer[p] \in DOMAIN turns
    /\ turns[answer[p]].message = job[p]

\* A message the harness has is told or accepted, or its send is still under way.
Accounted(m) ==
  \/ Told(m) \/ receipt[m] = "accepted"
  \/ Sending(m) /\ (pc["cmd"] \in {"started", "uncertain"} \/ answer["cmd"] # NoTurn)

\* A message the harness has, or may yet take, is told, or still being sent.
TakenIsTold ==
  /\ \A m \in limbo : Told(m) \/ (Sending(m) /\ pc["cmd"] = "uncertain")
  /\ \A t \in DOMAIN turns : turns[t].message # NoMessage =>
       Accounted(turns[t].message)

\* A message that is accepted, or about to be, has its turn.
HasTurn(m) == \E t \in DOMAIN turns : turns[t].message = m
AcceptedHasTurn ==
  /\ command.type = "send" /\ pc["cmd"] = "started" => HasTurn(command.arg)
  /\ \A m \in Messages : receipt[m] = "accepted" => HasTurn(m)

ReceiptInv ==
  ReceiptGivenOnce /\ QueuedIsTold /\ AnswerFits /\ TakenIsTold /\ AcceptedHasTurn

-----------------------------------------------------------------------------
(* What a step may do to the receipts, the turns and the answers.          *)

\* Nothing is answered; a send stays the command it is.
NoReply ==
  /\ receipt' = receipt /\ submitted' = submitted
  /\ command' = command \/ (command.type # "send" /\ command'.type # "send")

\* A message is dispatched.
Fresh ==
  /\ pc["cmd"] = "idle" /\ submitted + 1 \in Messages /\ submitted' = submitted + 1
  /\ \/ /\ receipt' = [receipt EXCEPT ![submitted + 1] = "pending"]
        /\ command' = [type |-> "send", arg |-> submitted + 1]
        /\ pc' = [pc EXCEPT !["cmd"] = "wait"]
     \/ /\ receipt' = [receipt EXCEPT ![submitted + 1] = "rejected"]
        /\ command' = command

\* The send settles, with the answer its place calls for.
Settled(r) ==
  /\ command.type = "send" /\ submitted' = submitted
  /\ receipt' = [receipt EXCEPT ![command.arg] = r]
  /\ command' = NoCommand
  /\ r = "accepted" => pc["cmd"] = "started"
  /\ pc["cmd"] = "started" => r = "accepted" \/ faults' > 0
  /\ pc["cmd"] = "uncertain" => r = "uncertain" \/ (r = "rejected" /\ faults' > 0)
  /\ pc["cmd"] # "handed" /\ (r = "queued" => pc["cmd"] = "enqueue")
  /\ UNCHANGED <<turns, answer, limbo>>

Replies == {"queued", "accepted", "uncertain", "rejected"}

\* Every step that answers a command answers a send, where it settles.
LEMMA ReplyEffect ==
  ASSUME TypeInv, QueuedIsTold, [Next]_vars
  PROVE  NoReply \/ Fresh \/ \E r \in Replies : Settled(r)
<1>1. command \in Commands /\ faults \in Nat /\ NoCommand.type # "send"
  BY BoundsAssumption DEF TypeInv, TypeOK, ChainTypeOK, UserTypeOK, NoCommand
<1>2. /\ pc["cmd"] \in {"abandon", "reconcile", "read", "interrupt", "approve"}
           => command.type # "send"
      /\ pc["cmd"] \in {"enqueue", "thread"} => command.type = "send"
      /\ pc["cmd"] = "idle" => command = NoCommand
  BY DEF TypeInv, Placed, QueuedIsTold
<1>3. ASSUME Leave("cmd") PROVE command' = NoCommand /\ command'.type # "send"
  BY <1>1, <1>3 DEF Leave
<1>4. ASSUME Leave("evt") PROVE command' = command
  BY <1>4 DEF Leave
<1>5. ASSUME NEW p \in Chains, GoOnOrLeave(p)
      PROVE  \/ p = "cmd" /\ command.type = "send" /\ Leave("cmd")
             \/ (p = "evt" \/ command.type # "send")
                /\ (command' = command \/ (p = "cmd" /\ Leave("cmd")))
  BY <1>4, <1>5 DEF GoOnOrLeave, DrainOrLeave, GoTo, Chains, FromQueue
<1>6. ASSUME NEW p \in Chains, StartChatTurn(p)
      PROVE  NoReply \/ \E r \in Replies : Settled(r)
  <2>0. submitted' = submitted
    BY <1>6 DEF StartChatTurn, Record, SettleStarted, Refused, GiveUp, Answered, SettleRefused,
                SettleUncertain, userVars
  <2>1. CASE Answered(p) \/ Refused(p) \/ GiveUp(p)
    BY <2>0, <2>1 DEF Answered, Refused, GiveUp, GoTo, userVars, NoReply
  <2>2. CASE Record(p)
    BY <1>1, <1>3, <1>5, <2>0, <2>2 DEF Record, NoReply, Settled, Replies, GoTo, Reply, Fault, nativeVars
  <2>3. CASE SettleStarted(p)
    BY <1>1, <1>3, <1>4, <1>5, <2>0, <2>3 DEF SettleStarted, NoReply, Settled, Replies, Reply, Fault,
       nativeVars, Chains
  <2>4. CASE SettleRefused(p)
    BY <1>1, <1>3, <1>4, <1>5, <2>0, <2>4 DEF SettleRefused, NoReply, Settled, Replies, Reply, Fault,
       nativeVars, Chains
  <2>5. CASE SettleUncertain(p)
    BY <1>1, <1>3, <1>4, <1>5, <2>0, <2>5 DEF SettleUncertain, NoReply, Settled, Replies, Reply, Fault,
       nativeVars, Chains
  <2> QED
    BY <1>6, <2>1, <2>2, <2>3, <2>4, <2>5 DEF StartChatTurn
<1>7. CASE Dispatch
  <2>1. CASE DispatchSend
    BY <1>1, <2>1, BoundsAssumption DEF DispatchSend, Begin, Fresh, Messages, TypeInv, TypeOK, UserTypeOK
  <2>2. CASE DispatchWhenClosed
    BY <1>1, <2>2, BoundsAssumption DEF DispatchWhenClosed, Fresh, Messages, TypeInv, TypeOK,
       UserTypeOK, chainVars
  <2>3. CASE DispatchCancel \/ DispatchApprove
    BY <1>1, <1>2, <2>3 DEF DispatchCancel, DispatchApprove, Begin, NoReply
  <2> QED
    BY <1>7, <2>1, <2>2, <2>3 DEF Dispatch
<1>8. CASE Close \/ Closed \/ UNCHANGED vars
  BY <1>8 DEF Close, Closed, vars, userVars, chainVars, NoReply
<1>9. CASE CommandStep
  <2>1. CASE Enqueue \/ StartThread
    BY <1>1, <1>2, <1>3, <2>1 DEF Enqueue, StartThread, NoReply, Settled, Replies, Reply, Fault, GoTo,
       nativeVars
  <2>2. CASE RunSend \/ RunCancel \/ RunApprove
    BY <1>3, <2>2 DEF RunSend, RunCancel, RunApprove, Ready, GoTo, NoReply, userVars
  <2>3. CASE Abandon
    BY <1>2, <1>3, <2>3 DEF Abandon, DrainOrLeave, GoTo, NoReply
  <2>4. CASE ReadFailed \/ ReadIdle \/ ReadInProgress \/ Reconcile \/ Interrupted \/ ApproveSettled
    BY <1>2, <1>3, <2>4 DEF ReadFailed, ReadIdle, ReadInProgress, Reconcile, Interrupted,
       ApproveSettled, GoTo, NoReply, userVars
  <2> QED
    BY <1>6, <1>9, <2>1, <2>2, <2>3, <2>4 DEF CommandStep, Chains
<1>10. CASE EventStep
  BY <1>4, <1>6, <1>10 DEF EventStep, TakeEvent, DropEvent, EventFault, ApplyStarted, ResumeRecorded,
     ApplyEnded, ApplyAsked, ApplyResolved, DrainOrLeave, GoTo, userVars, Chains, NoReply
<1>11. CASE NativeStep
  BY <1>11 DEF NativeStep, Receive, ReceiveLate, Announce, End, Ask, Resolve, Notify, userVars,
               chainVars, NoReply
<1> QED
  BY <1>7, <1>8, <1>9, <1>10, <1>11 DEF Next

\* What a message's fate is, is settled once: only a pending receipt changes.
LEMMA ReceiptsStay ==
  ASSUME TypeInv, ReceiptGivenOnce, QueuedIsTold, [Next]_vars,
         NEW m \in Messages, receipt[m] \notin {"none", "pending"}
  PROVE  receipt'[m] = receipt[m]
<1>1. receipt \in [Messages -> Receipts] /\ submitted \in Nat /\ m \in Nat
  BY BoundsAssumption DEF TypeInv, TypeOK, UserTypeOK, Messages
<1>2. CASE NoReply
  BY <1>2 DEF NoReply
<1>3. CASE Fresh
  <2>1. m # submitted + 1
    BY <1>1 DEF ReceiptGivenOnce
  <2> QED
    BY <1>1, <1>3, <2>1 DEF Fresh
<1>4. ASSUME NEW r \in Replies, Settled(r) PROVE receipt'[m] = receipt[m]
  BY <1>1, <1>4 DEF Settled, ReceiptGivenOnce
<1> QED
  BY <1>2, <1>3, <1>4, ReplyEffect

\* The bound on faults only ever fills.
LEMMA FaultsStay ==
  ASSUME TypeInv, [Next]_vars
  PROVE  faults > 0 => faults' > 0
<1>1. faults \in Nat
  BY BoundsAssumption DEF TypeInv, TypeOK, UserTypeOK
<1>2. faults' = faults \/ faults' = faults + 1
  <2>1. ASSUME NEW p \in Chains, StartChatTurn(p) PROVE faults' = faults \/ faults' = faults + 1
    BY <2>1 DEF StartChatTurn, Record, SettleStarted, Refused, GiveUp, Answered, SettleRefused,
                SettleUncertain, Fault, NoFault, userVars
  <2>2. CASE Dispatch \/ Close \/ Closed \/ UNCHANGED vars
    BY <2>2 DEF Dispatch, DispatchSend, DispatchCancel, DispatchApprove, DispatchWhenClosed,
                Begin, Close, Closed, vars, userVars
  <2>3. CASE CommandStep
    BY <2>1, <2>3 DEF CommandStep, RunSend, StartThread, RunCancel, ReadFailed, Enqueue, ReadIdle,
       ReadInProgress, Abandon, Reconcile, Interrupted, RunApprove, ApproveSettled, Fault, NoFault,
       userVars, Chains
  <2>4. CASE EventStep
    BY <2>1, <2>4 DEF EventStep, TakeEvent, DropEvent, EventFault, ApplyStarted, ResumeRecorded,
       ApplyEnded, ApplyAsked, ApplyResolved, Fault, userVars, Chains
  <2>5. CASE NativeStep
    BY <2>5 DEF NativeStep, Receive, ReceiveLate, Announce, End, Ask, Resolve, userVars
  <2> QED
    BY <2>2, <2>3, <2>4, <2>5 DEF Next
<1> QED
  BY <1>1, <1>2

\* What is told stays told.
LEMMA ToldStays ==
  ASSUME TypeInv, ReceiptGivenOnce, QueuedIsTold, [Next]_vars, NEW m \in Messages
  PROVE  /\ Told(m) => Told(m)'
         /\ receipt[m] = "accepted" => receipt'[m] = "accepted"
  BY ReceiptsStay, FaultsStay DEF Told

-----------------------------------------------------------------------------
(* How a step moves a chain towards a turn.                                *)

\* A turn is started with the message the chain had, the head of the queue, or the
\* message of the send.
Towards(p) ==
  \/ pc[p] \in StartPoints /\ job'[p] = job[p] /\ (p = "cmd" => command' = command)
  \/ (p = "cmd" => command'.type = "cancel") /\ chatQueue' # <<>> /\ job'[p] = Head(chatQueue')
  \/ p = "cmd" /\ command'.type = "send"

\* There is no other way to start a turn.
LEMMA TowardsEffect ==
  ASSUME TypeInv, QueuedIsTold, [Next]_vars, NEW q \in Chains, pc'[q] \in StartPoints
  PROVE  Towards(q)
<1>1. /\ pc \in [Chains -> CommandPoints \union EventPoints]
      /\ job \in [Chains -> Messages \union {NoMessage}]
      /\ Chains = {"cmd", "evt"} /\ "cmd" # "evt"
      /\ StartPoints = {"record", "handed", "started", "refused", "uncertain"}
  BY DEF TypeInv, TypeOK, ChainTypeOK, Chains, StartPoints
<1>0. pc["cmd"] \in {"thread"} => command.type = "send"
  BY DEF TypeInv, Placed
<1>2. CASE pc'[q] = pc[q] /\ job'[q] = job[q] /\ (q = "cmd" => command' = command)
  BY <1>2 DEF Towards
<1>3. ASSUME NEW p \in Chains, Leave(p)
      PROVE  Towards(q)
  BY <1>1, <1>2, <1>3 DEF Leave
<1>4. ASSUME NEW p \in Chains, DrainOrLeave(p), FromQueue(p), pc[p] # "idle"
      PROVE  Towards(q)
  BY <1>1, <1>2, <1>4 DEF Leave, GoTo, DrainOrLeave, FromQueue, Towards
<1>5. ASSUME NEW p \in Chains, GoOnOrLeave(p), pc[p] # "idle"
      PROVE  Towards(q)
  BY <1>3, <1>4, <1>5 DEF GoOnOrLeave
<1>6. ASSUME NEW p \in Chains, StartChatTurn(p)
      PROVE  Towards(q)
  <2>1. CASE Answered(p) \/ Refused(p) \/ GiveUp(p)
    BY <1>1, <2>1 DEF Answered, Refused, GiveUp, GoTo, userVars, Towards
  <2>2. CASE Record(p)
    BY <1>1, <1>5, <2>2 DEF Record, GoTo, Towards
  <2>3. CASE SettleStarted(p) \/ SettleRefused(p) \/ SettleUncertain(p)
    BY <1>1, <1>3, <1>5, <2>3 DEF SettleStarted, SettleRefused, SettleUncertain
  <2> QED
    BY <1>6, <2>1, <2>2, <2>3 DEF StartChatTurn
<1>7. CASE Dispatch \/ Close \/ Closed \/ UNCHANGED vars
  BY <1>1, <1>2, <1>7 DEF Dispatch, DispatchSend, DispatchCancel, DispatchApprove,
     DispatchWhenClosed, Begin, Close, Closed, chainVars, vars
<1>8. CASE CommandStep
  <2>1. CASE RunSend \/ StartThread \/ Enqueue
    BY <1>0, <1>1, <1>2, <1>3, <2>1 DEF RunSend, StartThread, Enqueue, Ready, GoTo, Towards
  <2>2. CASE RunCancel \/ RunApprove \/ ReadFailed \/ ReadIdle \/ ReadInProgress \/ Reconcile
             \/ Interrupted \/ ApproveSettled
    BY <1>1, <1>2, <1>3, <2>2 DEF RunCancel, RunApprove, ReadFailed, ReadIdle, ReadInProgress,
       Reconcile, Interrupted, ApproveSettled, GoTo
  <2>3. CASE Abandon
    BY <1>1, <1>3, <1>4, <2>3 DEF Abandon, FromQueue, TypeInv, Placed
  <2> QED
    BY <1>1, <1>6, <1>8, <2>1, <2>2, <2>3 DEF CommandStep
<1>9. CASE EventStep
  <2>1. CASE TakeEvent
    BY <1>1, <1>2, <2>1 DEF TakeEvent
  <2>4. CASE ApplyStarted
    <3>1. Leave("evt") \/ (GoTo("evt", "resume") /\ job' = job)
      BY <2>4 DEF ApplyStarted
    <3> QED
      BY <1>1, <1>2, <1>3, <3>1 DEF GoTo
  <2>2. CASE DropEvent \/ EventFault \/ ResumeRecorded \/ ApplyEnded \/ ApplyAsked \/ ApplyResolved
    <3>1. pc["evt"] # "idle" \/ Leave("evt")
      BY <2>2 DEF DropEvent, EventFault, ResumeRecorded, ApplyEnded, ApplyAsked, ApplyResolved, InWork
    <3>2. Leave("evt") => command' = command
      BY DEF Leave
    <3>3. FromQueue("evt")
      BY DEF FromQueue
    <3> QED
      BY <1>1, <1>3, <1>4, <2>2, <3>1, <3>2, <3>3 DEF DropEvent, EventFault, ResumeRecorded,
         ApplyEnded, ApplyAsked, ApplyResolved, InWork
  <2> QED
    BY <1>1, <1>6, <1>9, <2>1, <2>2, <2>4 DEF EventStep
<1>10. CASE NativeStep
  BY <1>2, <1>10 DEF NativeStep, Receive, ReceiveLate, Announce, End, Ask, Resolve, Notify, chainVars
<1> QED
  BY <1>7, <1>8, <1>9, <1>10 DEF Next


\* A chain that starts a turn goes on by its own steps only.
Stands(p) == pc'[p] = pc[p] /\ job'[p] = job[p] /\ (p = "cmd" => command' = command)

\* No step of the other chain, of the user or of the harness moves it.
LEMMA StandsEffect ==
  ASSUME TypeInv, [Next]_vars, NEW q \in Chains, pc[q] \in StartPoints
  PROVE  Stands(q) \/ StartChatTurn(q)
<1>1. /\ pc \in [Chains -> CommandPoints \union EventPoints]
      /\ job \in [Chains -> Messages \union {NoMessage}]
      /\ Chains = {"cmd", "evt"} /\ "cmd" # "evt"
      /\ StartPoints = {"record", "handed", "started", "refused", "uncertain"}
  BY DEF TypeInv, TypeOK, ChainTypeOK, Chains, StartPoints
<1>2. ASSUME NEW p \in Chains, p # q, Leave(p) PROVE Stands(q)
  BY <1>1, <1>2 DEF Leave, Stands
<1>3. ASSUME NEW p \in Chains, p # q, NEW point, GoTo(p, point), NEW m,
             job' = job \/ job' = [job EXCEPT ![p] = m]
      PROVE  Stands(q)
  BY <1>1, <1>3 DEF GoTo, Stands
<1>4. ASSUME NEW p \in Chains, p # q, DrainOrLeave(p) \/ GoOnOrLeave(p) PROVE Stands(q)
  BY <1>2, <1>3, <1>4 DEF DrainOrLeave, GoOnOrLeave
<1>6. ASSUME NEW p \in Chains, p # q, StartChatTurn(p) PROVE Stands(q)
  <2>1. CASE Answered(p) \/ Refused(p) \/ GiveUp(p) \/ Record(p)
    BY <1>3, <1>4, <1>6, <2>1 DEF Answered, Refused, GiveUp, Record
  <2>2. CASE SettleStarted(p) \/ SettleRefused(p) \/ SettleUncertain(p)
    BY <1>2, <1>4, <1>6, <2>2 DEF SettleStarted, SettleRefused, SettleUncertain
  <2> QED
    BY <1>6, <2>1, <2>2 DEF StartChatTurn
<1>7. CASE Dispatch \/ Close \/ Closed \/ UNCHANGED vars
  BY <1>1, <1>7 DEF Dispatch, DispatchSend, DispatchCancel, DispatchApprove,
     DispatchWhenClosed, Begin, Close, Closed, chainVars, vars, Stands
<1>8. CASE CommandStep
  <2>1. CASE q = "cmd"
    BY <1>1, <1>8, <2>1 DEF CommandStep, RunSend, StartThread, Enqueue, RunCancel, RunApprove, ReadFailed,
       ReadIdle, ReadInProgress, Reconcile, Interrupted, ApproveSettled, Abandon, Ready
  <2>2. CASE q # "cmd"
    <3>1. CASE RunSend \/ StartThread \/ Enqueue
      BY <1>1, <1>2, <1>3, <2>2, <3>1 DEF RunSend, StartThread, Enqueue
    <3>2. CASE RunCancel \/ RunApprove \/ ReadFailed \/ ReadIdle \/ ReadInProgress \/ Reconcile
               \/ Interrupted \/ ApproveSettled
      BY <1>1, <1>2, <1>3, <2>2, <3>2 DEF RunCancel, RunApprove, ReadFailed, ReadIdle,
         ReadInProgress, Reconcile, Interrupted, ApproveSettled
    <3>3. CASE Abandon
      BY <1>1, <1>2, <1>4, <2>2, <3>3 DEF Abandon
    <3> QED
      BY <1>1, <1>6, <1>8, <2>2, <3>1, <3>2, <3>3 DEF CommandStep
  <2> QED
    BY <2>1, <2>2
<1>9. CASE EventStep
  <2>1. CASE q = "evt"
    BY <1>1, <1>9, <2>1 DEF EventStep, TakeEvent, DropEvent, EventFault, ApplyStarted, ResumeRecorded,
       ApplyEnded, ApplyAsked, ApplyResolved, InWork
  <2>2. CASE q # "evt"
    <3>1. CASE TakeEvent
      BY <1>1, <2>2, <3>1 DEF TakeEvent, Stands
    <3>2. CASE ApplyStarted
      BY <1>1, <1>2, <1>3, <2>2, <3>2 DEF ApplyStarted
    <3>3. CASE DropEvent \/ EventFault \/ ResumeRecorded \/ ApplyEnded \/ ApplyAsked \/ ApplyResolved
      BY <1>1, <1>2, <1>4, <2>2, <3>3 DEF DropEvent, EventFault, ResumeRecorded, ApplyEnded,
         ApplyAsked, ApplyResolved
    <3> QED
      BY <1>1, <1>6, <1>9, <2>2, <3>1, <3>2, <3>3 DEF EventStep
  <2> QED
    BY <2>1, <2>2
<1>10. CASE NativeStep
  BY <1>10 DEF NativeStep, Receive, ReceiveLate, Announce, End, Ask, Resolve, Notify, chainVars, Stands
<1> QED
  BY <1>7, <1>8, <1>9, <1>10 DEF Next

\* The turns there are stay, each with its message.
SameMessages ==
  \A t \in DOMAIN turns : t \in DOMAIN turns' /\ turns'[t].message = turns[t].message
NoNewTurn == DOMAIN turns' = DOMAIN turns

\* A turn and a given-up request come from the harness's own steps and from GiveUp.
LEMMA NativeEffect ==
  ASSUME TypeInv, [Next]_vars
  PROVE  /\ SameMessages
         /\ \/ NoNewTurn /\ answer' = answer /\ limbo' = limbo
            \/ \E p \in Chains : Receive(p)
            \/ \E m \in Messages : ReceiveLate(m)
            \/ NoNewTurn /\ \E p \in Chains : Answered(p) \/ GiveUp(p)
<1>1. turns \in Seq(Turn)
  BY DEF TypeInv, TypeOK, NativeTypeOK
<1>2. UNCHANGED nativeVars => SameMessages /\ NoNewTurn /\ answer' = answer /\ limbo' = limbo
  BY DEF nativeVars, SameMessages, NoNewTurn
<1>3. ASSUME NEW m, NewTurn(m) PROVE SameMessages
  BY <1>1, <1>3 DEF NewTurn, SameMessages
<1>4. ASSUME NEW p \in Chains, StartChatTurn(p)
      PROVE  UNCHANGED nativeVars \/ (UNCHANGED turns /\ (Answered(p) \/ GiveUp(p)))
  BY <1>4 DEF StartChatTurn, Record, SettleStarted, Refused, SettleRefused, SettleUncertain, Answered,
              GiveUp
<1>5. CASE Dispatch \/ Close \/ Closed \/ UNCHANGED vars
  BY <1>2, <1>5 DEF Dispatch, DispatchSend, DispatchCancel, DispatchApprove,
     DispatchWhenClosed, Begin, Close, Closed, vars
<1>6. CASE CommandStep
  <2>1. UNCHANGED nativeVars \/ StartChatTurn("cmd")
    BY <1>6 DEF CommandStep, RunSend, StartThread, RunCancel, ReadFailed, Enqueue, ReadIdle,
       ReadInProgress, Abandon, Reconcile, Interrupted, RunApprove, ApproveSettled
  <2> QED
    BY <1>2, <1>4, <2>1 DEF Chains, SameMessages, NoNewTurn
<1>7. CASE EventStep
  <2>1. UNCHANGED nativeVars \/ StartChatTurn("evt")
    BY <1>7 DEF EventStep, TakeEvent, DropEvent, EventFault, ApplyStarted, ResumeRecorded,
       ApplyEnded, ApplyAsked, ApplyResolved
  <2> QED
    BY <1>2, <1>4, <2>1 DEF Chains, SameMessages, NoNewTurn
<1>8. CASE NativeStep
  <2>1. ASSUME NEW p \in Chains, Receive(p) PROVE SameMessages
    BY <1>3, <2>1 DEF Receive
  <2>2. ASSUME NEW m \in Messages, ReceiveLate(m) PROVE SameMessages
    BY <1>3, <2>2 DEF ReceiveLate, SameMessages
  <2>3. ASSUME NEW t \in DOMAIN turns, Announce(t) \/ End(t) \/ Ask(t)
        PROVE  SameMessages /\ NoNewTurn /\ answer' = answer /\ limbo' = limbo
    <3>1. UNCHANGED <<answer, limbo>>
      BY <2>3 DEF Announce, End, Ask
    <3>2. turns[t] \in Turn
      BY <1>1
    <3>3. CASE turns' = [turns EXCEPT ![t].announced = TRUE]
      BY <1>1, <3>1, <3>2, <3>3 DEF SameMessages, NoNewTurn, Turn
    <3>4. CASE turns' = [turns EXCEPT ![t].ended = TRUE]
      BY <1>1, <3>1, <3>2, <3>4 DEF SameMessages, NoNewTurn, Turn
    <3>5. CASE turns' = turns
      BY <3>1, <3>5 DEF SameMessages, NoNewTurn
    <3> QED
      BY <2>3, <3>3, <3>4, <3>5 DEF Announce, End, Ask
  <2>4. ASSUME NEW r \in asked, Resolve(r)
        PROVE  SameMessages /\ NoNewTurn /\ answer' = answer /\ limbo' = limbo
    BY <2>4 DEF Resolve, SameMessages, NoNewTurn
  <2> QED
    BY <1>8, <2>1, <2>2, <2>3, <2>4 DEF NativeStep
<1> QED
  BY <1>5, <1>6, <1>7, <1>8 DEF Next


-----------------------------------------------------------------------------
(* The invariant of the receipts, part by part.                            *)

\* A receipt is given when a message is dispatched and when its command settles.
LEMMA ReceiptGivenOnceKept ==
  TypeInv /\ ReceiptGivenOnce /\ QueuedIsTold /\ QueueOrdered /\ [Next]_vars => ReceiptGivenOnce'
<1> SUFFICES ASSUME TypeInv, ReceiptGivenOnce, QueuedIsTold, QueueOrdered, [Next]_vars
             PROVE  ReceiptGivenOnce'
  OBVIOUS
<1>1. /\ receipt \in [Messages -> Receipts] /\ submitted \in Nat /\ \A m \in Messages : m \in Nat
      /\ command \in Commands /\ NoCommand.type # "send"
      /\ command.type = "send" => command.arg \in Messages
      /\ pc["cmd"] = "idle" => command = NoCommand
  BY BoundsAssumption, SMT DEF TypeInv, TypeOK, UserTypeOK, ChainTypeOK, Placed, Messages, NoCommand,
     Commands
<1>2. CASE NoReply
  BY <1>1, <1>2 DEF NoReply, ReceiptGivenOnce
<1>3. CASE Fresh
  BY <1>1, <1>3 DEF Fresh, ReceiptGivenOnce
<1>4. ASSUME NEW r \in Replies, Settled(r) PROVE ReceiptGivenOnce'
  <2>1. command.arg <= submitted
    BY <1>4 DEF Settled, QueueOrdered
  <2> QED
    BY <1>1, <1>4, <2>1 DEF Settled, ReceiptGivenOnce
<1> QED
  BY <1>2, <1>3, <1>4, ReplyEffect

\* Neither an interrupt nor the answer to an approval is part of a send.
LEMMA AnswersAndInterrupts ==
  ASSUME TypeInv, QueuedIsTold, [Next]_vars, pc'["cmd"] \in {"interrupt", "approve"}
  PROVE  command'.type # "send"
<1>1. pc \in [Chains -> CommandPoints \union EventPoints] /\ Chains = {"cmd", "evt"}
      /\ NoCommand.type # "send"
  BY DEF TypeInv, TypeOK, ChainTypeOK, Chains, NoCommand
<1>2. pc["cmd"] \in {"read", "abandon", "reconcile", "interrupt", "approve"} => command.type # "send"
  BY DEF TypeInv, Placed, QueuedIsTold
<1>3. CASE pc'["cmd"] = pc["cmd"] /\ command' = command
  BY <1>2, <1>3
<1>4. ASSUME NEW p \in Chains, Leave(p) \/ DrainOrLeave(p) \/ GoOnOrLeave(p)
      PROVE  command'.type # "send"
  BY <1>1, <1>2, <1>4 DEF Leave, DrainOrLeave, GoOnOrLeave, GoTo
<1>5. ASSUME NEW p \in Chains, StartChatTurn(p) PROVE command'.type # "send"
  BY <1>1, <1>2, <1>4, <1>5 DEF StartChatTurn, Record, SettleStarted, Refused, GiveUp, Answered,
     SettleRefused, SettleUncertain, GoTo
<1>6. CASE Dispatch \/ Close \/ Closed \/ UNCHANGED vars
  BY <1>1, <1>3, <1>6 DEF Dispatch, DispatchSend, DispatchCancel, DispatchApprove,
     DispatchWhenClosed, Begin, Close, Closed, chainVars, vars
<1>7. CASE CommandStep
  BY <1>1, <1>2, <1>4, <1>5, <1>7 DEF CommandStep, RunSend, StartThread, RunCancel, ReadFailed, Enqueue,
     ReadIdle, ReadInProgress, Abandon, Reconcile, Interrupted, RunApprove, ApproveSettled, Ready, GoTo
<1>8. CASE EventStep
  BY <1>1, <1>2, <1>4, <1>5, <1>8 DEF EventStep, TakeEvent, DropEvent, EventFault, ApplyStarted,
     ResumeRecorded, ApplyEnded, ApplyAsked, ApplyResolved, GoTo
<1>9. CASE NativeStep
  BY <1>3, <1>9 DEF NativeStep, Receive, ReceiveLate, Announce, End, Ask, Resolve, Notify, chainVars
<1> QED
  BY <1>6, <1>7, <1>8, <1>9 DEF Next

\* A message enters the queue, and is sent from it, as a queued one.
LEMMA QueuedIsToldKept ==
  TypeInv /\ HandedOver /\ ReceiptGivenOnce /\ QueuedIsTold /\ [Next]_vars => QueuedIsTold'
<1> SUFFICES ASSUME TypeInv, HandedOver, ReceiptGivenOnce, QueuedIsTold, [Next]_vars
             PROVE  QueuedIsTold'
  OBVIOUS
<1>1. /\ receipt \in [Messages -> Receipts] /\ chatQueue \in Seq(Messages)
      /\ chatQueue' \in Seq(Messages)
      /\ Range(chatQueue) \subseteq Messages
      /\ \A p \in Chains : pc[p] \in StartPoints => job[p] \in Messages
  <2>1. TypeInv'
    BY NextType
  <2> QED
    BY <2>1 DEF TypeInv, TypeOK, UserTypeOK, WorkbenchTypeOK, Placed, Range
<1>2. \A m \in Messages : receipt[m] = "queued" => receipt'[m] = "queued"
  BY ReceiptsStay
<1>3. \A m \in Range(chatQueue') : receipt'[m] = "queued"
  <2>1. CASE chatQueue' = chatQueue
    BY <1>1, <1>2, <2>1 DEF QueuedIsTold
  <2>2. ASSUME NEW id \in handed, chatQueue' = Shift(chatQueue, id)
        PROVE  \A m \in Range(chatQueue') : receipt'[m] = "queued"
    <3>1. Range(chatQueue') \subseteq Range(chatQueue)
      BY <1>1, <2>2 DEF Shift, Range
    <3> QED
      BY <1>1, <1>2, <3>1 DEF QueuedIsTold
  <2>3. CASE Push
    <3>1. /\ command.type = "send" /\ job["cmd"] = command.arg /\ command.arg \in Messages
          /\ chatQueue' = Append(chatQueue, command.arg)
          /\ receipt' = [receipt EXCEPT ![command.arg] = "queued"]
      BY <2>3, SMT DEF Push, Reply, TypeInv, TypeOK, ChainTypeOK, Placed, Commands, NoCommand
    <3>2. Range(chatQueue') \subseteq Range(chatQueue) \union {command.arg}
      BY <1>1, <3>1 DEF Range
    <3> QED
      BY <1>1, <1>2, <3>1, <3>2 DEF QueuedIsTold
  <2> QED
    BY <2>1, <2>2, <2>3, QueueEffect
<1>4. ASSUME NEW p \in Chains, pc'[p] \in StartPoints
      PROVE  IF FromQueue(p)' THEN receipt'[job'[p]] = "queued" ELSE command'.type = "send"
  <2>1. CASE pc[p] \in StartPoints /\ job'[p] = job[p] /\ (p = "cmd" => command' = command)
    BY <1>1, <1>2, <2>1 DEF QueuedIsTold, FromQueue, Chains
  <2>2. CASE (p = "cmd" => command'.type = "cancel") /\ chatQueue' # <<>> /\ job'[p] = Head(chatQueue')
    <3>1. Head(chatQueue') \in Range(chatQueue')
      BY <1>1, <2>2 DEF Range
    <3> QED
      BY <1>3, <2>2, <3>1 DEF FromQueue, Chains
  <2>3. CASE p = "cmd" /\ command'.type = "send"
    BY <2>3 DEF FromQueue
  <2> QED
    BY <1>4, <2>1, <2>2, <2>3, TowardsEffect DEF Towards
<1>5. pc'["cmd"] \in {"interrupt", "approve"} => command'.type # "send"
  BY AnswersAndInterrupts
<1> QED
  BY <1>3, <1>4, <1>5 DEF QueuedIsTold

\* The harness answers with the turn it made of the message it was given.
LEMMA AnswerFitsKept == TypeInv /\ AnswerFits /\ [Next]_vars => AnswerFits'
<1> SUFFICES ASSUME TypeInv, AnswerFits, [Next]_vars, NEW p \in Chains, answer'[p] # NoTurn
             PROVE  /\ pc'[p] = "handed" /\ answer'[p] \in DOMAIN turns'
                    /\ turns'[answer'[p]].message = job'[p]
  BY DEF AnswerFits
<1>1. turns \in Seq(Turn) /\ answer \in [Chains -> Nat]
  BY DEF TypeInv, TypeOK, NativeTypeOK
<1>2. CASE answer'[p] = answer[p]
  <2>1. pc[p] = "handed" /\ answer[p] \in DOMAIN turns /\ turns[answer[p]].message = job[p]
    BY <1>2 DEF AnswerFits
  <2>2. answer'[p] \in DOMAIN turns' /\ turns'[answer'[p]].message = job[p]
    BY <1>2, <2>1, NativeEffect DEF SameMessages
  <2>3. Stands(p)
    <3>1. ~StartChatTurn(p)
      BY <1>1, <1>2, <2>1 DEF StartChatTurn, Record, Answered, SettleStarted, Refused, SettleRefused,
         GiveUp, SettleUncertain
    <3> QED
      BY <2>1, <3>1, StandsEffect DEF StartPoints
  <2> QED
    BY <2>1, <2>2, <2>3 DEF Stands
<1>3. CASE answer'[p] # answer[p]
  <2>1. PICK q \in Chains : Receive(q)
    BY <1>1, <1>3, NativeEffect DEF ReceiveLate, Answered, GiveUp
  <2>2. q = p
    BY <1>1, <1>3, <2>1 DEF Receive
  <2> QED
    BY <1>1, <2>1, <2>2 DEF Receive, NewTurn, chainVars
<1> QED
  BY <1>2, <1>3


\* A message the harness has taken, or may take, ends up told or accepted: the send
\* that hands it over stays under way until it is.
LEMMA SendingStays ==
  ASSUME TypeInv, AnswerFits, QueuedIsTold, [Next]_vars, NEW m \in Messages, Sending(m),
         pc["cmd"] \in {"started", "uncertain"} \/ answer["cmd"] # NoTurn
  PROVE  Accounted(m)'
<1>1. /\ receipt \in [Messages -> Receipts] /\ answer \in [Chains -> Nat] /\ NoTurn = 0
      /\ pc \in [Chains -> CommandPoints \union EventPoints] /\ "cmd" \in Chains
      /\ answer["cmd"] # NoTurn => pc["cmd"] = "handed"
  BY DEF TypeInv, TypeOK, UserTypeOK, NativeTypeOK, ChainTypeOK, Chains, AnswerFits, NoTurn
<1>2. CASE Stands("cmd")
  <2>1. Sending(m)' /\ pc'["cmd"] = pc["cmd"]
    BY <1>2 DEF Stands, Sending
  <2>2. CASE pc["cmd"] = "handed"
    <3>1. answer'["cmd"] # NoTurn
      BY <1>1, <2>1, <2>2, NativeEffect DEF Receive, ReceiveLate, Answered, GiveUp, GoTo, Chains
    <3> QED
      BY <2>1, <3>1 DEF Accounted
  <2> QED
    BY <1>1, <2>1, <2>2 DEF Accounted
<1>3. CASE StartChatTurn("cmd")
  <2>1. CASE Answered("cmd") \/ GiveUp("cmd")
    BY <1>1, <2>1 DEF Answered, GiveUp, GoTo, Sending, Accounted
  <2>2. CASE SettleStarted("cmd") \/ SettleUncertain("cmd")
    <3>1. ~NoReply
      BY <1>1, <2>2 DEF SettleStarted, SettleUncertain, GoOnOrLeave, FromQueue, Leave, Sending, NoReply,
         NoCommand
    <3>2. ~Fresh
      BY <1>1, <2>2 DEF SettleStarted, SettleUncertain, Fresh
    <3>3. PICK r \in Replies : Settled(r)
      BY <3>1, <3>2, ReplyEffect
    <3>4. receipt'[m] = r
      BY <1>1, <3>3 DEF Settled, Sending
    <3>5. pc["cmd"] \in {"started", "uncertain"}
      BY <2>2 DEF SettleStarted, SettleUncertain
    <3>6. r = "accepted" \/ r = "uncertain" \/ (r = "rejected" /\ faults' > 0)
      <4>1. CASE pc["cmd"] = "uncertain"
        BY <3>3, <4>1 DEF Settled
      <4>2. CASE pc["cmd"] = "started"
        BY <3>3, <4>2 DEF Settled, Replies
      <4> QED
        BY <3>5, <4>1, <4>2
    <3> QED
      BY <3>4, <3>6 DEF Told, Accounted
  <2>3. ~Record("cmd") /\ ~Refused("cmd") /\ ~SettleRefused("cmd")
    BY <1>1 DEF Record, Refused, SettleRefused
  <2> QED
    BY <1>3, <2>1, <2>2, <2>3 DEF StartChatTurn
<1> QED
  BY <1>1, <1>2, <1>3, StandsEffect DEF StartPoints

\* A given-up request of a send leaves the command chain to say so.
LEMMA UncertainStays ==
  ASSUME TypeInv, AnswerFits, QueuedIsTold, [Next]_vars, NEW m \in Messages, Sending(m),
         pc["cmd"] = "uncertain"
  PROVE  Told(m)' \/ (Sending(m)' /\ pc'["cmd"] = "uncertain")
<1>1. CASE Stands("cmd")
  BY <1>1 DEF Stands, Sending
<1>2. CASE StartChatTurn("cmd")
  <2>1. receipt \in [Messages -> Receipts] /\ SettleUncertain("cmd")
    BY <1>2 DEF StartChatTurn, Record, Answered, SettleStarted, Refused, SettleRefused, GiveUp,
       TypeInv, TypeOK, UserTypeOK
  <2>2. ~NoReply /\ ~Fresh
    BY <2>1 DEF SettleUncertain, GoOnOrLeave, FromQueue, Leave, Sending, NoReply, NoCommand, Fresh
  <2>3. PICK r \in Replies : Settled(r)
    BY <2>2, ReplyEffect
  <2> QED
    BY <2>1, <2>3 DEF Settled, Sending, Told
<1> QED
  BY <1>1, <1>2, StandsEffect DEF StartPoints, Chains

\* What the harness has, or may yet take, is told or still being sent.
LEMMA TakenIsToldKept ==
  /\ TypeInv /\ ReceiptGivenOnce /\ QueuedIsTold /\ AnswerFits /\ TakenIsTold /\ [Next]_vars
  => TakenIsTold'
<1> SUFFICES ASSUME TypeInv, ReceiptGivenOnce, QueuedIsTold, AnswerFits, TakenIsTold, [Next]_vars
             PROVE  TakenIsTold'
  OBVIOUS
<1>1. /\ turns \in Seq(Turn) /\ limbo \subseteq Messages /\ answer \in [Chains -> Nat]
      /\ pc \in [Chains -> CommandPoints \union EventPoints] /\ Chains = {"cmd", "evt"}
      /\ \A t \in DOMAIN turns : turns[t].message # NoMessage => turns[t].message \in Messages
      /\ \A p \in Chains : pc[p] \in StartPoints => job[p] \in Messages
      /\ command.type = "send" /\ pc["cmd"] # "wait" => job["cmd"] = command.arg
      /\ {"handed", "started", "uncertain"} \subseteq StartPoints
  <2>1. turns \in Seq(Turn) /\ limbo \subseteq Messages /\ answer \in [Chains -> Nat]
    BY DEF TypeInv, TypeOK, NativeTypeOK
  <2>2. ASSUME NEW t \in DOMAIN turns, turns[t].message # NoMessage
        PROVE  turns[t].message \in Messages
    <3>1. turns[t] \in Turn
      BY <2>1
    <3> QED
      BY <2>2, <3>1 DEF Turn
  <2> QED
    BY <2>1, <2>2 DEF TypeInv, TypeOK, ChainTypeOK, Placed, Chains, StartPoints
<1>2. ASSUME NEW m \in limbo PROVE Told(m)' \/ (Sending(m)' /\ pc'["cmd"] = "uncertain")
  BY <1>1, ToldStays, UncertainStays DEF TakenIsTold
<1>3. ASSUME NEW m \in Messages, Accounted(m) PROVE Accounted(m)'
  <2>1. CASE Told(m) \/ receipt[m] = "accepted"
    BY <2>1, ToldStays DEF Accounted
  <2>2. CASE Sending(m) /\ (pc["cmd"] \in {"started", "uncertain"} \/ answer["cmd"] # NoTurn)
    BY <2>2, SendingStays
  <2> QED
    BY <1>3, <2>1, <2>2 DEF Accounted
<1>4. ASSUME NEW p \in Chains, pc[p] = "handed", job' = job, command' = command, receipt' = receipt,
             faults' = faults
      PROVE  Told(job[p])' \/ (p = "cmd" /\ Sending(job[p])')
  BY <1>1, <1>4 DEF QueuedIsTold, Told, Sending, FromQueue
<1>5. \A m \in limbo' : Told(m)' \/ (Sending(m)' /\ pc'["cmd"] = "uncertain")
  <2>1. ASSUME NEW p \in Chains, GiveUp(p)
        PROVE  \A m \in limbo' : Told(m)' \/ (Sending(m)' /\ pc'["cmd"] = "uncertain")
    <3>1. /\ pc[p] = "handed" /\ pc'[p] = "uncertain" /\ limbo' \subseteq limbo \union {job[p]}
          /\ job' = job /\ command' = command /\ receipt' = receipt /\ faults' = faults
      BY <1>1, <2>1 DEF GiveUp, GoTo
    <3>2. Told(job[p])' \/ (Sending(job[p])' /\ pc'["cmd"] = "uncertain")
      BY <1>4, <3>1
    <3> QED
      BY <1>2, <3>1, <3>2
  <2>2. CASE limbo' \subseteq limbo
    BY <1>2, <2>2
  <2> QED
    BY <2>1, <2>2, NativeEffect DEF Receive, ReceiveLate, Answered
<1>6. ASSUME NEW t \in DOMAIN turns', NEW m, m = turns'[t].message, m # NoMessage
      PROVE  Accounted(m)'
  <2>1. CASE t \in DOMAIN turns
    <3>1. turns[t].message = m
      BY <1>6, <2>1, NativeEffect DEF SameMessages
    <3>2. m \in Messages /\ Accounted(m)
      BY <1>1, <1>6, <2>1, <3>1 DEF TakenIsTold
    <3> QED
      BY <1>3, <3>2
  <2>2. CASE t \notin DOMAIN turns
    <3>1. CASE \E p \in Chains : Receive(p)
      <4>1. PICK p \in Chains : Receive(p)
        BY <3>1
      <4>2. /\ pc[p] = "handed" /\ m = job[p] /\ answer'[p] # NoTurn
            /\ job' = job /\ command' = command /\ receipt' = receipt /\ faults' = faults
        BY <1>1, <1>6, <2>2, <4>1 DEF Receive, NewTurn, chainVars, userVars, NoTurn
      <4> QED
        BY <1>4, <4>2 DEF Accounted
    <3>2. CASE \E n \in Messages : ReceiveLate(n)
      <4>1. m \in limbo
        BY <1>1, <1>6, <2>2, <3>2 DEF ReceiveLate, NewTurn
      <4>2. Told(m)' \/ (Sending(m)' /\ pc'["cmd"] = "uncertain")
        BY <1>2, <4>1
      <4> QED
        BY <4>2 DEF Accounted
    <3> QED
      BY <2>2, <3>1, <3>2, NativeEffect DEF NoNewTurn
  <2> QED
    BY <2>1, <2>2
<1> QED
  BY <1>5, <1>6 DEF TakenIsTold

\* The command chain learns of a turn from the harness only.
LEMMA StartedEffect ==
  ASSUME TypeInv, [Next]_vars, command'.type = "send", pc'["cmd"] = "started"
  PROVE  (pc["cmd"] = "started" /\ command' = command) \/ Answered("cmd")
<1>1. pc \in [Chains -> CommandPoints \union EventPoints] /\ Chains = {"cmd", "evt"}
      /\ NoCommand.type # "send"
  BY DEF TypeInv, TypeOK, ChainTypeOK, Chains, NoCommand
<1>2. CASE pc'["cmd"] = pc["cmd"] /\ command' = command
  BY <1>2
<1>3. ASSUME NEW p \in Chains, Leave(p) \/ DrainOrLeave(p) \/ GoOnOrLeave(p)
      PROVE  pc["cmd"] = "started" /\ command' = command
  BY <1>1, <1>3 DEF Leave, DrainOrLeave, GoOnOrLeave, GoTo
<1>4. ASSUME NEW p \in Chains, StartChatTurn(p)
      PROVE  (pc["cmd"] = "started" /\ command' = command) \/ Answered("cmd")
  BY <1>1, <1>3, <1>4 DEF StartChatTurn, Record, SettleStarted, Refused, GiveUp, Answered,
     SettleRefused, SettleUncertain, GoTo
<1>5. CASE Dispatch \/ Close \/ Closed \/ UNCHANGED vars
  BY <1>1, <1>2, <1>5 DEF Dispatch, DispatchSend, DispatchCancel, DispatchApprove,
     DispatchWhenClosed, Begin, Close, Closed, chainVars, vars
<1>6. CASE CommandStep
  BY <1>1, <1>3, <1>4, <1>6 DEF CommandStep, RunSend, StartThread, RunCancel, ReadFailed, Enqueue,
     ReadIdle, ReadInProgress, Abandon, Reconcile, Interrupted, RunApprove, ApproveSettled, GoTo
<1>7. CASE EventStep
  BY <1>1, <1>3, <1>4, <1>7 DEF EventStep, TakeEvent, DropEvent, EventFault, ApplyStarted,
     ResumeRecorded, ApplyEnded, ApplyAsked, ApplyResolved, GoTo
<1>8. CASE NativeStep
  BY <1>2, <1>8 DEF NativeStep, Receive, ReceiveLate, Announce, End, Ask, Resolve, Notify, chainVars
<1> QED
  BY <1>5, <1>6, <1>7, <1>8 DEF Next

\* A message is accepted only after the harness answered with its turn.
LEMMA AcceptedHasTurnKept ==
  TypeInv /\ QueuedIsTold /\ AnswerFits /\ AcceptedHasTurn /\ [Next]_vars => AcceptedHasTurn'
<1> SUFFICES ASSUME TypeInv, QueuedIsTold, AnswerFits, AcceptedHasTurn, [Next]_vars
             PROVE  AcceptedHasTurn'
  OBVIOUS
<1>1. /\ receipt \in [Messages -> Receipts]
      /\ pc \in [Chains -> CommandPoints \union EventPoints] /\ Chains = {"cmd", "evt"}
      /\ command.type = "send" => command.arg \in Messages
      /\ command.type = "send" /\ pc["cmd"] # "wait" => job["cmd"] = command.arg
  BY SMT DEF TypeInv, TypeOK, UserTypeOK, ChainTypeOK, Placed, Chains, Commands, NoCommand
<1>2. \A m : HasTurn(m) => HasTurn(m)'
  BY NativeEffect DEF HasTurn, SameMessages
<1>3. ASSUME command'.type = "send", pc'["cmd"] = "started" PROVE HasTurn(command.arg)'
  <2>1. CASE pc["cmd"] = "started" /\ command' = command
    BY <1>2, <1>3, <2>1 DEF AcceptedHasTurn
  <2>2. CASE Answered("cmd")
    <3>1. command' = command /\ answer["cmd"] # NoTurn /\ pc["cmd"] = "handed"
      BY <2>2 DEF Answered, GoTo
    <3>2. HasTurn(command.arg)
      BY <1>1, <1>3, <3>1 DEF AnswerFits, HasTurn
    <3> QED
      BY <1>2, <3>1, <3>2
  <2> QED
    BY <1>3, <2>1, <2>2, StartedEffect
<1>4. ASSUME NEW m \in Messages, receipt'[m] = "accepted" PROVE HasTurn(m)'
  <2>1. CASE NoReply
    BY <1>2, <1>4, <2>1 DEF NoReply, AcceptedHasTurn
  <2>2. CASE Fresh
    BY <1>1, <1>2, <1>4, <2>2 DEF Fresh, AcceptedHasTurn
  <2>3. ASSUME NEW r \in Replies, Settled(r) PROVE HasTurn(m)'
    BY <1>1, <1>2, <1>4, <2>3 DEF Settled, AcceptedHasTurn
  <2> QED
    BY <2>1, <2>2, <2>3, ReplyEffect
<1> QED
  BY <1>3, <1>4 DEF AcceptedHasTurn

\* A session starts with nothing dispatched.
LEMMA InitReceipts == Init => ReceiptInv
<1> SUFFICES ASSUME Init PROVE ReceiptInv
  OBVIOUS
<1>1. \A t \in DOMAIN turns : turns[t].message = NoMessage
  BY DEF Init
<1>2. ReceiptGivenOnce /\ QueuedIsTold /\ AnswerFits
  BY BoundsAssumption DEF Init, ReceiptGivenOnce, QueuedIsTold, AnswerFits, Range, StartPoints, Chains,
     NoCommand
<1>3. TakenIsTold /\ AcceptedHasTurn
  BY <1>1 DEF Init, TakenIsTold, AcceptedHasTurn, NoCommand
<1> QED
  BY <1>2, <1>3 DEF ReceiptInv

\* What the receipts rest on holds of every behaviour.
THEOREM ReceiptsHold == Spec => []ReceiptInv
<1>1. SafetyInv /\ ReceiptInv /\ [Next]_vars => ReceiptInv'
  BY ReceiptGivenOnceKept, QueuedIsToldKept, AnswerFitsKept, TakenIsToldKept, AcceptedHasTurnKept
     DEF SafetyInv, ReceiptInv
<1> QED
  BY <1>1, InitReceipts, Safety, PTL DEF Spec

\* What dispatch() answers is so, whatever the harness does: a message is accepted only
\* with a turn of its own, and rejected only if the harness has not got it, unless the
\* journal failed after the harness had taken it.
THEOREM ReceiptsAreTrue == Spec => []ReceiptsTruthful
<1>1. SafetyInv /\ ReceiptInv => ReceiptsTruthful
  <2> SUFFICES ASSUME TypeInv, ReceiptInv, NEW m \in Messages, receipt[m] = "rejected", faults = 0,
                      NEW t \in DOMAIN turns, turns[t].message = m
               PROVE  FALSE
    BY DEF SafetyInv, ReceiptInv, AcceptedHasTurn, HasTurn, ReceiptsTruthful
  <2>1. m # NoMessage
    BY DEF Messages, NoMessage
  <2> QED
    BY <2>1 DEF ReceiptInv, TakenIsTold, Accounted, Told, Sending, ReceiptGivenOnce
<1> QED
  BY <1>1, ReceiptsHold, Safety, PTL
=============================================================================
