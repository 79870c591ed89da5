--------------------------- MODULE ExecutorProofs ---------------------------
(***************************************************************************)
(* What is proved of the executors behind the workbench, for every number  *)
(* of requests, approvals, turns and pieces of text: who waits on the App  *)
(* Server is answered, and once (CodexRpc), the events of a turn of the Pi *)
(* harness come in their order (PiHarness), the session that is opened     *)
(* around them ends with nothing held (SessionOpening), and no token is    *)
(* charged twice or to nobody (UsageTracker).                              *)
(***************************************************************************)
EXTENDS CodexRpc, PiHarness, SessionOpening, UsageTracker, CollectionLemmas

-----------------------------------------------------------------------------
(* The connection.  A response goes out once because the approval it is to *)
(* stays marked as long as it is known, and an approval that is forgotten  *)
(* is not announced again: the announcements that are still in the pipe    *)
(* are of others, each of one.                                             *)

Lines == [kind : {"result", "error", "approval", "resolved", "garbage"}, id : Nat]

LinkTypes ==
  /\ asked \in 0..MaxAsked /\ approvals \subseteq 1..asked
  /\ answers \in [Asked -> Nat] /\ \A a \in Asked : answers[a] > 0 => a <= asked
  /\ toClient \in Seq(Lines) /\ toServer \in Seq([kind : {"request", "answer"}, id : Nat])
  /\ requestSequence \in Nat

\* Announcements on their way are new, and no approval is announced twice.
AnnouncedOnce ==
  \A k \in DOMAIN toClient : toClient[k].kind = "approval" =>
    /\ toClient[k].id \in 1..asked /\ toClient[k].id \notin approvals /\ answers[toClient[k].id] = 0
    /\ \A j \in DOMAIN toClient : toClient[j] = toClient[k] => j = k

AnsweredOnce ==
  ~disconnected => /\ \A a \in Asked : answers[a] <= 1
                   /\ ~transportClosed => \A a \in Asked \intersect approvals : answers[a] = 1 => a \in responding

NoneWaits == disconnected => pending = {}

LinkInv == LinkTypes /\ AnnouncedOnce /\ AnsweredOnce /\ NoneWaits

\* A line is its kind and its id.
LEMMA SameLine ==
  ASSUME NEW l \in Lines, NEW m \in Lines, l.kind = m.kind, l.id = m.id PROVE l = m
BY DEF Lines

\* The pipe to the client, when a line is read and when one that announces nothing is written.
LEMMA LineRead ==
  ASSUME LinkTypes, AnnouncedOnce, toClient # <<>>, toClient' = Tail(toClient), NEW known, known \subseteq approvals
  PROVE  /\ toClient' \in Seq(Lines) /\ Head(toClient) \in Lines
         /\ \A k \in DOMAIN toClient' : toClient'[k].kind = "approval" =>
              /\ toClient'[k].id \in 1..asked /\ toClient'[k].id \notin known /\ answers[toClient'[k].id] = 0
              /\ toClient'[k] # Head(toClient)
              /\ \A j \in DOMAIN toClient' : toClient'[j] = toClient'[k] => j = k
<1>1. /\ toClient \in Seq(Lines) /\ Len(toClient) \in Nat /\ Len(toClient) > 0
      /\ DOMAIN toClient = 1..Len(toClient) /\ Head(toClient) = toClient[1]
  BY DEF LinkTypes
<1>2. /\ toClient' \in Seq(Lines) /\ Len(toClient') = Len(toClient) - 1 /\ DOMAIN toClient' = 1..Len(toClient')
      /\ \A k \in DOMAIN toClient' : toClient'[k] = toClient[k + 1] /\ k + 1 \in DOMAIN toClient /\ k + 1 # 1
  BY <1>1
<1>3. ASSUME NEW k \in DOMAIN toClient', toClient'[k].kind = "approval"
      PROVE  /\ toClient'[k].id \in 1..asked /\ toClient'[k].id \notin known /\ answers[toClient'[k].id] = 0
             /\ toClient'[k] # Head(toClient)
             /\ \A j \in DOMAIN toClient' : toClient'[j] = toClient'[k] => j = k
  <2>1. k + 1 \in DOMAIN toClient /\ toClient'[k] = toClient[k + 1] /\ k + 1 # 1 BY <1>2
  <2>2. \A j \in DOMAIN toClient : toClient[j] = toClient[k + 1] => j = k + 1 BY <1>3, <2>1 DEF AnnouncedOnce
  <2>3. \A j \in DOMAIN toClient' : toClient'[j] = toClient'[k] => j = k BY <1>2, <2>1, <2>2
  <2>4. toClient'[k] # Head(toClient) BY <1>1, <2>1, <2>2
  <2>5. toClient[k + 1].id \in 1..asked /\ toClient[k + 1].id \notin approvals /\ answers[toClient[k + 1].id] = 0
    BY <1>3, <2>1 DEF AnnouncedOnce
  <2> QED BY <2>1, <2>3, <2>4, <2>5
<1>4. Head(toClient) \in Lines BY <1>1
<1> QED BY <1>2, <1>3, <1>4

\* A line the server writes keeps the announcements apart, if it announces only a new approval.
LEMMA LineWritten ==
  ASSUME LinkTypes, AnnouncedOnce, NEW line \in Lines, toClient' = Append(toClient, line),
         UNCHANGED <<approvals, answers>>, asked' \in Nat, asked <= asked',
         line.kind = "approval" =>
           /\ line.id \in 1..asked' /\ line.id > asked /\ line.id \in Asked
  PROVE  toClient' \in Seq(Lines) /\ AnnouncedOnce'
<1>1. /\ toClient \in Seq(Lines) /\ Len(toClient) \in Nat /\ DOMAIN toClient = 1..Len(toClient) /\ asked \in Nat
  BY DEF LinkTypes
<1>2. /\ toClient' \in Seq(Lines) /\ DOMAIN toClient' = 1..(Len(toClient) + 1)
      /\ toClient'[Len(toClient) + 1] = line /\ \A k \in DOMAIN toClient : toClient'[k] = toClient[k]
  BY <1>1
<1>3. ASSUME NEW k \in DOMAIN toClient', toClient'[k].kind = "approval"
      PROVE  /\ toClient'[k].id \in 1..asked' /\ toClient'[k].id \notin approvals /\ answers[toClient'[k].id] = 0
             /\ \A j \in DOMAIN toClient' : toClient'[j] = toClient'[k] => j = k
  <2>1. CASE k = Len(toClient) + 1
    <3>1. toClient'[k] = line /\ line.id > asked /\ line.id \in Asked /\ line.id \in 1..asked' BY <1>2, <1>3, <2>1
    <3>2. line.id \notin approvals BY <1>1, <3>1 DEF LinkTypes
    <3>3. answers[line.id] = 0
      <4>1. answers[line.id] \in Nat /\ ~(line.id <= asked) BY <1>1, <3>1 DEF LinkTypes, Asked
      <4> QED BY <3>1, <4>1 DEF LinkTypes
    <3>4. \A j \in DOMAIN toClient : toClient[j] # line
      <4> TAKE j \in DOMAIN toClient
      <4>1. toClient[j].kind = "approval" => toClient[j].id \in 1..asked BY DEF AnnouncedOnce
      <4> QED BY <1>1, <1>3, <3>1, <4>1
    <3>5. \A j \in DOMAIN toClient' : j = k \/ (j \in DOMAIN toClient /\ toClient'[j] = toClient[j])
      BY <1>1, <1>2, <2>1
    <3> QED BY <3>1, <3>2, <3>3, <3>4, <3>5
  <2>2. CASE k # Len(toClient) + 1
    <3>1. k \in DOMAIN toClient /\ toClient'[k] = toClient[k] BY <1>1, <1>2, <2>2
    <3>2. /\ toClient[k].id \in 1..asked /\ toClient[k].id \notin approvals /\ answers[toClient[k].id] = 0
          /\ \A j \in DOMAIN toClient : toClient[j] = toClient[k] => j = k
      BY <1>3, <3>1 DEF AnnouncedOnce
    <3>3. toClient[k] # line BY <1>1, <1>3, <3>1, <3>2
    <3>4. \A j \in DOMAIN toClient' : toClient'[j] = line \/ (j \in DOMAIN toClient /\ toClient'[j] = toClient[j])
      BY <1>1, <1>2
    <3>5. toClient[k].id \in 1..asked' BY <1>1, <3>2
    <3> QED BY <3>1, <3>2, <3>3, <3>4, <3>5
  <2> QED BY <2>1, <2>2
<1> QED BY <1>2, <1>3 DEF AnnouncedOnce

\* What no step but the ones below touches.
LEMMA ApprovalsAlone ==
  ASSUME LinkInv, UNCHANGED <<approvals, responding, answers, asked, disconnected, toClient>>,
         transportClosed' = transportClosed \/ transportClosed' = TRUE,
         toServer' \in Seq([kind : {"request", "answer"}, id : Nat]), requestSequence' \in Nat,
         disconnected => pending' \subseteq pending
  PROVE  LinkInv'
<1>1. LinkTypes' /\ AnnouncedOnce' BY DEF LinkInv, LinkTypes, AnnouncedOnce
<1>2. AnsweredOnce'
  <2>1. ~transportClosed' => ~transportClosed OBVIOUS
  <2> QED BY <2>1 DEF LinkInv, AnsweredOnce
<1>3. NoneWaits' BY DEF LinkInv, NoneWaits
<1> QED BY <1>1, <1>2, <1>3 DEF LinkInv

\* The server writes a line.
LEMMA ServerWrites ==
  ASSUME LinkInv, ServerStep, NEW line \in Lines, toClient' = Append(toClient, line),
         asked' \in 0..MaxAsked, asked <= asked',
         toServer' \in Seq([kind : {"request", "answer"}, id : Nat]),
         line.kind = "approval" => line.id \in 1..asked' /\ line.id > asked /\ line.id \in Asked
  PROVE  LinkInv'
<1>1. /\ UNCHANGED <<approvals, responding, answers, disconnected, pending, transportClosed, requestSequence>>
  BY DEF ServerStep, approvalVars, linkVars, tableVars
<1>2. toClient' \in Seq(Lines) /\ AnnouncedOnce'
  <2>1. asked' \in Nat BY DEF LinkInv
  <2> QED BY <1>1, <2>1, LineWritten DEF LinkInv
<1>3. LinkTypes'
  <2>1. approvals \subseteq 1..asked' /\ \A a \in Asked : answers[a] > 0 => a <= asked'
    BY DEF LinkInv, LinkTypes, Asked
  <2> QED BY <1>1, <1>2, <2>1 DEF LinkInv, LinkTypes
<1>4. AnsweredOnce' /\ NoneWaits' BY <1>1 DEF LinkInv, AnsweredOnce, NoneWaits
<1> QED BY <1>2, <1>3, <1>4 DEF LinkInv

\* The client reads a line: its approvals are those it knew, or one that was announced.
LEMMA ClientReads ==
  ASSUME LinkInv, toClient # <<>>, toClient' = Tail(toClient),
         UNCHANGED <<answers, asked, transportClosed, toServer, requestSequence>>,
         \/ approvals' \subseteq approvals
         \/ Head(toClient).kind = "approval" /\ approvals' = approvals \union {Head(toClient).id},
         ~disconnected' => ~disconnected /\ responding \intersect approvals' \subseteq responding',
         NoneWaits'
  PROVE  LinkInv'
<1> DEFINE old == Head(toClient)
<1> DEFINE known == approvals' \intersect approvals
<1>1. /\ known \subseteq approvals
      /\ \/ approvals' = known
         \/ old.kind = "approval" /\ known = approvals /\ approvals' = approvals \union {old.id}
  <2>1. CASE approvals' \subseteq approvals BY <2>1
  <2>2. CASE old.kind = "approval" /\ approvals' = approvals \union {old.id}
    <3>1. known = approvals BY <2>2
    <3> QED BY <2>2, <3>1
  <2> QED BY <2>1, <2>2
<1> HIDE DEF known
<1>2. /\ toClient' \in Seq(Lines) /\ old \in Lines
      /\ \A k \in DOMAIN toClient' : toClient'[k].kind = "approval" =>
           /\ toClient'[k].id \in 1..asked /\ toClient'[k].id \notin known /\ answers[toClient'[k].id] = 0
           /\ toClient'[k] # old
           /\ \A j \in DOMAIN toClient' : toClient'[j] = toClient'[k] => j = k
  BY <1>1, LineRead DEF LinkInv
<1>3. old.kind = "approval" => old.id \in 1..asked /\ answers[old.id] = 0
  <2>1. 1 \in DOMAIN toClient /\ old = toClient[1] BY DEF LinkInv, LinkTypes
  <2> QED BY <2>1 DEF LinkInv, AnnouncedOnce
<1>4. AnnouncedOnce'
  <2>1. ASSUME NEW k \in DOMAIN toClient', toClient'[k].kind = "approval"
        PROVE  toClient'[k].id \notin approvals'
    <3>1. toClient'[k].id \notin known /\ toClient'[k] # old /\ toClient'[k] \in Lines BY <1>2, <2>1
    <3>2. old.kind = "approval" => toClient'[k].id # old.id BY <1>2, <2>1, <3>1, SameLine
    <3> QED BY <1>1, <3>1, <3>2
  <2> QED BY <1>2, <2>1 DEF AnnouncedOnce
<1>5. LinkTypes' BY <1>1, <1>2, <1>3 DEF LinkInv, LinkTypes
<1>6. AnsweredOnce'
  <2>1. ASSUME ~disconnected', ~transportClosed, NEW a \in Asked, a \in approvals', answers[a] = 1
        PROVE  a \in responding'
    <3>1. a \in approvals BY <1>1, <1>3, <2>1
    <3>2. a \in responding BY <2>1, <3>1 DEF LinkInv, AnsweredOnce
    <3> QED BY <2>1, <3>2
  <2> QED BY <2>1 DEF LinkInv, AnsweredOnce
<1> QED BY <1>4, <1>5, <1>6 DEF LinkInv

\* The connection ends: nobody waits any more.
LEMMA LinkEnds ==
  ASSUME LinkInv, Disconnect PROVE disconnected' /\ NoneWaits'
<1>1. CASE disconnected BY <1>1 DEF Disconnect, LinkInv, NoneWaits
<1>2. CASE ~disconnected BY <1>2 DEF Disconnect, NoneWaits
<1> QED BY <1>1, <1>2

\* Answering an approval keeps the invariant of the connection.
LEMMA AnswerGoesOut ==
  ASSUME LinkInv, NEW a \in Asked, Respond(a) PROVE LinkInv'
<1>1. a \in approvals /\ a \notin responding BY DEF Respond, MayRespond
<1>2. /\ UNCHANGED <<approvals, asked, disconnected, pending, transportClosed, toClient, requestSequence>>
  BY DEF Respond, tableVars, linkVars, serverVars
<1>3. CASE transportClosed BY <1>2, <1>3, ApprovalsAlone DEF Respond, LinkInv, LinkTypes
<1>4. CASE ~transportClosed
  <2>1. /\ responding' = responding \union {a} /\ answers' = [answers EXCEPT ![a] = @ + 1]
        /\ toServer' = Append(toServer, Message("answer", a))
    BY <1>4 DEF Respond
  <2>2. answers \in [Asked -> Nat] /\ answers[a] \in Nat /\ a \in 1..asked /\ a \in Nat
    BY <1>1 DEF LinkInv, LinkTypes, Asked
  <2>3. answers' \in [Asked -> Nat] /\ answers'[a] = answers[a] + 1 /\ \A b \in Asked : b # a => answers'[b] = answers[b]
    BY <2>1, <2>2
  <2>4. Message("answer", a) \in [kind : {"request", "answer"}, id : Nat] BY <2>2 DEF Message
  <2>5. toServer' \in Seq([kind : {"request", "answer"}, id : Nat]) BY <2>1, <2>4 DEF LinkInv, LinkTypes
  <2>6. \A b \in Asked : answers'[b] > 0 => b <= asked BY <2>2, <2>3 DEF LinkInv, LinkTypes
  <2>7. LinkTypes' BY <1>2, <2>3, <2>5, <2>6 DEF LinkInv, LinkTypes
  <2>8. AnnouncedOnce'
    <3>1. ASSUME NEW k \in DOMAIN toClient, toClient[k].kind = "approval" PROVE answers'[toClient[k].id] = 0
      <4>1. toClient[k].id \in 1..asked /\ toClient[k].id \notin approvals /\ answers[toClient[k].id] = 0
        BY <3>1 DEF LinkInv, AnnouncedOnce
      <4>2. toClient[k].id \in Asked /\ toClient[k].id # a
        BY <1>1, <4>1, RpcAssumption DEF LinkInv, LinkTypes, Asked
      <4> QED BY <2>3, <4>1, <4>2
    <3> QED BY <1>2, <3>1 DEF LinkInv, AnnouncedOnce
  <2>9. AnsweredOnce'
    <3>1. ASSUME ~disconnected PROVE answers[a] = 0 BY <1>1, <1>4, <2>2, <3>1 DEF LinkInv, AnsweredOnce
    <3>2. ASSUME ~disconnected
          PROVE  /\ \A b \in Asked : answers'[b] <= 1
                 /\ \A b \in Asked \intersect approvals : answers'[b] = 1 => b \in responding'
      BY <1>4, <2>1, <2>3, <3>1, <3>2 DEF LinkInv, AnsweredOnce
    <3> QED BY <1>2, <3>2 DEF AnsweredOnce
  <2>10. NoneWaits' BY <1>2 DEF LinkInv, NoneWaits
  <2> QED BY <2>7, <2>8, <2>9, <2>10 DEF LinkInv
<1> QED BY <1>3, <1>4

\* Receiving a line of the server keeps the invariant of the connection.
LEMMA LineReceived ==
  ASSUME LinkInv, ReceiveLine PROVE LinkInv'
<1> USE DEF tableVars, approvalVars, linkVars, serverVars
<1>1. CASE \E kind \in {"result", "error"} : Receive(kind) /\ ReceiveResponse(Head(toClient))
  <2>1. /\ toClient # <<>> /\ toClient' = Tail(toClient) /\ pending' \subseteq pending
        /\ UNCHANGED <<answers, asked, transportClosed, toServer, requestSequence, approvals, responding, disconnected>>
    BY <1>1 DEF Receive, ReceiveResponse
  <2>2. NoneWaits' BY <2>1 DEF LinkInv, NoneWaits
  <2> QED BY <2>1, <2>2, ClientReads
<1>2. CASE /\ Receive("approval")
           /\ approvals' = approvals \union {Head(toClient).id}
           /\ UNCHANGED <<pending, outcome, responding, flushedAnswers, answers, settledAnswers, linkVars>>
  <2>1. /\ toClient # <<>> /\ toClient' = Tail(toClient) /\ Head(toClient).kind = "approval"
        /\ UNCHANGED <<answers, asked, transportClosed, toServer, requestSequence, responding, disconnected, pending>>
    BY <1>2 DEF Receive
  <2>2. NoneWaits' BY <2>1 DEF LinkInv, NoneWaits
  <2> QED BY <1>2, <2>1, <2>2, ClientReads
<1>3. CASE Receive("resolved") /\ ReceiveResolved(Head(toClient))
  <2>1. /\ toClient # <<>> /\ toClient' = Tail(toClient)
        /\ approvals' = approvals \ {Head(toClient).id} /\ responding' = responding \ {Head(toClient).id}
        /\ UNCHANGED <<answers, asked, transportClosed, toServer, requestSequence, disconnected, pending>>
    BY <1>3 DEF Receive, ReceiveResolved
  <2>2. NoneWaits' BY <2>1 DEF LinkInv, NoneWaits
  <2>3. responding \intersect approvals' \subseteq responding' BY <2>1
  <2> QED BY <2>1, <2>2, <2>3, ClientReads
<1>4. CASE /\ Receive("garbage") /\ Disconnect
           /\ UNCHANGED <<approvals, flushedAnswers, answers, closing, transportClosed>>
  <2>1. /\ toClient # <<>> /\ toClient' = Tail(toClient)
        /\ UNCHANGED <<answers, asked, transportClosed, toServer, requestSequence, approvals>>
    BY <1>4 DEF Receive
  <2>2. disconnected' /\ NoneWaits' BY <1>4, LinkEnds
  <2> QED BY <2>1, <2>2, ClientReads
<1> QED BY <1>1, <1>2, <1>3, <1>4 DEF ReceiveLine


\* Every step of client and server keeps the invariant of the connection.
LEMMA LinkInductive ==
  ASSUME LinkInv, RpcNext PROVE LinkInv'
<1> DEFINE Pipe == Seq([kind : {"request", "answer"}, id : Nat])
<1> USE DEF tableVars, approvalVars, linkVars, serverVars
<1>0. toServer \in Pipe /\ <<>> \in Pipe /\ requestSequence \in Nat BY DEF LinkInv, LinkTypes
<1>1. ASSUME NEW mutates \in BOOLEAN, Request(mutates) PROVE LinkInv'
  <2>1. Message("request", requestSequence + 1) \in [kind : {"request", "answer"}, id : Nat]
    BY <1>0 DEF Message
  <2>2. toServer' \in Pipe
    <3>1. Append(toServer, Message("request", requestSequence + 1)) \in Pipe BY <1>0, <2>1
    <3> QED BY <1>0, <1>1, <3>1 DEF Request
  <2>3. requestSequence' \in Nat /\ (disconnected => pending' \subseteq pending)
    BY <1>0, <1>1 DEF Request, MayRequest
  <2>4. UNCHANGED <<approvals, responding, answers, asked, disconnected, toClient, transportClosed>>
    BY <1>1 DEF Request
  <2> QED BY <2>2, <2>3, <2>4, ApprovalsAlone
<1>2. ASSUME NEW r \in Requests, Flushed(r) \/ FlushFails(r) \/ Timeout(r) PROVE LinkInv'
  <2>1. UNCHANGED <<approvals, responding, answers, asked, disconnected, toClient, transportClosed, toServer,
                    requestSequence>>
    BY <1>2 DEF Flushed, FlushFails, Timeout
  <2>2. pending' \subseteq pending BY <1>2 DEF Flushed, FlushFails, Timeout
  <2> QED BY <1>0, <2>1, <2>2, ApprovalsAlone
<1>3. ASSUME NEW r \in Requests, ServerAnswersLate(r) PROVE LinkInv'
  <2>1. Message("result", r) \in Lines /\ Message("result", r).kind # "approval"
    BY <1>3, RpcAssumption DEF Message, Lines, Requests
  <2>2. /\ ServerStep /\ toClient' = Append(toClient, Message("result", r)) /\ toServer' \in Pipe
        /\ asked' \in 0..MaxAsked /\ asked <= asked'
    BY <1>0, <1>3 DEF ServerAnswersLate, LinkInv, LinkTypes
  <2> QED BY <2>1, <2>2, ServerWrites
<1>4. ASSUME NEW a \in Asked, AnswerFlushed(a) PROVE LinkInv'
  <2>1. UNCHANGED <<approvals, responding, answers, asked, disconnected, toClient, transportClosed, toServer,
                    requestSequence, pending>>
    BY <1>4 DEF AnswerFlushed
  <2> QED BY <1>0, <2>1, ApprovalsAlone
<1>5. ASSUME NEW a \in Asked, AnswerFails(a) PROVE LinkInv'
  <2>1. /\ UNCHANGED <<approvals, answers, asked, disconnected, toClient, transportClosed, toServer,
                       requestSequence, pending>>
        /\ transportClosed
    BY <1>5 DEF AnswerFails
  <2>2. LinkTypes' /\ AnnouncedOnce' BY <2>1 DEF LinkInv, LinkTypes, AnnouncedOnce
  <2>3. AnsweredOnce' /\ NoneWaits' BY <2>1 DEF LinkInv, AnsweredOnce, NoneWaits
  <2> QED BY <2>2, <2>3 DEF LinkInv
<1>6. ASSUME NEW a \in Asked, ServerResolves(a) PROVE LinkInv'
  <2>1. Message("resolved", a) \in Lines /\ Message("resolved", a).kind # "approval"
    BY <1>6, RpcAssumption DEF Message, Lines, Asked
  <2>2. /\ ServerStep /\ toClient' = Append(toClient, Message("resolved", a)) /\ toServer' \in Pipe
        /\ asked' \in 0..MaxAsked /\ asked <= asked'
    BY <1>0, <1>6 DEF ServerResolves, LinkInv, LinkTypes
  <2> QED BY <2>1, <2>2, ServerWrites
<1>7. ASSUME ServerEnds \/ FinishClose PROVE LinkInv'
  <2>1. /\ UNCHANGED <<approvals, answers, asked, toClient, requestSequence>> /\ Disconnect
        /\ toServer' \in Pipe
    BY <1>0, <1>7 DEF ServerEnds, FinishClose
  <2>2. disconnected' /\ NoneWaits' BY <2>1, LinkEnds
  <2>3. LinkTypes' /\ AnnouncedOnce' BY <2>1 DEF LinkInv, LinkTypes, AnnouncedOnce
  <2>4. AnsweredOnce' BY <2>2 DEF AnsweredOnce
  <2> QED BY <2>2, <2>3, <2>4 DEF LinkInv
<1>8. ASSUME StartClose PROVE LinkInv'
  <2>1. /\ UNCHANGED <<approvals, responding, answers, asked, disconnected, toClient, requestSequence, pending>>
        /\ transportClosed' = TRUE /\ toServer' = <<>>
    BY <1>8 DEF StartClose
  <2> QED BY <1>0, <2>1, ApprovalsAlone
<1>9. ASSUME ServerTakes PROVE LinkInv'
  <2> DEFINE m == Head(toServer)
  <2>1. /\ ServerStep /\ toServer # <<>> /\ toServer' = Tail(toServer)
        /\ UNCHANGED <<asked, approvals, responding, answers, disconnected, pending, transportClosed, requestSequence>>
    BY <1>9 DEF ServerTakes, ServerStep
  <2>2. toServer' \in Pipe /\ m \in [kind : {"request", "answer"}, id : Nat]
    <3> DEFINE Word == [kind : {"request", "answer"}, id : Nat]
    <3> HIDE DEF Word
    <3>1. toServer \in Seq(Word) /\ toServer # <<>> BY <1>0, <2>1 DEF Word
    <3>2. Tail(toServer) \in Seq(Word) /\ Head(toServer) \in Word BY <3>1
    <3> QED BY <2>1, <3>2 DEF Word
  <2>3. /\ Message("result", m.id) \in Lines /\ Message("error", m.id) \in Lines /\ Message("resolved", m.id) \in Lines
        /\ Message("result", m.id).kind # "approval" /\ Message("error", m.id).kind # "approval"
        /\ Message("resolved", m.id).kind # "approval"
    BY <2>2 DEF Message, Lines
  <2>4. \/ toClient' = toClient
        \/ \E line \in Lines : line.kind # "approval" /\ toClient' = Append(toClient, line)
    BY <1>9, <2>3 DEF ServerTakes
  <2>5. asked' \in 0..MaxAsked /\ asked <= asked' BY <2>1 DEF LinkInv, LinkTypes
  <2>6. CASE toClient' = toClient BY <1>0, <2>1, <2>2, <2>6, ApprovalsAlone
  <2>7. ASSUME NEW line \in Lines, line.kind # "approval", toClient' = Append(toClient, line) PROVE LinkInv'
    BY <2>1, <2>2, <2>5, <2>7, ServerWrites
  <2> QED BY <2>4, <2>6, <2>7
<1>10. ASSUME ServerAsks PROVE LinkInv'
  <2> DEFINE line == Message("approval", asked + 1)
  <2>1. /\ ServerStep /\ toClient' = Append(toClient, line) /\ toServer' \in Pipe
        /\ asked' = asked + 1 /\ asked < MaxAsked /\ asked \in Nat
    BY <1>0, <1>10 DEF ServerAsks, LinkInv, LinkTypes
  <2>2. line \in Lines /\ line.id = asked + 1 BY <2>1 DEF Message, Lines
  <2>3. asked' \in 0..MaxAsked /\ asked <= asked' /\ line.id \in 1..asked' /\ line.id > asked /\ line.id \in Asked
    BY <2>1, <2>2, RpcAssumption DEF Asked
  <2> HIDE DEF line
  <2> QED BY <2>1, <2>2, <2>3, ServerWrites
<1>11. ASSUME ServerWritesGarbage PROVE LinkInv'
  <2>1. Message("garbage", 0) \in Lines /\ Message("garbage", 0).kind # "approval" BY DEF Message, Lines
  <2>2. /\ ServerStep /\ toClient' = Append(toClient, Message("garbage", 0)) /\ toServer' \in Pipe
        /\ asked' \in 0..MaxAsked /\ asked <= asked'
    BY <1>0, <1>11 DEF ServerWritesGarbage, LinkInv, LinkTypes
  <2> QED BY <2>1, <2>2, ServerWrites
<1> QED
  BY <1>1, <1>2, <1>3, <1>4, <1>5, <1>6, <1>7, <1>8, <1>9, <1>10, <1>11, AnswerGoesOut, LineReceived DEF RpcNext

\* Who waits on the App Server is answered, and once: the property EachAnsweredOnce of the
\* client of codex-app-server.ts, in every state of every run, for every number of requests
\* and approvals.
THEOREM WaitersAreAnswered == RpcSpec => []EachAnsweredOnce
<1>1. RpcInit => LinkInv
  BY RpcAssumption DEF RpcInit, LinkInv, LinkTypes, AnnouncedOnce, AnsweredOnce, NoneWaits, Asked
<1>2. LinkInv /\ [RpcNext]_rpcVars => LinkInv'
  <2>1. ASSUME LinkInv, UNCHANGED rpcVars PROVE LinkInv'
    BY <2>1 DEF rpcVars, LinkInv, LinkTypes, AnnouncedOnce, AnsweredOnce, NoneWaits
  <2> QED BY <2>1, LinkInductive
<1>3. LinkInv => EachAnsweredOnce BY DEF LinkInv, AnsweredOnce, NoneWaits, EachAnsweredOnce
<1> QED BY <1>1, <1>2, <1>3, PTL DEF RpcSpec


-----------------------------------------------------------------------------
(* The harness.  What may be said next depends on what was said last: of a *)
(* turn that has started, more of that turn; otherwise the start of        *)
(* another.  The timers and microtasks that are still to run know whether  *)
(* their turn has started, if it is the active one.                        *)

Methods == {"started", "text", "text completed"} \union Ends
Events  == [method : Methods, turn : Nat]

\* e is the first event, or comes after b.
EventFits(first, b, e) ==
  /\ IF e.method = "started" THEN first \/ b.method \in Ends
     ELSE /\ ~first /\ b.turn = e.turn /\ b.method \notin Ends
          /\ b.method = "text completed" => e.method \in Ends
  /\ e.turn \in stopped /\ e.method \in Ends => e.method = "interrupted"

Fits(s) == \A k \in DOMAIN s : EventFits(k = 1, s[k - 1], s[k])

MayFollow(s, e) == EventFits(s = <<>>, s[Len(s)], e)

\* The events u are those of s and e.
Longer(s, e, u) ==
  /\ u \in Seq(Events) /\ u # <<>> /\ u[Len(u)] = e /\ Fits(u)
  /\ \A k \in DOMAIN u : u[k] = e \/ (k \in DOMAIN s /\ u[k] = s[k])

\* An event that may follow leaves the events in their order.
LEMMA EventAppended ==
  ASSUME NEW s \in Seq(Events), NEW e \in Events, Fits(s), MayFollow(s, e)
  PROVE  Longer(s, e, Append(s, e))
<1> DEFINE u == Append(s, e)
<1>1. /\ Len(s) \in Nat /\ DOMAIN s = 1..Len(s) /\ u \in Seq(Events) /\ Len(u) = Len(s) + 1
      /\ DOMAIN u = 1..(Len(s) + 1) /\ u[Len(s) + 1] = e /\ \A k \in DOMAIN s : u[k] = s[k]
      /\ u # <<>>
  OBVIOUS
<1> HIDE DEF u
<1>2. ASSUME NEW k \in DOMAIN s PROVE EventFits(k = 1, u[k - 1], u[k])
  <2>1. EventFits(k = 1, s[k - 1], s[k]) BY DEF Fits
  <2>2. CASE k = 1 BY <1>1, <2>1, <2>2 DEF EventFits
  <2>3. CASE k # 1
    <3>1. k - 1 \in DOMAIN s BY <1>1, <2>3
    <3>2. u[k] = s[k] /\ u[k - 1] = s[k - 1] BY <1>1, <3>1
    <3> QED BY <2>1, <3>2
  <2> QED BY <2>2, <2>3
<1>3. ASSUME NEW k \in DOMAIN u, k = Len(s) + 1 PROVE EventFits(k = 1, u[k - 1], u[k])
  <2>1. u[k] = e /\ k - 1 = Len(s) BY <1>1, <1>3
  <2>2. CASE s = <<>>
    <3>1. k = 1 BY <1>1, <1>3, <2>2
    <3>2. EventFits(TRUE, s[Len(s)], e) BY <2>2 DEF MayFollow
    <3> QED BY <2>1, <3>1, <3>2 DEF EventFits
  <2>3. CASE s # <<>>
    <3>1. Len(s) \in DOMAIN s /\ k # 1 BY <1>1, <1>3, <2>3
    <3>2. u[k - 1] = s[Len(s)] BY <1>1, <2>1, <3>1
    <3>3. EventFits(FALSE, s[Len(s)], e) BY <2>3 DEF MayFollow
    <3> QED BY <2>1, <3>1, <3>2, <3>3
  <2> QED BY <2>2, <2>3
<1>4. Fits(u)
  <2>1. \A k \in DOMAIN u : k \in DOMAIN s \/ k = Len(s) + 1 BY <1>1
  <2> QED BY <1>2, <1>3, <2>1 DEF Fits
<1>5. Longer(s, e, u) BY <1>1, <1>4 DEF Longer
<1> QED BY <1>5 DEF u

\* Emitting one event appends it.
LEMMA OneMore ==
  ASSUME NEW s \in Seq(Events), NEW e \in Events PROVE s \o <<e>> = Append(s, e)
<1>1. <<e>> \in Seq(Events) /\ Len(<<e>>) = 1 /\ <<e>>[1] = e OBVIOUS
<1>2. /\ s \o <<e>> \in Seq(Events) /\ Len(s \o <<e>>) = Len(s) + 1
      /\ \A i \in 1..Len(s) + 1 : (s \o <<e>>)[i] = IF i <= Len(s) THEN s[i] ELSE <<e>>[i - Len(s)]
  BY <1>1, ConcatProperties, Zenon
<1>3. /\ Append(s, e) \in Seq(Events) /\ Len(Append(s, e)) = Len(s) + 1
      /\ \A i \in 1..Len(s) + 1 : Append(s, e)[i] = IF i <= Len(s) THEN s[i] ELSE e
  OBVIOUS
<1>4. \A i \in 1..Len(s) + 1 : (s \o <<e>>)[i] = Append(s, e)[i]
  <2> TAKE i \in 1..Len(s) + 1
  <2>1. Len(s) \in Nat OBVIOUS
  <2>2. CASE i <= Len(s) BY <1>2, <1>3, <2>2
  <2>3. CASE ~(i <= Len(s))
    <3>1. i - Len(s) = 1 BY <2>1, <2>3
    <3>2. (s \o <<e>>)[i] = <<e>>[i - Len(s)] BY <1>2, <2>3
    <3>3. Append(s, e)[i] = e BY <1>3, <2>3
    <3> QED BY <1>1, <3>1, <3>2, <3>3
  <2> QED BY <2>2, <2>3
<1>5. \A a, b \in Seq(Events) : Len(a) = Len(b) /\ (\A i \in 1..Len(a) : a[i] = b[i]) => a = b
  BY SeqEqual
<1> QED BY <1>2, <1>3, <1>4, <1>5

\* The end of a turn that speaks: the events u are those of s and some of turn t.
Ended(s, t, u) ==
  /\ u \in Seq(Events) /\ u # <<>> /\ u[Len(u)].method \in Ends /\ Fits(u)
  /\ \A k \in DOMAIN u : u[k].turn = t \/ (k \in DOMAIN s /\ u[k] = s[k])

\* The closing events of the turn that is told last end it, and leave the events in their order.
LEMMA TurnClosed ==
  ASSUME NEW s \in Seq(Events), Fits(s), NEW t \in Nat, NEW method \in Ends,
         s # <<>>, s[Len(s)].turn = t, s[Len(s)].method \in {"started", "text"},
         t \in stopped => method = "interrupted"
  PROVE  Ended(s, t, s \o Closing(method, t))
<1> DEFINE u == s \o Closing(method, t)
<1>0. u = s \o Closing(method, t) OBVIOUS
<1> HIDE DEF u
<1>1. /\ Emission(method, t) \in Events /\ Emission("text completed", t) \in Events
      /\ Emission(method, t).turn = t /\ Emission("text completed", t).turn = t
      /\ Emission(method, t).method = method /\ Emission("text completed", t).method = "text completed"
  BY DEF Events, Methods, Emission
<1>2. PICK over \in Events, spoken \in Events :
        /\ over = Emission(method, t) /\ spoken = Emission("text completed", t)
  BY <1>1
<1>3. /\ over.turn = t /\ spoken.turn = t /\ over.method = method /\ spoken.method = "text completed"
      /\ method \notin {"started", "text", "text completed"}
  BY <1>1, <1>2 DEF Ends
<1>4. /\ active.text > 0 => Closing(method, t) = <<spoken>> \o <<over>>
      /\ ~(active.text > 0) => Closing(method, t) = <<>> \o <<over>>
  BY <1>2 DEF Closing
<1>5. <<over>> \in Seq(Events) /\ <<spoken>> \in Seq(Events) OBVIOUS
<1>6. CASE active.text > 0
  <2>0. PICK full \in Seq(Events) : full = Append(s, spoken)
    <3>1. Append(s, spoken) \in Seq(Events) OBVIOUS
    <3> QED BY <3>1
  <2>1. u = Append(full, over)
    <3>1. s \o (<<spoken>> \o <<over>>) = (s \o <<spoken>>) \o <<over>> BY <1>5, ConcatAssociative
    <3>2. s \o <<spoken>> = full BY <2>0, OneMore
    <3>3. full \o <<over>> = Append(full, over) BY OneMore
    <3> QED BY <1>0, <1>4, <1>6, <3>1, <3>2, <3>3
  <2>2. MayFollow(s, spoken) BY <1>3 DEF MayFollow, EventFits, Ends
  <2>3. Longer(s, spoken, full) BY <2>0, <2>2, EventAppended
  <2>4. MayFollow(full, over) BY <1>3, <2>3 DEF MayFollow, EventFits, Longer, Ends
  <2>5. Fits(full) BY <2>3 DEF Longer
  <2>6. Longer(full, over, u) BY <2>1, <2>4, <2>5, EventAppended
  <2>7. u[Len(u)].method \in Ends BY <1>3, <2>6 DEF Longer
  <2>8. \A k \in DOMAIN u : u[k].turn = t \/ (k \in DOMAIN s /\ u[k] = s[k])
    BY <1>3, <2>3, <2>6 DEF Longer
  <2>9. Ended(s, t, u) BY <2>6, <2>7, <2>8 DEF Longer, Ended
  <2> QED BY <1>0, <2>9
<1>7. CASE ~(active.text > 0)
  <2>1. u = Append(s, over)
    <3>1. <<>> \o <<over>> = <<over>> BY <1>5, ConcatEmptySeq, Zenon
    <3>2. s \o <<over>> = Append(s, over) BY OneMore
    <3> QED BY <1>0, <1>4, <1>7, <3>1, <3>2
  <2>2. MayFollow(s, over) BY <1>3 DEF MayFollow, EventFits, Ends
  <2>3. Longer(s, over, u) BY <2>1, <2>2, EventAppended
  <2>4. u[Len(u)].method \in Ends BY <1>3, <2>3 DEF Longer
  <2>5. \A k \in DOMAIN u : u[k].turn = t \/ (k \in DOMAIN s /\ u[k] = s[k])
    BY <1>3, <2>3 DEF Longer
  <2>6. Ended(s, t, u) BY <2>3, <2>4, <2>5 DEF Longer, Ended
  <2> QED BY <1>0, <2>6
<1> QED BY <1>6, <1>7

HarnessTypes ==
  /\ emitted \in Seq(Events) /\ piTurnsStarted \in Nat
  /\ active \in [turn : Nat, interrupted : BOOLEAN, started : BOOLEAN, text : Nat]
  /\ active.turn = 0 => active = Inactive

\* No turn is heard of, or waited for, before startTurn has numbered it.
Numbered ==
  /\ active.turn <= piTurnsStarted
  /\ \A k \in DOMAIN emitted : emitted[k].turn <= piTurnsStarted
  /\ \A t \in stopped \union timers \union microtasks \union {prompting} : t \in Nat /\ t <= piTurnsStarted

SpeaksOfActive ==
  ~piClosed =>
    IF active.started
    THEN /\ emitted # <<>> /\ emitted[Len(emitted)].turn = active.turn
         /\ emitted[Len(emitted)].method \in {"started", "text"}
    ELSE emitted = <<>> \/ emitted[Len(emitted)].method \in Ends

ActiveNotOver ==
  active.turn # 0 =>
    /\ \A k \in DOMAIN emitted : emitted[k].turn = active.turn => emitted[k].method \notin Ends
    /\ active.turn \in stopped => active.interrupted

DueForActive ==
  active.turn # 0 =>
    /\ active.turn \in timers => ~active.started
    /\ active.turn \in microtasks \union {prompting} => active.started

HarnessInv ==
  HarnessTypes /\ Numbered /\ SpeaksOfActive /\ ActiveNotOver /\ DueForActive /\ Fits(emitted)

\* Events in their order are what TurnEventsFit asks for.
LEMMA EventsFit == ASSUME Fits(emitted), emitted \in Seq(Events) PROVE TurnEventsFit
<1>1. ASSUME NEW k \in DOMAIN emitted
      PROVE  /\ CASE emitted[k].method = "started" -> k = 1 \/ emitted[k - 1].method \in Ends
                  [] OTHER -> /\ k > 1 /\ emitted[k - 1].turn = emitted[k].turn
                              /\ emitted[k - 1].method \notin Ends
                              /\ emitted[k - 1].method = "text completed" => emitted[k].method \in Ends
             /\ emitted[k].turn \in stopped /\ emitted[k].method \in Ends => emitted[k].method = "interrupted"
  <2>1. EventFits(k = 1, emitted[k - 1], emitted[k]) BY DEF Fits
  <2>2. k \in Nat /\ k >= 1 OBVIOUS
  <2>3. k # 1 => k > 1 BY <2>2
  <2>4. CASE emitted[k].method = "started" BY <2>1, <2>4 DEF EventFits
  <2>5. CASE emitted[k].method # "started" BY <2>1, <2>3, <2>5 DEF EventFits
  <2> QED BY <2>4, <2>5
<1> QED BY <1>1 DEF TurnEventsFit

\* While no turn is stopped, the order depends on the events alone.
LEMMA FitsStill ==
  ASSUME UNCHANGED stopped, NEW u, Fits(u), emitted' = u PROVE Fits(emitted)'
<1>1. ASSUME NEW k \in DOMAIN emitted' PROVE EventFits(k = 1, u[k - 1], u[k]) BY DEF Fits
<1>2. ASSUME NEW k \in DOMAIN emitted' PROVE EventFits(k = 1, emitted[k - 1], emitted[k])'
  <2>1. EventFits(k = 1, u[k - 1], u[k]) BY <1>1
  <2> QED BY <2>1 DEF EventFits
<1> QED BY <1>2 DEF Fits

\* Nothing is said, and the active turn is the same or none.
LEMMA NothingSaid ==
  ASSUME HarnessInv, UNCHANGED <<emitted, stopped, piTurnsStarted>>, piClosed => piClosed',
         \/ UNCHANGED active
         \/ active' = Inactive /\ piClosed',
         Numbered', DueForActive'
  PROVE  HarnessInv'
<1>1. HarnessTypes'
  <2>1. Inactive \in [turn : Nat, interrupted : BOOLEAN, started : BOOLEAN, text : Nat] BY DEF Inactive
  <2>2. UNCHANGED active \/ active' = Inactive OBVIOUS
  <2> QED BY <2>1, <2>2 DEF HarnessInv, HarnessTypes
<1>2. SpeaksOfActive' BY DEF HarnessInv, SpeaksOfActive
<1>3. ActiveNotOver' BY DEF HarnessInv, ActiveNotOver, Inactive
<1>4. Fits(emitted)' BY FitsStill DEF HarnessInv
<1> QED BY <1>1, <1>2, <1>3, <1>4 DEF HarnessInv

\* The active turn says its end.
LEMMA ActiveEnds ==
  ASSUME HarnessInv, NEW s \in Seq(Events), Fits(s), NEW method \in Ends, ~piClosed, active.turn # 0,
         s # <<>>, s[Len(s)].turn = active.turn, s[Len(s)].method \in {"started", "text"},
         \A k \in DOMAIN s : s[k].turn <= piTurnsStarted,
         active.turn \in stopped => method = "interrupted",
         emitted' = s \o Closing(method, active.turn), active' = Inactive,
         UNCHANGED <<piTurnsStarted, piClosed, stopped>>,
         \A t \in timers' \union microtasks' \union {prompting'} : t \in Nat /\ t <= piTurnsStarted
  PROVE  HarnessInv'
<1> DEFINE t == active.turn
           u == s \o Closing(method, t)
<1>1. t \in Nat /\ t <= piTurnsStarted BY DEF HarnessInv, HarnessTypes, Numbered
<1>2. Ended(s, t, u) BY <1>1, TurnClosed
<1> HIDE DEF t, u
<1>3. emitted' = u BY DEF u, t
<1>4. Fits(emitted)' BY <1>2, <1>3, FitsStill DEF Ended
<1>5. HarnessTypes' /\ SpeaksOfActive' /\ ActiveNotOver' /\ DueForActive'
  BY <1>2, <1>3 DEF HarnessInv, HarnessTypes, SpeaksOfActive, ActiveNotOver, DueForActive, Inactive, Ended
<1>6. Numbered'
  <2>1. \A k \in DOMAIN u : u[k].turn <= piTurnsStarted BY <1>1, <1>2 DEF Ended
  <2>2. active'.turn <= piTurnsStarted BY DEF Inactive, HarnessInv, HarnessTypes
  <2> QED BY <1>3, <2>1, <2>2 DEF HarnessInv, Numbered
<1> QED BY <1>4, <1>5, <1>6 DEF HarnessInv

\* The active turn says that it starts, or more of its text.
LEMMA ActiveSpeaks ==
  ASSUME HarnessInv, NEW e \in Events, MayFollow(emitted, e), ~piClosed, active.turn # 0,
         e.turn = active.turn, e.method \in {"started", "text"}, emitted' = Append(emitted, e),
         active' \in [turn : Nat, interrupted : BOOLEAN, started : BOOLEAN, text : Nat],
         active'.turn = active.turn, active'.started, active'.interrupted = active.interrupted,
         UNCHANGED <<piTurnsStarted, piClosed, stopped, prompting>>, timers' \subseteq timers,
         microtasks' \subseteq microtasks \union {active.turn}, active.turn \notin timers'
  PROVE  HarnessInv'
<1>1. Longer(emitted, e, emitted') BY EventAppended DEF HarnessInv, HarnessTypes
<1>2. e.method \notin Ends BY DEF Ends
<1>3. Fits(emitted)'
  <2>1. Fits(Append(emitted, e)) BY <1>1 DEF Longer
  <2> QED BY <2>1, FitsStill
<1>4. HarnessTypes' /\ SpeaksOfActive' /\ DueForActive'
  BY <1>1 DEF HarnessInv, HarnessTypes, SpeaksOfActive, DueForActive, Longer
<1>5. ActiveNotOver' BY <1>1, <1>2 DEF HarnessInv, ActiveNotOver, Longer
<1>6. Numbered'
  <2>1. \A k \in DOMAIN emitted' : emitted'[k].turn <= piTurnsStarted
    BY <1>1 DEF HarnessInv, Numbered, Longer
  <2>2. active.turn \in Nat /\ active.turn <= piTurnsStarted BY DEF HarnessInv, HarnessTypes, Numbered
  <2> QED BY <2>1, <2>2 DEF HarnessInv, Numbered
<1> QED BY <1>3, <1>4, <1>5, <1>6 DEF HarnessInv


\* Every step of the harness keeps its invariant.
LEMMA HarnessInductive ==
  ASSUME HarnessInv, PiNext PROVE HarnessInv'
<1> DEFINE Actives == [turn : Nat, interrupted : BOOLEAN, started : BOOLEAN, text : Nat]
<1>0. /\ active \in Actives /\ active.turn \in Nat /\ active.turn <= piTurnsStarted /\ piTurnsStarted \in Nat
      /\ emitted \in Seq(Events) /\ Fits(emitted) /\ (active.turn = 0 => active = Inactive)
  BY DEF HarnessInv, HarnessTypes, Numbered
<1>1. CASE StartThread \/ ThreadCreated
  <2>1. UNCHANGED <<active, piTurnsStarted, timers, microtasks, prompting, piClosed, emitted, stopped>>
    BY <1>1 DEF StartThread, ThreadCreated
  <2>2. Numbered' /\ DueForActive' BY <2>1 DEF HarnessInv, Numbered, DueForActive
  <2> QED BY <2>1, <2>2, NothingSaid
<1>2. CASE StartPiTurn
  <2> DEFINE new == piTurnsStarted + 1
             fresh == [Inactive EXCEPT !.turn = new]
  <2>1. /\ active = Inactive /\ piTurnsStarted' = new /\ active' = fresh /\ timers' = timers \union {new}
        /\ UNCHANGED <<microtasks, prompting, piClosed, emitted, stopped>>
    BY <1>2 DEF StartPiTurn, NoActiveTurn
  <2>2. new \in Nat /\ new > piTurnsStarted /\ new # 0 BY <1>0
  <2>3. fresh \in Actives /\ fresh.turn = new /\ ~fresh.started /\ ~fresh.interrupted /\ ~active.started
    BY <2>1, <2>2 DEF Inactive
  <2> HIDE DEF new, fresh
  <2>4. HarnessTypes' BY <1>0, <2>1, <2>2, <2>3 DEF HarnessTypes
  <2>5. Numbered'
    <3>1. piTurnsStarted <= new BY <1>0, <2>2
    <3>2. \A k \in DOMAIN emitted : emitted[k].turn \in Nat /\ emitted[k].turn <= new
      <4> TAKE k \in DOMAIN emitted
      <4>1. emitted[k] \in Events /\ emitted[k].turn <= piTurnsStarted BY <1>0 DEF HarnessInv, Numbered
      <4> QED BY <1>0, <2>2, <4>1 DEF Events
    <3>3. \A t \in stopped \union timers \union microtasks \union {prompting} : t \in Nat /\ t <= new
      BY <1>0, <2>2 DEF HarnessInv, Numbered
    <3> QED BY <2>1, <2>2, <2>3, <3>2, <3>3 DEF Numbered
  <2>6. SpeaksOfActive' BY <2>1, <2>3 DEF HarnessInv, SpeaksOfActive
  <2>7. ActiveNotOver'
    <3>1. \A k \in DOMAIN emitted : emitted[k].turn # new
      <4> TAKE k \in DOMAIN emitted
      <4>1. emitted[k] \in Events /\ emitted[k].turn <= piTurnsStarted BY <1>0 DEF HarnessInv, Numbered
      <4> QED BY <1>0, <2>2, <4>1 DEF Events
    <3>2. new \notin stopped BY <1>0, <2>2 DEF HarnessInv, Numbered
    <3> QED BY <2>1, <2>3, <3>1, <3>2 DEF ActiveNotOver
  <2>8. DueForActive'
    <3>1. new \notin microtasks \union {prompting} BY <1>0, <2>2 DEF HarnessInv, Numbered
    <3> QED BY <2>1, <2>3, <3>1 DEF DueForActive
  <2>9. Fits(emitted)' BY <2>1, <1>0, FitsStill
  <2> QED BY <2>4, <2>5, <2>6, <2>7, <2>8, <2>9 DEF HarnessInv
<1>3. CASE ReceiveText
  <2>1. UNCHANGED <<piTurnsStarted, timers, microtasks, prompting, piClosed, stopped>>
    BY <1>3 DEF ReceiveText
  <2>2. CASE piClosed \/ ~active.started
    <3>1. UNCHANGED <<active, emitted>> BY <1>3, <2>2 DEF ReceiveText
    <3>2. Numbered' /\ DueForActive' BY <2>1, <3>1 DEF HarnessInv, Numbered, DueForActive
    <3> QED BY <2>1, <3>1, <3>2, NothingSaid
  <2>3. CASE ~piClosed /\ active.started
    <3> DEFINE e == Emission("text", active.turn)
               more == [active EXCEPT !.text = @ + 1]
    <3>1. active' = more /\ emitted' = Append(emitted, e) BY <1>3, <2>3 DEF ReceiveText
    <3>2. more \in Actives /\ more.turn = active.turn /\ more.started = active.started
          /\ more.interrupted = active.interrupted
      BY <1>0
    <3>3. e \in Events /\ e.turn = active.turn /\ e.method = "text" BY <1>0 DEF Emission, Events, Methods
    <3> HIDE DEF more, e
    <3>4. active.turn # 0 BY <1>0, <2>3 DEF Inactive
    <3>5. MayFollow(emitted, e)
      <4>1. /\ emitted # <<>> /\ emitted[Len(emitted)].turn = active.turn
            /\ emitted[Len(emitted)].method \in {"started", "text"}
        BY <2>3 DEF HarnessInv, SpeaksOfActive
      <4> QED BY <3>3, <4>1 DEF MayFollow, EventFits, Ends
    <3>6. active.turn \notin timers BY <2>3, <3>4 DEF HarnessInv, DueForActive
    <3> QED BY <2>1, <2>3, <3>1, <3>2, <3>3, <3>4, <3>5, <3>6, ActiveSpeaks
  <2> QED BY <2>2, <2>3
<1>4. CASE InterruptPiTurn
  <2> DEFINE marked == [active EXCEPT !.interrupted = TRUE]
  <2>1. /\ active # Inactive /\ active' = marked /\ stopped' = stopped \union {active.turn}
        /\ UNCHANGED <<piTurnsStarted, timers, microtasks, prompting, piClosed, emitted>>
    BY <1>4 DEF InterruptPiTurn, MarkInterrupted
  <2>2. marked \in Actives /\ marked.turn = active.turn /\ marked.started = active.started /\ marked.interrupted
    BY <1>0
  <2> HIDE DEF marked
  <2>3. active.turn # 0 BY <1>0, <2>1
  <2>4. HarnessTypes' BY <1>0, <2>1, <2>2, <2>3 DEF HarnessTypes
  <2>5. Numbered' BY <1>0, <2>1, <2>2 DEF HarnessInv, Numbered
  <2>6. SpeaksOfActive' BY <2>1, <2>2 DEF HarnessInv, SpeaksOfActive
  <2>7. ActiveNotOver' BY <2>1, <2>2, <2>3 DEF HarnessInv, ActiveNotOver
  <2>8. DueForActive' BY <2>1, <2>2, <2>3 DEF HarnessInv, DueForActive
  <2>9. Fits(emitted)'
    <3>1. ASSUME NEW k \in DOMAIN emitted
          PROVE  EventFits(k = 1, emitted[k - 1], emitted[k])'
      <4>1. EventFits(k = 1, emitted[k - 1], emitted[k]) BY <1>0 DEF Fits
      <4>2. emitted[k].method \in Ends => emitted[k].turn # active.turn
        BY <2>3 DEF HarnessInv, ActiveNotOver
      <4> QED BY <2>1, <4>1, <4>2 DEF EventFits
    <3> QED BY <2>1, <3>1 DEF Fits
  <2> QED BY <2>4, <2>5, <2>6, <2>7, <2>8, <2>9 DEF HarnessInv
<1>5. CASE ClosePi
  <2>1. /\ piClosed' /\ active' = Inactive
        /\ UNCHANGED <<piTurnsStarted, timers, microtasks, prompting, emitted, stopped>>
    BY <1>5 DEF ClosePi
  <2>2. active'.turn = 0 BY <2>1 DEF Inactive
  <2>3. Numbered' /\ DueForActive' BY <1>0, <2>1, <2>2 DEF HarnessInv, Numbered, DueForActive
  <2> QED BY <2>1, <2>3, NothingSaid
<1>6. ASSUME NEW t \in PiTurns, BeginTurn(t) PROVE HarnessInv'
  <2>1. /\ t \in timers /\ timers' = timers \ {t} /\ t \in Nat /\ t # 0
        /\ UNCHANGED <<piTurnsStarted, prompting, piClosed, stopped>>
    BY <1>6, PiAssumption DEF BeginTurn, PiTurns
  <2>2. CASE piClosed \/ active.turn # t
    <3>1. UNCHANGED <<active, microtasks, emitted>> BY <1>6, <2>2 DEF BeginTurn
    <3>2. Numbered' /\ DueForActive' BY <2>1, <3>1 DEF HarnessInv, Numbered, DueForActive
    <3> QED BY <2>1, <3>1, <3>2, NothingSaid
  <2>3. CASE ~piClosed /\ active.turn = t
    <3>1. /\ active.turn # 0 /\ ~active.started
          /\ emitted = <<>> \/ emitted[Len(emitted)].method \in Ends
      BY <2>1, <2>3 DEF HarnessInv, DueForActive, SpeaksOfActive
    <3>2. PICK e \in Events : e = Emission("started", t)
      <4>1. Emission("started", t) \in Events BY <2>1 DEF Emission, Events, Methods
      <4> QED BY <4>1
    <3>3. e.turn = active.turn /\ e.method = "started" BY <2>3, <3>2 DEF Emission
    <3>4. MayFollow(emitted, e) BY <3>1, <3>3 DEF MayFollow, EventFits, Ends
    <3>5. CASE active.interrupted
      <4>1. PICK s \in Seq(Events) : s = Append(emitted, e)
        <5>1. Append(emitted, e) \in Seq(Events) BY <1>0
        <5> QED BY <5>1
      <4>2. Longer(emitted, e, s) BY <1>0, <3>4, <4>1, EventAppended
      <4>3. Fits(s) /\ s # <<>> /\ s[Len(s)].turn = active.turn /\ s[Len(s)].method \in {"started", "text"}
        BY <3>3, <4>2 DEF Longer
      <4>4. \A k \in DOMAIN s : s[k].turn <= piTurnsStarted
        BY <1>0, <3>3, <4>2 DEF Longer, HarnessInv, Numbered
      <4>5. /\ emitted' = (emitted \o <<e>>) \o Closing("interrupted", active.turn)
            /\ active' = Inactive /\ UNCHANGED microtasks
        BY <1>6, <2>3, <3>2, <3>5 DEF BeginTurn
      <4>6. emitted' = s \o Closing("interrupted", active.turn) BY <1>0, <4>1, <4>5, OneMore
      <4>7. "interrupted" \in Ends BY DEF Ends
      <4>8. \A d \in timers' \union microtasks' \union {prompting'} : d \in Nat /\ d <= piTurnsStarted
        BY <2>1, <4>5 DEF HarnessInv, Numbered
      <4> QED BY <2>1, <2>3, <3>1, <4>3, <4>4, <4>5, <4>6, <4>7, <4>8, ActiveEnds
    <3>6. CASE ~active.interrupted
      <4> DEFINE begun == [active EXCEPT !.started = TRUE]
      <4>1. /\ emitted' = Append(emitted, e) /\ active' = begun /\ microtasks' = microtasks \union {t}
        BY <1>6, <2>3, <3>2, <3>6 DEF BeginTurn
      <4>2. begun \in Actives /\ begun.turn = active.turn /\ begun.started /\ begun.interrupted = active.interrupted
        BY <1>0
      <4> HIDE DEF begun
      <4>3. timers' \subseteq timers /\ microtasks' \subseteq microtasks \union {active.turn}
            /\ active.turn \notin timers'
        BY <2>1, <2>3, <4>1
      <4> QED BY <2>1, <2>3, <3>1, <3>3, <3>4, <4>1, <4>2, <4>3, ActiveSpeaks
    <3> QED BY <3>5, <3>6
  <2> QED BY <2>2, <2>3
<1>7. ASSUME NEW t \in PiTurns, CallPrompt(t) PROVE HarnessInv'
  <2>1. /\ t \in microtasks /\ microtasks' = microtasks \ {t} /\ prompting' = t
        /\ UNCHANGED <<active, piTurnsStarted, timers, piClosed, emitted, stopped>>
    BY <1>7 DEF CallPrompt
  <2>2. Numbered' /\ DueForActive' BY <2>1 DEF HarnessInv, Numbered, DueForActive
  <2> QED BY <2>1, <2>2, NothingSaid
<1>8. ASSUME NEW succeeded \in BOOLEAN, PromptSettles(succeeded) PROVE HarnessInv'
  <2>1. /\ prompting # 0 /\ prompting' = 0
        /\ UNCHANGED <<piTurnsStarted, timers, microtasks, piClosed, stopped>>
    BY <1>8 DEF PromptSettles
  <2>2. CASE ~EndsOnlyActive(prompting)
    <3>1. UNCHANGED <<active, emitted>> BY <1>8, <2>2 DEF PromptSettles
    <3>2. Numbered' BY <1>0, <2>1, <3>1 DEF HarnessInv, Numbered
    <3>3. DueForActive' BY <2>1, <3>1 DEF HarnessInv, DueForActive
    <3> QED BY <2>1, <3>1, <3>2, <3>3, NothingSaid
  <2>3. CASE EndsOnlyActive(prompting)
    <3>1. ~piClosed /\ active.turn = prompting /\ active.turn # 0 BY <2>1, <2>3 DEF EndsOnlyActive
    <3>2. /\ active.started /\ emitted # <<>> /\ emitted[Len(emitted)].turn = active.turn
          /\ emitted[Len(emitted)].method \in {"started", "text"}
      BY <3>1 DEF HarnessInv, DueForActive, SpeaksOfActive
    <3>3. PICK method \in Ends :
            /\ method = IF active.interrupted THEN "interrupted" ELSE IF succeeded THEN "completed" ELSE "failed"
      BY DEF Ends
    <3>4. emitted' = emitted \o Closing(method, active.turn) /\ active' = Inactive
      BY <1>8, <2>3, <3>1, <3>3 DEF PromptSettles
    <3>5. active.turn \in stopped => method = "interrupted"
      BY <3>1, <3>3 DEF HarnessInv, ActiveNotOver
    <3>6. /\ \A k \in DOMAIN emitted : emitted[k].turn <= piTurnsStarted
          /\ \A d \in timers' \union microtasks' \union {prompting'} : d \in Nat /\ d <= piTurnsStarted
      BY <1>0, <2>1 DEF HarnessInv, Numbered
    <3> QED BY <1>0, <2>1, <3>1, <3>2, <3>4, <3>5, <3>6, ActiveEnds
  <2> QED BY <2>2, <2>3
<1> QED BY <1>1, <1>2, <1>3, <1>4, <1>5, <1>6, <1>7, <1>8 DEF PiNext

\* The workbench may rely on the events of a turn: the property TurnEventsFit of the harness
\* of pi-harness.ts, in every state of every run, for every number of turns and of pieces of
\* text.
THEOREM EventsComeInOrder == PiSpec => []TurnEventsFit
<1>1. PiInit => HarnessInv
  <2> SUFFICES ASSUME PiInit PROVE HarnessInv OBVIOUS
  <2>1. /\ active = Inactive /\ piTurnsStarted = 0 /\ timers = {} /\ microtasks = {} /\ prompting = 0
        /\ emitted = <<>> /\ stopped = {}
    BY DEF PiInit
  <2>2. /\ Inactive \in [turn : Nat, interrupted : BOOLEAN, started : BOOLEAN, text : Nat]
        /\ Inactive.turn = 0 /\ ~Inactive.started
    BY DEF Inactive
  <2>3. HarnessTypes /\ Numbered BY <2>1, <2>2 DEF HarnessTypes, Numbered
  <2>4. SpeaksOfActive /\ ActiveNotOver /\ DueForActive
    BY <2>1, <2>2 DEF SpeaksOfActive, ActiveNotOver, DueForActive
  <2>5. Fits(emitted) BY <2>1 DEF Fits
  <2> QED BY <2>3, <2>4, <2>5 DEF HarnessInv
<1>2. HarnessInv /\ [PiNext]_piVars => HarnessInv'
  <2>1. ASSUME HarnessInv, UNCHANGED piVars PROVE HarnessInv'
    <3>1. UNCHANGED <<active, piTurnsStarted, timers, microtasks, prompting, piClosed, emitted, stopped>>
      BY <2>1 DEF piVars
    <3>2. Numbered' /\ DueForActive' BY <2>1, <3>1 DEF HarnessInv, Numbered, DueForActive
    <3> QED BY <2>1, <3>1, <3>2, NothingSaid
  <2> QED BY <2>1, HarnessInductive
<1>3. HarnessInv => TurnEventsFit BY EventsFit DEF HarnessInv, HarnessTypes
<1> QED BY <1>1, <1>2, <1>3, PTL DEF PiSpec

-----------------------------------------------------------------------------
(* The session.  SessionSound speaks of a process that is over, of a turn  *)
(* that is sent and of a session that is open; it holds there because of   *)
(* what every await before holds: the leases, the harness, the bound       *)
(* sources, and the end of the running turn either behind the event chain  *)
(* or already seen.                                                        *)

Starting == {"run lease", "connect", "read", "lease", "resume", "notes", "todos", "read thread",
             "reconcile", "started", "draft"}
Resuming == {"lease", "resume", "notes", "todos", "read thread", "reconcile", "started"}

SessionPlaces ==
  /\ opening \in Starting \union {"open", "undo", "closing", "release", "over"}
  /\ threadLease \in {"free", "ours", "theirs", "abandoned"} /\ harness \in {"none", "up", "closed"}
  /\ bound \subseteq Sources /\ nativeTurn \in {"none", "running", "over"}
  /\ sending \in {"idle", "thread", "lease", "notes", "todos", "turn"}

SessionFlags ==
  /\ resumes \in BOOLEAN /\ runLease \in BOOLEAN /\ watching \in BOOLEAN /\ syncing \in BOOLEAN
  /\ threadKnown \in BOOLEAN /\ activeTurn \in BOOLEAN /\ reportedTurn \in BOOLEAN
  /\ dropped \in BOOLEAN /\ journaled \in BOOLEAN /\ unboundThread \in BOOLEAN

SessionTypes ==
  /\ SessionPlaces /\ SessionFlags
  /\ openFaults \in 0..MaxOpenFaults /\ heard \in Seq({"ended", "other"})

\* What is held, and what runs, at each await of the opening and of close().
HeldAt ==
  /\ opening \in {"run lease", "over"} => ~runLease /\ threadLease # "ours" /\ ~watching
  /\ opening = "run lease" => bound = {} /\ heard = <<>> /\ ~journaled
  /\ opening \in {"run lease", "connect", "release", "over"} => harness # "up" /\ ~syncing
  /\ opening \in {"read", "draft", "open", "closing"} \union Resuming => harness = "up"
  /\ sending # "idle" => opening \in {"open", "closing"}
  /\ ~resumes /\ opening \notin {"open", "closing", "release", "over"} => ~threadKnown
  /\ opening \in Resuming => resumes

\* A resumed thread is leased, then its sources are bound, one by one.
ResumedThread ==
  resumes =>
    /\ sending \in {"idle", "turn"}
    /\ opening \notin {"run lease", "over"} => "journal" \in bound
    /\ opening \in {"resume", "notes", "todos", "read thread", "reconcile", "started", "draft", "open",
                    "closing"} => threadLease = "ours"
    /\ opening \in {"todos", "read thread", "reconcile", "started", "draft", "open", "closing"}
         => "notes" \in bound
    /\ opening \in {"read thread", "reconcile", "started", "draft", "open", "closing"}
         => bound = Sources /\ watching
    /\ opening \in {"reconcile", "started", "draft", "open", "closing"} => threadKnown
    /\ journaled /\ opening # "over" => threadLease = "ours"

\* A new thread is bound by its first message, or marked.
NewThread ==
  ~resumes =>
    /\ threadKnown => "journal" \in bound
    /\ sending = "thread" => ~threadKnown
    /\ sending \in {"lease", "notes", "todos", "turn"} => threadKnown
    /\ sending \in {"notes", "todos"} => threadLease = "ours"
    /\ opening \in {"open", "closing"} /\ threadKnown /\ sending \in {"idle", "turn"} /\ ~unboundThread
         => threadLease = "ours" /\ bound = Sources /\ watching
    /\ nativeTurn = "none" /\ ~activeTurn /\ ~reportedTurn

\* The end of the running turn is behind the event chain.
EndHeard == \E i \in DOMAIN heard : heard[i] = "ended"

\* Nothing is heard without a stream to write it to, and the end of the turn is heard or
\* the turn is held for what it is.
NoticesFit ==
  /\ heard # <<>> => "journal" \in bound
  /\ ~dropped
  /\ nativeTurn = "running" => ~EndHeard
  /\ opening = "reconcile" =>
       /\ nativeTurn = "running" => reportedTurn
       /\ reportedTurn => nativeTurn = "running" \/ EndHeard
  /\ opening \in {"started", "draft", "open"} =>
       /\ nativeTurn = "running" => activeTurn
       /\ activeTurn => nativeTurn = "running" \/ EndHeard

SessionInv == SessionTypes /\ HeldAt /\ ResumedThread /\ NewThread /\ NoticesFit

SendingSteps ==
  \/ SendMessage \/ StartNewThread \/ LeaseNewThread \/ BindNewNotes \/ BindNewTodos \/ StartSentTurn

\* A flag stays a flag.
LEMMA FlagsKept ==
  ASSUME SessionTypes, [OpeningNext]_openingVars
  PROVE  SessionFlags'
<1> USE DEF SessionTypes, SessionFlags, GoesOn, Throws, SendStep, SendFails, leaseVarsOfSession,
        sourceVars, turnVars, eventVars, countVars
<1>1. CASE AcquireRun
  BY <1>1 DEF AcquireRun
<1>2. CASE Connect
  BY <1>2 DEF Connect
<1>3. CASE ReadActivities
  BY <1>3 DEF ReadActivities
<1>4. CASE LeaseThread
  BY <1>4 DEF LeaseThread
<1>5. CASE ResumeThread
  BY <1>5 DEF ResumeThread
<1>6. CASE BindNotes
  BY <1>6 DEF BindNotes
<1>7. CASE BindTodos
  BY <1>7 DEF BindTodos
<1>8. CASE ReadThread
  BY <1>8 DEF ReadThread
<1>9. CASE ReconcileResumed
  BY <1>9 DEF ReconcileResumed
<1>10. CASE JournalResumedTurn
  BY <1>10 DEF JournalResumedTurn
<1>11. CASE OpenDraft
  BY <1>11 DEF OpenDraft
<1>12. CASE SendMessage
  BY <1>12 DEF SendMessage
<1>13. CASE StartNewThread
  BY <1>13 DEF StartNewThread, BoundWithThread
<1>14. CASE LeaseNewThread
  BY <1>14 DEF LeaseNewThread
<1>15. CASE BindNewNotes
  BY <1>15 DEF BindNewNotes
<1>16. CASE BindNewTodos
  BY <1>16 DEF BindNewTodos
<1>17. CASE StartSentTurn
  BY <1>17 DEF StartSentTurn
<1>18. CASE EndNativeTurn
  BY <1>18 DEF EndNativeTurn, Attached
<1>19. CASE NotifyOther
  BY <1>19 DEF NotifyOther, Attached
<1>20. CASE HearEvent
  BY <1>20 DEF HearEvent, MayHear
<1>21. CASE FinishSync
  BY <1>21 DEF FinishSync
<1>22. CASE OtherProcess
  BY <1>22 DEF OtherProcess
<1>23. CASE CloseWorkbench
  BY <1>23 DEF CloseWorkbench
<1>24. CASE CloseHarness
  BY <1>24 DEF CloseHarness, ChainsSettled
<1>25. CASE ReleaseAll
  BY <1>25 DEF ReleaseAll
<1>26. CASE UNCHANGED openingVars
  BY <1>26 DEF openingVars
<1> QED
  BY <1>1, <1>2, <1>3, <1>4, <1>5, <1>6, <1>7, <1>8, <1>9, <1>10, <1>11, <1>12, <1>13, <1>14, <1>15,
     <1>16, <1>17, <1>18, <1>19, <1>20, <1>21, <1>22, <1>23, <1>24, <1>25, <1>26 DEF OpeningNext

\* What the process awaits, holds and has bound is one of what there is.
LEMMA PlacesKept ==
  ASSUME SessionTypes, [OpeningNext]_openingVars
  PROVE  SessionPlaces'
<1> USE DEF SessionTypes, SessionPlaces, Starting, Resuming, GoesOn, Throws, SendStep, SendFails,
        Sources, leaseVarsOfSession, sourceVars, turnVars, eventVars, countVars
<1>1. CASE AcquireRun
  BY <1>1 DEF AcquireRun
<1>2. CASE Connect
  BY <1>2 DEF Connect
<1>3. CASE ReadActivities
  BY <1>3 DEF ReadActivities
<1>4. CASE LeaseThread
  BY <1>4 DEF LeaseThread
<1>5. CASE ResumeThread
  BY <1>5 DEF ResumeThread
<1>6. CASE BindNotes
  BY <1>6 DEF BindNotes
<1>7. CASE BindTodos
  BY <1>7 DEF BindTodos
<1>8. CASE ReadThread
  BY <1>8 DEF ReadThread
<1>9. CASE ReconcileResumed
  BY <1>9 DEF ReconcileResumed
<1>10. CASE JournalResumedTurn
  BY <1>10 DEF JournalResumedTurn
<1>11. CASE OpenDraft
  BY <1>11 DEF OpenDraft
<1>12. CASE SendMessage
  BY <1>12 DEF SendMessage
<1>13. CASE StartNewThread
  BY <1>13 DEF StartNewThread, BoundWithThread
<1>14. CASE LeaseNewThread
  BY <1>14 DEF LeaseNewThread
<1>15. CASE BindNewNotes
  BY <1>15 DEF BindNewNotes
<1>16. CASE BindNewTodos
  BY <1>16 DEF BindNewTodos
<1>17. CASE StartSentTurn
  BY <1>17 DEF StartSentTurn
<1>18. CASE EndNativeTurn
  BY <1>18 DEF EndNativeTurn, Attached
<1>19. CASE NotifyOther
  BY <1>19 DEF NotifyOther, Attached
<1>20. CASE HearEvent
  BY <1>20 DEF HearEvent, MayHear
<1>21. CASE FinishSync
  BY <1>21 DEF FinishSync
<1>22. CASE OtherProcess
  BY <1>22 DEF OtherProcess
<1>23. CASE CloseWorkbench
  BY <1>23 DEF CloseWorkbench
<1>24. CASE CloseHarness
  BY <1>24 DEF CloseHarness, ChainsSettled
<1>25. CASE ReleaseAll
  BY <1>25 DEF ReleaseAll
<1>26. CASE UNCHANGED openingVars
  BY <1>26 DEF openingVars
<1> QED
  BY <1>1, <1>2, <1>3, <1>4, <1>5, <1>6, <1>7, <1>8, <1>9, <1>10, <1>11, <1>12, <1>13, <1>14, <1>15,
     <1>16, <1>17, <1>18, <1>19, <1>20, <1>21, <1>22, <1>23, <1>24, <1>25, <1>26 DEF OpeningNext

\* The notifications behind the event chain are ends of the turn and others.
LEMMA HeardKept ==
  ASSUME SessionTypes, [OpeningNext]_openingVars
  PROVE  (heard \in Seq({"ended", "other"}))'
<1> USE DEF SessionTypes, eventVars
<1>1. CASE EndNativeTurn
  <2>1. heard' = heard \/ heard' = Append(heard, "ended")
    BY <1>1 DEF EndNativeTurn
  <2> QED
    BY <2>1
<1>2. CASE NotifyOther
  <2>1. heard' = Append(heard, "other")
    BY <1>2 DEF NotifyOther
  <2> QED
    BY <2>1
<1>3. CASE HearEvent
  BY <1>3 DEF HearEvent
<1>4. CASE ~EndNativeTurn /\ ~NotifyOther /\ ~HearEvent
  <2>1. heard' = heard
    BY <1>4 DEF OpeningNext, openingVars, AcquireRun, Connect, ReadActivities, LeaseThread,
       ResumeThread, BindNotes, BindTodos, ReadThread, ReconcileResumed, JournalResumedTurn,
       OpenDraft, SendMessage, StartNewThread, LeaseNewThread, BindNewNotes, BindNewTodos,
       StartSentTurn, FinishSync, OtherProcess, CloseWorkbench, CloseHarness, ReleaseAll
  <2> QED
    BY <2>1
<1> QED
  BY <1>1, <1>2, <1>3, <1>4

OneMoreFault ==
  openFaults' = openFaults \/ (openFaults < MaxOpenFaults /\ openFaults' = openFaults + 1)

\* A step fails only where another fault is allowed.
LEMMA FaultsKept ==
  ASSUME [OpeningNext]_openingVars
  PROVE  OneMoreFault
BY DEF OneMoreFault, OpeningNext, openingVars, countVars, GoesOn, Throws, SendStep, SendFails,
   AcquireRun, Connect, ReadActivities, LeaseThread, ResumeThread, BindNotes, BindTodos, ReadThread,
   ReconcileResumed, JournalResumedTurn, OpenDraft, SendMessage, StartNewThread, LeaseNewThread,
   BindNewNotes, BindNewTodos, StartSentTurn, FinishSync, OtherProcess, CloseWorkbench,
   CloseHarness, ReleaseAll, EndNativeTurn, NotifyOther, HearEvent

\* The variables keep their types.
LEMMA TypesKept ==
  ASSUME SessionTypes, [OpeningNext]_openingVars
  PROVE  SessionTypes'
<1>1. openFaults' \in 0..MaxOpenFaults
  BY FaultsKept, SessionOpeningAssumption DEF SessionTypes, OneMoreFault, SessionOpeningAssumption
<1> QED
  BY <1>1, FlagsKept, PlacesKept, HeardKept DEF SessionTypes

\* A notification behind the chain is the end of the turn if it says so.
LEMMA HeardMore ==
  ASSUME heard \in Seq({"ended", "other"}), NEW e \in {"ended", "other"}, heard' = Append(heard, e)
  PROVE  EndHeard' <=> EndHeard \/ e = "ended"
<1>1. /\ DOMAIN heard = 1..Len(heard) /\ Len(heard) \in Nat
      /\ DOMAIN heard' = 1..Len(heard) + 1 /\ heard'[Len(heard) + 1] = e
      /\ \A i \in 1..Len(heard) : heard'[i] = heard[i]
  OBVIOUS
<1>2. \A i \in 1..Len(heard) + 1 : i \in 1..Len(heard) \/ i = Len(heard) + 1
  BY <1>1
<1>3. 1..Len(heard) \subseteq 1..Len(heard) + 1 /\ Len(heard) + 1 \in 1..Len(heard) + 1
  BY <1>1
<1> QED
  BY <1>1, <1>2, <1>3 DEF EndHeard

\* The first notification is taken off the chain, the others stay.
LEMMA HeardLess ==
  ASSUME heard \in Seq({"ended", "other"}), heard # <<>>, heard' = Tail(heard)
  PROVE  (EndHeard => EndHeard' \/ Head(heard) = "ended") /\ (EndHeard' => EndHeard)
<1>1. /\ DOMAIN heard = 1..Len(heard) /\ Len(heard) \in Nat /\ Len(heard) > 0
      /\ DOMAIN heard' = 1..Len(heard) - 1 /\ Head(heard) = heard[1]
      /\ \A i \in 1..Len(heard) - 1 : heard'[i] = heard[i + 1]
  OBVIOUS
<1>2. ASSUME NEW i \in DOMAIN heard, heard[i] = "ended"
      PROVE  EndHeard' \/ Head(heard) = "ended"
  <2>1. CASE i = 1
    BY <1>1, <1>2, <2>1
  <2>2. CASE i # 1
    <3>1. i - 1 \in 1..Len(heard) - 1 /\ heard'[i - 1] = heard[(i - 1) + 1] /\ (i - 1) + 1 = i
      BY <1>1, <1>2, <2>2
    <3> QED
      BY <1>1, <1>2, <3>1 DEF EndHeard
  <2> QED
    BY <2>1, <2>2
<1>3. ASSUME NEW i \in DOMAIN heard', heard'[i] = "ended"
      PROVE  EndHeard
  <2>1. i + 1 \in DOMAIN heard /\ heard[i + 1] = "ended"
    BY <1>1, <1>3
  <2> QED
    BY <2>1 DEF EndHeard
<1> QED
  BY <1>2, <1>3 DEF EndHeard

\* What is held at each await of the opening and of close() is held after every step.
LEMMA HeldAtKept ==
  ASSUME SessionInv, [OpeningNext]_openingVars
  PROVE  HeldAt'
<1> USE DEF SessionInv, SessionTypes, SessionPlaces, SessionFlags, HeldAt, NewThread, ResumedThread, 
        Starting, Resuming, GoesOn, Throws, SendStep, SendFails, leaseVarsOfSession, sourceVars,
           turnVars,
        eventVars, countVars
<1>1a. CASE AcquireRun
  <2>1. opening = "run lease" /\ opening' \in {"connect", "over"} /\ harness # "up" /\ ~syncing
        /\ runLease' = (opening' = "connect")
    BY <1>1a DEF AcquireRun
  <2>2. UNCHANGED <<threadLease, watching, harness, syncing, sending, resumes, threadKnown>>
    BY <1>1a DEF AcquireRun
  <2> QED
    BY <2>1, <2>2
<1>1b. CASE Connect
  BY <1>1b DEF Connect
<1>1c. CASE ReadActivities
  BY <1>1c DEF ReadActivities
<1>1d. CASE LeaseThread
  BY <1>1d DEF LeaseThread
<1>1e. CASE ResumeThread
  BY <1>1e DEF ResumeThread
<1>1f. CASE BindNotes
  BY <1>1f DEF BindNotes
<1>1g. CASE BindTodos
  BY <1>1g DEF BindTodos
<1>1h. CASE ReadThread
  BY <1>1h DEF ReadThread
<1>1i. CASE ReconcileResumed
  BY <1>1i DEF ReconcileResumed
<1>1j. CASE JournalResumedTurn
  BY <1>1j DEF JournalResumedTurn
<1>1k. CASE OpenDraft
  BY <1>1k DEF OpenDraft
<1>2a. CASE EndNativeTurn
  BY <1>2a DEF EndNativeTurn, Attached
<1>2b. CASE NotifyOther
  BY <1>2b DEF NotifyOther, Attached
<1>2c. CASE HearEvent
  BY <1>2c DEF HearEvent, MayHear
<1>2d. CASE FinishSync
  BY <1>2d DEF FinishSync
<1>2e. CASE OtherProcess
  BY <1>2e DEF OtherProcess
<1>3a. CASE CloseWorkbench
  BY <1>3a DEF CloseWorkbench
<1>3b. CASE CloseHarness
  BY <1>3b DEF CloseHarness, ChainsSettled
<1>3c. CASE ReleaseAll
  BY <1>3c DEF ReleaseAll
<1>4. CASE SendingSteps
  BY <1>4 DEF SendingSteps, SendMessage, StartNewThread, LeaseNewThread, BindNewNotes, BindNewTodos,
     StartSentTurn
<1>5. CASE UNCHANGED openingVars
  BY <1>5 DEF openingVars
<1> QED
  BY <1>1a, <1>1b, <1>1c, <1>1d, <1>1e, <1>1f, <1>1g, <1>1h, <1>1i, <1>1j, <1>1k, <1>2a, <1>2b,
     <1>2c, <1>2d, <1>2e, <1>3a, <1>3b, <1>3c, <1>4, <1>5 DEF OpeningNext, SendingSteps
\* A resumed thread stays leased, and its sources bound, once it has got them.
LEMMA ResumedThreadKept ==
  ASSUME SessionInv, [OpeningNext]_openingVars
  PROVE  ResumedThread'
<1> USE DEF SessionInv, SessionTypes, SessionPlaces, SessionFlags, HeldAt, Starting, Resuming,
        GoesOn, Throws, SendStep, SendFails,
        leaseVarsOfSession, sourceVars, turnVars, eventVars, countVars, ResumedThread, Sources
<1>1. CASE AcquireRun
  BY <1>1 DEF AcquireRun
<1>2. CASE Connect
  BY <1>2 DEF Connect
<1>3. CASE ReadActivities
  BY <1>3 DEF ReadActivities
<1>4. CASE LeaseThread
  BY <1>4 DEF LeaseThread
<1>5. CASE ResumeThread
  BY <1>5 DEF ResumeThread
<1>6. CASE BindNotes
  BY <1>6 DEF BindNotes
<1>7. CASE BindTodos
  BY <1>7 DEF BindTodos
<1>8. CASE ReadThread
  BY <1>8 DEF ReadThread
<1>9. CASE ReconcileResumed
  BY <1>9 DEF ReconcileResumed
<1>10. CASE JournalResumedTurn
  BY <1>10 DEF JournalResumedTurn
<1>11. CASE OpenDraft
  BY <1>11 DEF OpenDraft
<1>12. CASE SendMessage
  BY <1>12 DEF SendMessage
<1>13. CASE StartNewThread
  BY <1>13 DEF StartNewThread, BoundWithThread
<1>14. CASE LeaseNewThread
  BY <1>14 DEF LeaseNewThread
<1>15. CASE BindNewNotes
  BY <1>15 DEF BindNewNotes
<1>16. CASE BindNewTodos
  BY <1>16 DEF BindNewTodos
<1>17. CASE StartSentTurn
  BY <1>17 DEF StartSentTurn
<1>18. CASE EndNativeTurn
  BY <1>18 DEF EndNativeTurn
<1>19. CASE NotifyOther
  BY <1>19 DEF NotifyOther
<1>20. CASE HearEvent
  BY <1>20 DEF HearEvent, MayHear
<1>21. CASE FinishSync
  BY <1>21 DEF FinishSync
<1>22. CASE OtherProcess
  BY <1>22 DEF OtherProcess
<1>23. CASE CloseWorkbench
  BY <1>23 DEF CloseWorkbench
<1>24. CASE CloseHarness
  BY <1>24 DEF CloseHarness, ChainsSettled
<1>25. CASE ReleaseAll
  BY <1>25 DEF ReleaseAll
<1>26. CASE UNCHANGED openingVars
  BY <1>26 DEF openingVars
<1> QED
  BY <1>1, <1>2, <1>3, <1>4, <1>5, <1>6, <1>7, <1>8, <1>9, <1>10, <1>11, <1>12, <1>13, <1>14, <1>15,
     <1>16, <1>17, <1>18, <1>19, <1>20, <1>21, <1>22, <1>23, <1>24, <1>25, <1>26 DEF OpeningNext

\* A new thread is bound by the message that starts it, or marked.
LEMMA NewThreadKept ==
  ASSUME SessionInv, [OpeningNext]_openingVars
  PROVE  NewThread'
<1> USE DEF SessionInv, SessionTypes, SessionPlaces, SessionFlags, HeldAt, Starting, Resuming,
        GoesOn, Throws, SendStep, SendFails,
        leaseVarsOfSession, sourceVars, turnVars, eventVars, countVars, NewThread, Sources
<1>1. CASE AcquireRun
  BY <1>1 DEF AcquireRun
<1>2. CASE Connect
  BY <1>2 DEF Connect
<1>3. CASE ReadActivities
  BY <1>3 DEF ReadActivities
<1>4. CASE LeaseThread
  BY <1>4 DEF LeaseThread
<1>5. CASE ResumeThread
  BY <1>5 DEF ResumeThread
<1>6. CASE BindNotes
  BY <1>6 DEF BindNotes
<1>7. CASE BindTodos
  BY <1>7 DEF BindTodos
<1>8. CASE ReadThread
  BY <1>8 DEF ReadThread
<1>9. CASE ReconcileResumed
  BY <1>9 DEF ReconcileResumed
<1>10. CASE JournalResumedTurn
  BY <1>10 DEF JournalResumedTurn
<1>11. CASE OpenDraft
  BY <1>11 DEF OpenDraft
<1>12. CASE SendMessage
  BY <1>12 DEF SendMessage
<1>13. CASE StartNewThread
  BY <1>13 DEF StartNewThread, BoundWithThread
<1>14. CASE LeaseNewThread
  BY <1>14 DEF LeaseNewThread
<1>15. CASE BindNewNotes
  BY <1>15 DEF BindNewNotes
<1>16. CASE BindNewTodos
  BY <1>16 DEF BindNewTodos
<1>17. CASE StartSentTurn
  BY <1>17 DEF StartSentTurn
<1>18. CASE EndNativeTurn
  BY <1>18 DEF EndNativeTurn
<1>19. CASE NotifyOther
  BY <1>19 DEF NotifyOther
<1>20. CASE HearEvent
  BY <1>20 DEF HearEvent, MayHear
<1>21. CASE FinishSync
  BY <1>21 DEF FinishSync
<1>22. CASE OtherProcess
  BY <1>22 DEF OtherProcess
<1>23. CASE CloseWorkbench
  BY <1>23 DEF CloseWorkbench
<1>24. CASE CloseHarness
  BY <1>24 DEF CloseHarness, ChainsSettled
<1>25. CASE ReleaseAll
  BY <1>25 DEF ReleaseAll
<1>26. CASE UNCHANGED openingVars
  BY <1>26 DEF openingVars
<1> QED
  BY <1>1, <1>2, <1>3, <1>4, <1>5, <1>6, <1>7, <1>8, <1>9, <1>10, <1>11, <1>12, <1>13, <1>14, <1>15,
     <1>16, <1>17, <1>18, <1>19, <1>20, <1>21, <1>22, <1>23, <1>24, <1>25, <1>26 DEF OpeningNext

\* Nothing is heard before there is a stream, and the end of the running turn is not lost.
LEMMA NoticesFitKept ==
  ASSUME SessionInv, [OpeningNext]_openingVars
  PROVE  NoticesFit'
<1>a. heard' = heard => (EndHeard' <=> EndHeard)
  BY DEF EndHeard
<1>b. heard \in Seq({"ended", "other"}) /\ nativeTurn \in {"none", "running", "over"} /\ resumes \in
   BOOLEAN
      /\ dropped \in BOOLEAN /\ activeTurn \in BOOLEAN /\ reportedTurn \in BOOLEAN
  BY DEF SessionInv, SessionTypes, SessionPlaces, SessionFlags
<1>c. heard # <<>> => 1 \in DOMAIN heard /\ Head(heard) = heard[1]
  BY <1>b
<1>d. Append(heard, "ended") # heard
  <2>1. Len(Append(heard, "ended")) = Len(heard) + 1 /\ Len(heard) \in Nat
    BY <1>b
  <2> QED
    BY <2>1
<1> USE <1>a, <1>b DEF SessionInv, HeldAt, NewThread, ResumedThread, NoticesFit, Starting, Resuming,
        GoesOn, Throws, SendStep,
        SendFails, leaseVarsOfSession, sourceVars, turnVars, eventVars, countVars, Sources
<1>1. CASE AcquireRun
  BY <1>1 DEF AcquireRun
<1>2. CASE Connect
  BY <1>2 DEF Connect
<1>3. CASE ReadActivities
  BY <1>3 DEF ReadActivities
<1>4. CASE LeaseThread
  BY <1>4 DEF LeaseThread
<1>5. CASE ResumeThread
  BY <1>5 DEF ResumeThread
<1>6. CASE BindNotes
  BY <1>6 DEF BindNotes
<1>7. CASE BindTodos
  BY <1>7 DEF BindTodos
<1>8. CASE ReadThread
  BY <1>8 DEF ReadThread
<1>9. CASE ReconcileResumed
  <2>1. EndHeard' <=> EndHeard
    BY <1>9 DEF ReconcileResumed
  <2>2. UNCHANGED <<heard, bound, dropped, nativeTurn, reportedTurn>>
    BY <1>9 DEF ReconcileResumed
  <2>3. opening = "reconcile"
        /\ (opening' = "undo" \/ (opening' \in {"started", "draft"} /\ activeTurn' = reportedTurn))
    BY <1>9 DEF ReconcileResumed
  <2> QED
    BY <2>1, <2>2, <2>3
<1>10. CASE JournalResumedTurn
  BY <1>10 DEF JournalResumedTurn
<1>11. CASE OpenDraft
  BY <1>11 DEF OpenDraft
<1>12. CASE SendMessage
  BY <1>12 DEF SendMessage
<1>13. CASE StartNewThread
  BY <1>13 DEF StartNewThread, BoundWithThread
<1>14. CASE LeaseNewThread
  BY <1>14 DEF LeaseNewThread
<1>15. CASE BindNewNotes
  BY <1>15 DEF BindNewNotes
<1>16. CASE BindNewTodos
  BY <1>16 DEF BindNewTodos
<1>17. CASE StartSentTurn
  BY <1>17 DEF StartSentTurn
<1>18. CASE EndNativeTurn
  <2>1. CASE heard' = heard
    <3>2. resumes /\ ~Attached /\ opening \notin {"reconcile", "started", "draft", "open"}
      BY <1>18, <2>1, <1>d DEF EndNativeTurn, Attached
    <3> QED
      BY <1>18, <2>1, <3>2 DEF EndNativeTurn
  <2>2. CASE heard' = Append(heard, "ended")
    <3>1. EndHeard' /\ "journal" \in bound /\ nativeTurn = "running" /\ nativeTurn' = "over"
          /\ UNCHANGED <<opening, bound, dropped, activeTurn, reportedTurn>>
      BY <1>18, <2>2, HeardMore DEF EndNativeTurn, Attached
    <3> QED
      BY <3>1
  <2> QED
    BY <1>18, <2>1, <2>2 DEF EndNativeTurn
<1>19. CASE NotifyOther
  <2>1. (EndHeard' <=> EndHeard) /\ "journal" \in bound
        /\ UNCHANGED <<opening, bound, dropped, activeTurn, reportedTurn, nativeTurn>>
    BY <1>19, HeardMore DEF NotifyOther, Attached
  <2> QED
    BY <2>1
<1>20. CASE HearEvent
  <2>1. /\ EndHeard => EndHeard' \/ Head(heard) = "ended"
        /\ EndHeard' => EndHeard
    BY <1>20, HeardLess DEF HearEvent
  <2>2. /\ "journal" \in bound /\ opening \in {"draft", "open"}
        /\ activeTurn' = (activeTurn /\ Head(heard) # "ended")
        /\ UNCHANGED <<opening, bound, dropped, reportedTurn, nativeTurn>>
    BY <1>20 DEF HearEvent, MayHear
  <2>3. Head(heard) = "ended" => EndHeard
    BY <1>20, <1>c DEF HearEvent, EndHeard
  <2> QED
    BY <2>1, <2>2, <2>3
<1>21. CASE FinishSync
  BY <1>21 DEF FinishSync
<1>22. CASE OtherProcess
  BY <1>22 DEF OtherProcess
<1>23. CASE CloseWorkbench
  BY <1>23 DEF CloseWorkbench
<1>24. CASE CloseHarness
  BY <1>24 DEF CloseHarness, ChainsSettled
<1>25. CASE ReleaseAll
  BY <1>25 DEF ReleaseAll
<1>26. CASE UNCHANGED openingVars
  BY <1>26 DEF openingVars
<1> QED
  BY <1>1, <1>2, <1>3, <1>4, <1>5, <1>6, <1>7, <1>8, <1>9, <1>10, <1>11, <1>12, <1>13, <1>14, <1>15,
     <1>16, <1>17, <1>18, <1>19, <1>20, <1>21, <1>22, <1>23, <1>24, <1>25, <1>26 DEF OpeningNext

\* Whatever step fails, and however notifications interleave with the opening: a process that is
\* done holds nothing, a resumed thread is journaled only under its lease, a turn is sent with
\* every source bound, and the turn taken for active is the one that runs (SessionSound).
THEOREM SessionsAreSound == OpeningSpec => []SessionSound
<1>1. OpeningInit => SessionInv
  <2> SUFFICES ASSUME OpeningInit PROVE SessionInv
    OBVIOUS
  <2>0. openFaults = 0 /\ heard = <<>>
    BY DEF OpeningInit
  <2>1. SessionTypes
    <3>1. SessionPlaces
      BY DEF OpeningInit, SessionPlaces, Starting, Sources
    <3>2. SessionFlags
      BY SessionOpeningAssumption DEF OpeningInit, SessionFlags, SessionOpeningAssumption
    <3>3. openFaults \in 0..MaxOpenFaults
      BY <2>0, SessionOpeningAssumption DEF SessionOpeningAssumption
    <3>4. heard \in Seq({"ended", "other"})
      BY <2>0, EmptySeq
    <3> QED
      BY <3>1, <3>2, <3>3, <3>4 DEF SessionTypes
  <2>2. HeldAt /\ ResumedThread
    BY DEF OpeningInit, HeldAt, ResumedThread, Resuming
  <2>3. NewThread /\ NoticesFit
    <3>1. nativeTurn = "none" \/ resumes
      BY DEF OpeningInit
    <3>2. ~EndHeard
      BY <2>0 DEF EndHeard
    <3> QED
      BY <3>1, <3>2 DEF OpeningInit, NewThread, NoticesFit
  <2> QED
    BY <2>1, <2>2, <2>3 DEF SessionInv
<1>2. SessionInv /\ [OpeningNext]_openingVars => SessionInv'
  BY TypesKept, HeldAtKept, ResumedThreadKept, NewThreadKept, NoticesFitKept DEF SessionInv
<1>3. SessionInv => SessionSound
  <2> SUFFICES ASSUME SessionInv PROVE SessionSound
    OBVIOUS
  <2>1. opening = "over" => ~runLease /\ threadLease # "ours" /\ harness # "up" /\ ~watching /\ ~syncing
                            /\ sending = "idle"
    BY DEF SessionInv, HeldAt
  <2>2. ~dropped
    BY DEF SessionInv, NoticesFit
  <2>3. resumes /\ journaled /\ opening # "over" => threadLease = "ours"
    BY DEF SessionInv, ResumedThread
  <2>4. sending = "turn" /\ ~unboundThread => threadLease = "ours" /\ bound = Sources /\ watching
    BY DEF SessionInv, SessionTypes, SessionFlags, HeldAt, ResumedThread, NewThread
  <2>5. opening = "open" /\ heard = <<>> => (activeTurn <=> nativeTurn = "running")
    BY DEF SessionInv, SessionTypes, SessionFlags, NoticesFit, EndHeard
  <2> QED
    BY <2>1, <2>2, <2>3, <2>4, <2>5 DEF SessionSound
<1> QED
  BY <1>1, <1>2, <1>3, PTL DEF OpeningSpec

-----------------------------------------------------------------------------
(* Tokens.                                                                 *)

\* Tokens charged to a model for its turns.
Interactive == [m \in Models |-> usage[m].interactive]

\* The inductive invariant.  The total last observed is the thread's own once there is one;
\* what waits for turns is part of what is unattributed, so that none of it is cut off at 0.
TokenTypes ==
  /\ observedTotal \in {NoTotal} \union Nat
  /\ interactiveSeen \in BOOLEAN
  /\ turnModel \in [Turns -> Models \union {Unbound}] /\ observedTurns \subseteq Turns
  /\ usage \in [Models -> [turns : Nat, interactive : Nat, detached : Nat, invocations : Nat]]
  /\ pendingByTurn \in [Turns -> Nat] /\ unattributed \in Nat
  /\ baseline \in Nat /\ threadTotal \in Nat

TotalsFit ==
  /\ observedTotal = NoTotal => threadTotal = 0 /\ baseline = 0
  /\ observedTotal # NoTotal => observedTotal = threadTotal
  /\ baseline <= threadTotal
  /\ ~interactiveSeen => threadTotal = baseline
  /\ \A m \in Models : usage[m].invocations = 0 => usage[m].detached = 0

Conserved ==
  /\ SumFunction(Interactive) + unattributed = threadTotal - baseline
  /\ SumFunction(pendingByTurn) <= unattributed

TokenInv == TokenTypes /\ TotalsFit /\ Conserved

\* Before the first report nothing is counted anywhere.
LEMMA TokenInit == UsageInit => TokenInv
<1> SUFFICES ASSUME UsageInit PROVE TokenInv
  OBVIOUS
<1>1. DOMAIN Interactive = Models /\ \A m \in Models : Interactive[m] = 0
  BY DEF UsageInit, Zero, Interactive
<1>2. DOMAIN pendingByTurn = Turns /\ \A t \in Turns : pendingByTurn[t] = 0
  BY DEF UsageInit
<1>3. SumFunction(Interactive) = 0
  BY <1>1, UsageAssumption, SumOfNaturals
<1>4. SumFunction(pendingByTurn) = 0
  BY <1>2, UsageAssumption, SumOfNaturals
<1>5. TokenTypes
  <2>1. observedTotal \in {NoTotal} \union Nat
    BY DEF UsageInit
  <2>2. usage \in [Models -> [turns : Nat, interactive : Nat, detached : Nat, invocations : Nat]]
    BY DEF UsageInit, Zero
  <2>3. turnModel \in [Turns -> Models \union {Unbound}] /\ pendingByTurn \in [Turns -> Nat]
    BY DEF UsageInit
  <2> QED
    BY <2>1, <2>2, <2>3 DEF UsageInit, TokenTypes
<1> QED
  BY <1>3, <1>4, <1>5 DEF UsageInit, Zero, TokenInv, TotalsFit, Conserved, NoTotal

\* What is charged to a model adds to the sum of all of them.
LEMMA ChargeAdds ==
  ASSUME TokenTypes, NEW t \in Turns, NEW m \in Models, NEW tokens \in Nat, Charge(t, m, tokens)
  PROVE  /\ usage' \in [Models -> [turns : Nat, interactive : Nat, detached : Nat, invocations : Nat]]
         /\ observedTurns' \subseteq Turns
         /\ \A n \in Models : usage'[n].invocations = usage[n].invocations /\ usage'[n].detached = usage[n].detached
         /\ SumFunction(Interactive') = SumFunction(Interactive) + tokens
<1>1. usage' = [usage EXCEPT ![m].interactive = @ + tokens,
                             ![m].turns = IF t \in observedTurns THEN @ ELSE @ + 1]
  BY DEF Charge
<1>2. usage[m] \in [turns : Nat, interactive : Nat, detached : Nat, invocations : Nat]
  BY DEF TokenTypes
<1> DEFINE counted == IF t \in observedTurns THEN usage[m].turns ELSE usage[m].turns + 1
<1>3. /\ usage'[m].interactive = usage[m].interactive + tokens
      /\ usage'[m].turns \in Nat
      /\ usage'[m].detached = usage[m].detached /\ usage'[m].invocations = usage[m].invocations
      /\ usage'[m] \in [turns : Nat, interactive : Nat, detached : Nat, invocations : Nat]
  <2>1. usage'[m] = [usage[m] EXCEPT !.interactive = usage[m].interactive + tokens, !.turns = counted]
    BY <1>1 DEF TokenTypes
  <2>2. counted \in Nat /\ usage[m].interactive + tokens \in Nat
    BY <1>2
  <2> HIDE DEF counted
  <2> QED
    BY <1>2, <2>1, <2>2
<1>4. \A n \in Models : n # m => usage'[n] = usage[n]
  BY <1>1 DEF TokenTypes
<1>5. usage' \in [Models -> [turns : Nat, interactive : Nat, detached : Nat, invocations : Nat]]
  <2>1. \A n \in Models : usage'[n] \in [turns : Nat, interactive : Nat, detached : Nat, invocations : Nat]
    BY <1>3, <1>4 DEF TokenTypes
  <2>2. usage' = [n \in Models |-> usage'[n]]
    BY <1>1 DEF TokenTypes
  <2> QED
    BY <2>1, <2>2
<1>6. SumFunction(Interactive') = SumFunction(Interactive) + (Interactive'[m] - Interactive[m])
  <2>1. DOMAIN Interactive = Models /\ DOMAIN Interactive' = Models
    BY DEF Interactive
  <2>2. \A n \in Models : Interactive[n] \in Nat /\ Interactive'[n] \in Nat
    BY <1>5 DEF Interactive, TokenTypes
  <2>3. \A n \in Models : n # m => Interactive'[n] = Interactive[n]
    BY <1>4 DEF Interactive
  <2> QED
    BY <2>1, <2>2, <2>3, UsageAssumption, SumMoves
<1>7. SumFunction(Interactive) \in Nat
  BY UsageAssumption, SumOfNaturals DEF Interactive, TokenTypes
<1>8. Interactive'[m] - Interactive[m] = tokens
  BY <1>2, <1>3 DEF Interactive
<1> QED
  BY <1>3, <1>4, <1>5, <1>6, <1>7, <1>8 DEF Charge, TokenTypes

\* The sums are numbers, and no turn waits with more than all of them.
LEMMA SumsAreNatural ==
  ASSUME TokenTypes
  PROVE  /\ SumFunction(Interactive) \in Nat /\ SumFunction(pendingByTurn) \in Nat
         /\ \A t \in Turns : pendingByTurn[t] <= SumFunction(pendingByTurn)
<1>1. DOMAIN Interactive = Models /\ \A m \in Models : Interactive[m] \in Nat
  BY DEF Interactive, TokenTypes
<1>2. DOMAIN pendingByTurn = Turns /\ \A t \in Turns : pendingByTurn[t] \in Nat
  BY DEF TokenTypes
<1>3. SumFunction(Interactive) \in Nat
  BY <1>1, UsageAssumption, SumOfNaturals
<1>4. SumFunction(pendingByTurn) \in Nat /\ \A t \in Turns : pendingByTurn[t] <= SumFunction(pendingByTurn)
  BY <1>2, UsageAssumption, SumOfNaturals
<1> QED
  BY <1>3, <1>4

\* Tokens of a turn are charged to its model or wait for one.
LEMMA AttributeConserves ==
  ASSUME TokenInv, NEW t \in Turns \union {Elsewhere}, NEW tokens \in Nat, Attribute(t, tokens),
         UNCHANGED turnModel
  PROVE  /\ usage' \in [Models -> [turns : Nat, interactive : Nat, detached : Nat, invocations : Nat]]
         /\ observedTurns' \subseteq Turns /\ pendingByTurn' \in [Turns -> Nat] /\ unattributed' \in Nat
         /\ \A n \in Models : usage'[n].invocations = usage[n].invocations /\ usage'[n].detached = usage[n].detached
         /\ SumFunction(Interactive') + unattributed' = SumFunction(Interactive) + unattributed + tokens
         /\ SumFunction(pendingByTurn') <= unattributed'
<1>0. SumFunction(Interactive) \in Nat /\ SumFunction(pendingByTurn) \in Nat
  BY SumsAreNatural DEF TokenInv
<1>1. CASE tokens > 0 /\ t # Elsewhere /\ turnModel[t] # Unbound
  <2>1. t \in Turns /\ turnModel[t] \in Models
    BY <1>1 DEF TokenInv, TokenTypes
  <2>2. Charge(t, turnModel[t], tokens) /\ UNCHANGED <<pendingByTurn, unattributed>>
    BY <1>1 DEF Attribute
  <2> QED
    BY <1>0, <2>1, <2>2, ChargeAdds DEF TokenInv, TokenTypes, Conserved
<1>2. CASE tokens > 0 /\ ~(t # Elsewhere /\ turnModel[t] # Unbound)
  <2>1. /\ unattributed' = unattributed + tokens
        /\ pendingByTurn' = IF t = Elsewhere THEN pendingByTurn ELSE [pendingByTurn EXCEPT ![t] = @ + tokens]
        /\ UNCHANGED <<observedTurns, usage>>
    BY <1>2 DEF Attribute
  <2>2. Interactive' = Interactive
    BY <2>1 DEF Interactive
  <2>3. pendingByTurn' \in [Turns -> Nat] /\ SumFunction(pendingByTurn') <= SumFunction(pendingByTurn) + tokens
    <3>1. CASE t = Elsewhere
      <4>1. pendingByTurn' = pendingByTurn
        BY <3>1, <2>1
      <4> QED
        BY <4>1, <1>0 DEF TokenInv, TokenTypes
    <3>2. CASE t # Elsewhere
      <4>1. t \in Turns /\ pendingByTurn' = [pendingByTurn EXCEPT ![t] = @ + tokens]
        BY <3>2, <2>1
      <4>2. /\ DOMAIN pendingByTurn = Turns /\ DOMAIN pendingByTurn' = Turns
            /\ pendingByTurn' \in [Turns -> Nat]
            /\ \A u \in Turns : pendingByTurn[u] \in Nat /\ pendingByTurn'[u] \in Nat
            /\ \A u \in Turns : u # t => pendingByTurn'[u] = pendingByTurn[u]
            /\ pendingByTurn'[t] - pendingByTurn[t] = tokens
        BY <4>1 DEF TokenInv, TokenTypes
      <4>3. SumFunction(pendingByTurn') = SumFunction(pendingByTurn) + (pendingByTurn'[t] - pendingByTurn[t])
        BY <4>1, <4>2, UsageAssumption, SumMoves
      <4> QED
        BY <4>2, <4>3, <1>0
    <3> QED
      BY <3>1, <3>2
  <2>4. SumFunction(pendingByTurn') \in Nat
    BY <2>3, UsageAssumption, SumOfNaturals
  <2> QED
    BY <1>0, <2>1, <2>2, <2>3, <2>4 DEF TokenInv, TokenTypes, Conserved
<1>3. CASE ~(tokens > 0)
  <2>1. UNCHANGED <<observedTurns, usage, pendingByTurn, unattributed>> /\ tokens = 0
    BY <1>3 DEF Attribute
  <2>2. Interactive' = Interactive
    BY <2>1 DEF Interactive
  <2> QED
    BY <1>0, <2>1, <2>2 DEF TokenInv, TokenTypes, Conserved
<1> QED
  BY <1>1, <1>2, <1>3

\* A report of a thread's total is charged to a model, to a turn that waits, or to nobody.
LEMMA ObserveConserves ==
  ASSUME TokenInv, NEW t \in Turns \union {Elsewhere}, NEW total \in 0..MaxTotal, Observe(t, total)
  PROVE  TokenInv'
<1>1. total \in Nat
  BY UsageAssumption
<1>2. Growth(total) \in Nat
  BY <1>1 DEF Growth, TokenInv, TokenTypes
<1>3. Attribute(t, Growth(total)) /\ UNCHANGED turnModel
  BY DEF Observe
<1>4. /\ usage' \in [Models -> [turns : Nat, interactive : Nat, detached : Nat, invocations : Nat]]
      /\ observedTurns' \subseteq Turns /\ pendingByTurn' \in [Turns -> Nat] /\ unattributed' \in Nat
      /\ \A n \in Models : usage'[n].invocations = usage[n].invocations /\ usage'[n].detached = usage[n].detached
      /\ SumFunction(Interactive') + unattributed' = SumFunction(Interactive) + unattributed + Growth(total)
      /\ SumFunction(pendingByTurn') <= unattributed'
  BY <1>2, <1>3, AttributeConserves
<1>5. /\ threadTotal' = (IF total > threadTotal THEN total ELSE threadTotal)
      /\ baseline' = (IF observedTotal = NoTotal THEN total ELSE baseline)
      /\ interactiveSeen' = (interactiveSeen \/ (observedTotal # NoTotal /\ total >= observedTotal))
      /\ observedTotal' = Latest(total) /\ turnModel' = turnModel
  BY DEF Observe
<1>6. TokenTypes'
  BY <1>1, <1>4, <1>5 DEF TokenInv, TokenTypes, Latest
<1>7. TotalsFit'
  <2>1. observedTotal' # NoTotal
    BY <1>1, <1>5 DEF TokenInv, TokenTypes, Latest, NoTotal
  <2>2. observedTotal' = threadTotal' /\ baseline' <= threadTotal'
    BY <1>1, <1>5 DEF TokenInv, TokenTypes, Latest, NoTotal, TotalsFit
  <2>3. ~interactiveSeen' => threadTotal' = baseline'
    <3>1. CASE observedTotal = NoTotal
      BY <3>1, <1>1, <1>5 DEF TokenInv, TokenTypes, TotalsFit
    <3>2. CASE observedTotal # NoTotal
      <4>0. observedTotal \in Nat
        BY <3>2 DEF TokenInv, TokenTypes
      <4>1. SUFFICES ASSUME ~interactiveSeen, total < observedTotal PROVE threadTotal' = baseline'
        <5>1. total >= observedTotal \/ total < observedTotal
          BY <4>0, <1>1
        <5> QED
          BY <5>1, <3>2, <1>5
      <4> QED
        BY <3>2, <4>1, <1>1, <1>5 DEF TokenInv, TokenTypes, TotalsFit
    <3> QED
      BY <3>1, <3>2
  <2> QED
    BY <2>1, <2>2, <2>3, <1>4 DEF TokenInv, TotalsFit
<1>8. threadTotal' - baseline' = threadTotal - baseline + Growth(total)
  BY <1>1, <1>5 DEF TokenInv, TokenTypes, NoTotal, TotalsFit, Growth
<1> QED
  BY <1>4, <1>6, <1>7, <1>8 DEF TokenInv, Conserved

\* What waited for its turn's model moves to that model, whole.
LEMMA BindConserves ==
  ASSUME TokenInv, NEW t \in Turns, NEW m \in Models, BindTurn(t, m)
  PROVE  TokenInv'
<1>0. /\ SumFunction(Interactive) \in Nat /\ SumFunction(pendingByTurn) \in Nat
      /\ pendingByTurn[t] <= SumFunction(pendingByTurn) /\ pendingByTurn[t] \in Nat
  BY SumsAreNatural DEF TokenInv, TokenTypes
<1>1. turnModel' \in [Turns -> Models \union {Unbound}]
  BY DEF BindTurn, TokenInv, TokenTypes
<1>2. UNCHANGED <<observedTotal, interactiveSeen, baseline, threadTotal>>
  BY DEF BindTurn
<1>3. CASE pendingByTurn[t] = 0
  <2>1. UNCHANGED <<pendingByTurn, unattributed, observedTurns, usage>>
    BY <1>3 DEF BindTurn
  <2>2. Interactive' = Interactive
    BY <2>1 DEF Interactive
  <2> QED
    BY <1>1, <1>2, <2>1, <2>2 DEF TokenInv, TokenTypes, TotalsFit, Conserved
<1>4. CASE pendingByTurn[t] # 0
  <2>1. Unpend(t) /\ Charge(t, m, pendingByTurn[t])
    BY <1>4 DEF BindTurn
  <2>2. /\ usage' \in [Models -> [turns : Nat, interactive : Nat, detached : Nat, invocations : Nat]]
        /\ observedTurns' \subseteq Turns
        /\ \A n \in Models : usage'[n].invocations = usage[n].invocations /\ usage'[n].detached = usage[n].detached
        /\ SumFunction(Interactive') = SumFunction(Interactive) + pendingByTurn[t]
    BY <1>0, <2>1, ChargeAdds DEF TokenInv
  <2>3. unattributed - pendingByTurn[t] \in Nat
    BY <1>0 DEF TokenInv, TokenTypes, Conserved
  <2>4. unattributed' = unattributed - pendingByTurn[t]
    <3>1. unattributed' = Max({0, unattributed - pendingByTurn[t]})
      BY <2>1 DEF Unpend
    <3>2. ASSUME NEW n \in Nat PROVE Max({0, n}) = n
      BY DEF Max
    <3> QED
      BY <3>1, <3>2, <2>3
  <2>5. /\ pendingByTurn' \in [Turns -> Nat]
        /\ SumFunction(pendingByTurn') = SumFunction(pendingByTurn) - pendingByTurn[t]
    <3>1. pendingByTurn' = [pendingByTurn EXCEPT ![t] = 0]
      BY <2>1 DEF Unpend
    <3>2. /\ DOMAIN pendingByTurn = Turns /\ DOMAIN pendingByTurn' = Turns
          /\ pendingByTurn' \in [Turns -> Nat]
          /\ \A u \in Turns : pendingByTurn[u] \in Nat /\ pendingByTurn'[u] \in Nat
          /\ \A u \in Turns : u # t => pendingByTurn'[u] = pendingByTurn[u]
          /\ pendingByTurn'[t] = 0
      BY <3>1 DEF TokenInv, TokenTypes
    <3>3. SumFunction(pendingByTurn') = SumFunction(pendingByTurn) + (pendingByTurn'[t] - pendingByTurn[t])
      BY <3>2, UsageAssumption, SumMoves
    <3> QED
      BY <1>0, <3>2, <3>3
  <2>6. TokenTypes'
    BY <1>1, <1>2, <2>2, <2>3, <2>4, <2>5 DEF TokenInv, TokenTypes
  <2>7. TotalsFit'
    BY <1>2, <2>2 DEF TokenInv, TotalsFit
  <2>8. Conserved'
    BY <1>0, <1>2, <2>2, <2>3, <2>4, <2>5 DEF TokenInv, TokenTypes, Conserved
  <2> QED
    BY <2>6, <2>7, <2>8 DEF TokenInv
<1> QED
  BY <1>3, <1>4

\* A detached call is charged beside the thread's total.
LEMMA DetachedConserves ==
  ASSUME TokenInv, NEW m \in Models, NEW tokens \in {0, 1}, ObserveDetached(m, tokens)
  PROVE  TokenInv'
<1>1. usage' = [usage EXCEPT ![m].detached = @ + tokens, ![m].invocations = @ + 1]
  BY DEF ObserveDetached
<1>2. usage[m] \in [turns : Nat, interactive : Nat, detached : Nat, invocations : Nat]
  BY DEF TokenInv, TokenTypes
<1>3. /\ usage'[m] \in [turns : Nat, interactive : Nat, detached : Nat, invocations : Nat]
      /\ usage'[m].interactive = usage[m].interactive /\ usage'[m].invocations # 0
  BY <1>1, <1>2 DEF TokenInv, TokenTypes
<1>4. \A n \in Models : n # m => usage'[n] = usage[n]
  BY <1>1 DEF TokenInv, TokenTypes
<1>5. usage' \in [Models -> [turns : Nat, interactive : Nat, detached : Nat, invocations : Nat]]
  <2>1. \A n \in Models : usage'[n] \in [turns : Nat, interactive : Nat, detached : Nat, invocations : Nat]
    BY <1>3, <1>4 DEF TokenInv, TokenTypes
  <2>2. usage' = [n \in Models |-> usage'[n]]
    BY <1>1 DEF TokenInv, TokenTypes
  <2> QED
    BY <2>1, <2>2
<1>6. Interactive' = Interactive
  BY <1>3, <1>4 DEF Interactive
<1> QED
  BY <1>3, <1>4, <1>5, <1>6 DEF ObserveDetached, TokenInv, TokenTypes, TotalsFit, Conserved

\* Every step conserves the tokens.
LEMMA TokenStep == TokenInv /\ [UsageNext]_usageVars => TokenInv'
<1> SUFFICES ASSUME TokenInv, [UsageNext]_usageVars PROVE TokenInv'
  OBVIOUS
<1>1. CASE UNCHANGED usageVars
  <2>1. Interactive' = Interactive
    BY <1>1 DEF usageVars, Interactive
  <2> QED
    BY <1>1, <2>1 DEF usageVars, TokenInv, TokenTypes, TotalsFit, Conserved
<1>2. CASE UsageNext
  BY <1>2, ObserveConserves, BindConserves, DetachedConserves DEF UsageNext
<1> QED
  BY <1>1, <1>2

\* The invariant accounts for every token.
LEMMA TokenInvImplies == TokenInv => TokensConserved
<1> SUFFICES ASSUME TokenInv, ObservedTotalTokens = NoTotal PROVE threadTotal = baseline /\ TotalTokens = 0
  BY DEF TokenInv, Conserved, TokensConserved, Interactive
<1> DEFINE all == [m \in Models |-> Charged(m)]
<1>1. DOMAIN all = Models /\ \A m \in Models : all[m] \in Nat
  BY DEF Charged, TokenInv, TokenTypes
<1>2. SumFunction(all) \in Nat
  BY <1>1, UsageAssumption, SumOfNaturals
<1>3. TotalTokens \in Nat
  BY <1>2 DEF TotalTokens, TokenInv, TokenTypes
<1>4. ~interactiveSeen /\ \A m \in Models : ~(usage[m].invocations > 0)
  BY <1>3 DEF ObservedTotalTokens, NoTotal
<1>5. threadTotal = baseline
  BY <1>4 DEF TokenInv, TotalsFit
<1>6. SumFunction(Interactive) = 0 /\ unattributed = 0
  BY <1>5, SumsAreNatural DEF TokenInv, TokenTypes, Conserved
<1>7. \A m \in Models : usage[m].interactive = 0
  <2>1. DOMAIN Interactive = Models /\ \A m \in Models : Interactive[m] \in Nat
    BY DEF Interactive, TokenInv, TokenTypes
  <2>2. \A m \in Models : Interactive[m] <= 0
    BY <2>1, <1>6, UsageAssumption, SumOfNaturals
  <2>3. \A m \in Models : Interactive[m] = 0
    BY <2>1, <2>2
  <2> QED
    BY <2>3 DEF Interactive
<1>8. \A m \in Models : usage[m].detached = 0
  BY <1>4 DEF TokenInv, TokenTypes, TotalsFit
<1>9. \A m \in Models : all[m] = 0
  BY <1>7, <1>8 DEF Charged
<1>10. SumFunction(all) = 0
  BY <1>1, <1>9, UsageAssumption, SumOfNaturals
<1> QED
  BY <1>5, <1>6, <1>10 DEF TotalTokens

\* No token of a thread is lost or counted twice, whatever order totals, bindings and detached
\* calls come in, and usage is said to be unknown only while there is none (SessionUsageTracker).
THEOREM TokensAreConserved == UsageSpec => []TokensConserved
<1>1. UsageInit => TokenInv
  BY TokenInit
<1>2. TokenInv /\ [UsageNext]_usageVars => TokenInv'
  BY TokenStep
<1>3. TokenInv => TokensConserved
  BY TokenInvImplies
<1> QED
  BY <1>1, <1>2, <1>3, PTL DEF UsageSpec
=============================================================================
