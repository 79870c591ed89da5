------------------------------- MODULE CodexRpc -------------------------------
(***************************************************************************)
(* The client side of the Codex App Server: requests with a time limit,    *)
(* approvals the server asks for, and the end of the connection            *)
(* (src/infrastructure/executors/codex-app-server.ts).                     *)
(*                                                                         *)
(* The two directions of the pipe are FIFO queues.  A request is a number; *)
(* so is an approval.  What the server does with what it reads is its own  *)
(* affair: it may execute, refuse or ignore a request.                     *)
(***************************************************************************)
EXTENDS Integers, Sequences, FiniteSets

CONSTANTS
  MaxRequests,
  MaxAsked,          \* approvals the server asks for
  MaxAnswers,        \* calls of respondToApproval
  MaxGarbage         \* lines of the server that are no JSON

ASSUME RpcAssumption ==
  /\ MaxRequests \in Nat /\ MaxAsked \in Nat /\ MaxAnswers \in Nat /\ MaxGarbage \in Nat

Requests == 1..MaxRequests
Asked    == 1..MaxAsked

VARIABLES
  requestSequence,        \* requests so far
  mutating,      \* those whose outcome is uncertain when no answer comes
  pending,       \* requests in the table
  dispatched,    \* requests whose line has been flushed
  outcome,       \* request -> how its promise settled
  approvals,     \* approvals the client knows
  responding,    \* pendingApprovalResponses
  flushedAnswers,\* approvals whose response has been flushed
  answers,       \* approval -> how many responses were sent to the server
  settledAnswers,\* approvals whose response was settled
  disconnected, closing, transportClosed,
  toServer, toClient,   \* the pipe
  executed,      \* requests the server executed
  asked, garbage, userAnswers

rpcVars == <<requestSequence, mutating, pending, dispatched, outcome, approvals, responding,
             flushedAnswers, answers, settledAnswers, disconnected, closing,
             transportClosed, toServer, toClient, executed, asked, garbage, userAnswers>>

tableVars   == <<requestSequence, mutating, pending, dispatched, outcome>>
approvalVars == <<approvals, responding, flushedAnswers, answers, settledAnswers>>
linkVars    == <<disconnected, closing, transportClosed>>
serverVars  == <<executed, asked, garbage>>

Message(kind, id) == [kind |-> kind, id |-> id]

\* A promise settles once: later resolutions are ignored.
Settle(rs, how) ==
  outcome' = [r \in Requests |-> IF r \in rs /\ outcome[r] = "none" THEN how[r] ELSE outcome[r]]

Uncertain(r) == r \in dispatched /\ r \in mutating

-----------------------------------------------------------------------------
(* request.                                                                *)

MayRequest == ~disconnected

\* The line is written; in a closed transport send throws.
Request(mutates) ==
  /\ requestSequence < MaxRequests
  /\ requestSequence' = requestSequence + 1
  /\ mutating' = IF mutates THEN mutating \union {requestSequence + 1} ELSE mutating
  /\ IF MayRequest /\ ~transportClosed
     THEN /\ pending' = pending \union {requestSequence + 1}
          /\ toServer' = Append(toServer, Message("request", requestSequence + 1))
          /\ UNCHANGED outcome
     ELSE /\ outcome' = [outcome EXCEPT ![requestSequence + 1] = "failed"]
          /\ UNCHANGED <<pending, toServer>>
  /\ UNCHANGED <<dispatched, approvalVars, linkVars, toClient, serverVars, userAnswers>>

Flushed(r) ==
  /\ r \in 1..requestSequence \ dispatched /\ r \in pending
  /\ dispatched' = dispatched \union {r}
  /\ UNCHANGED <<requestSequence, mutating, pending, outcome, approvalVars, linkVars, toServer,
                 toClient, serverVars, userAnswers>>

\* send() rejects: the pipe broke while the line was flushed.
FlushFails(r) ==
  /\ r \in pending \ dispatched /\ transportClosed
  /\ pending' = pending \ {r}
  /\ Settle({r}, [q \in {r} |-> "failed"])
  /\ UNCHANGED <<requestSequence, mutating, dispatched, approvalVars, linkVars, toServer, toClient,
                 serverVars, userAnswers>>

Timeout(r) ==
  /\ r \in pending
  /\ pending' = pending \ {r}
  /\ Settle({r}, [q \in {r} |-> IF Uncertain(q) THEN "uncertain" ELSE "failed"])
  /\ UNCHANGED <<requestSequence, mutating, dispatched, approvalVars, linkVars, toServer, toClient,
                 serverVars, userAnswers>>

-----------------------------------------------------------------------------
(* respondToApproval.                                                      *)

\* Mutant of MayRespond: a response under way is not looked for.
MayRespondAgain(a) == a \in approvals
MayRespond(a) == a \in approvals /\ a \notin responding

Respond(a) ==
  /\ userAnswers < MaxAnswers /\ userAnswers' = userAnswers + 1
  /\ MayRespond(a)
  /\ IF transportClosed THEN UNCHANGED <<responding, answers, toServer>>
     ELSE /\ responding' = responding \union {a}
          /\ answers' = [answers EXCEPT ![a] = @ + 1]
          /\ toServer' = Append(toServer, Message("answer", a))
  /\ UNCHANGED <<approvals, flushedAnswers, settledAnswers, tableVars, linkVars, toClient,
                 serverVars>>

AnswerFlushed(a) ==
  /\ a \in responding \ flushedAnswers
  /\ flushedAnswers' = flushedAnswers \union {a}
  /\ UNCHANGED <<approvals, responding, answers, settledAnswers, tableVars, linkVars,
                 toServer, toClient, serverVars, userAnswers>>

\* Writing failed: the decision may be given again.
AnswerFails(a) ==
  /\ a \in responding \ flushedAnswers /\ transportClosed
  /\ responding' = responding \ {a} /\ settledAnswers' = settledAnswers \union {a}
  /\ UNCHANGED <<approvals, flushedAnswers, answers, tableVars, linkVars, toServer,
                 toClient, serverVars, userAnswers>>

-----------------------------------------------------------------------------
(* disconnect, on the end of the process, of the stream, or on garbage.    *)

\* Every pending promise is rejected; one close() is enough.
Disconnect ==
  IF disconnected THEN UNCHANGED <<pending, outcome, responding, settledAnswers, disconnected>>
  ELSE /\ disconnected' = TRUE
       /\ Settle(pending, [q \in pending |->
            IF ~closing /\ Uncertain(q) THEN "uncertain" ELSE "failed"])
       /\ pending' = {} /\ responding' = {}
       /\ settledAnswers' = settledAnswers \union responding

\* What the server wrote before it ended may still be read.
ServerEnds ==
  /\ ~transportClosed /\ transportClosed' = TRUE
  /\ Disconnect
  /\ toServer' = <<>>
  /\ UNCHANGED <<requestSequence, mutating, dispatched, approvals, flushedAnswers, answers, closing,
                 toClient, serverVars, userAnswers>>

\* close(): transport.close(), then disconnect().
StartClose ==
  /\ ~closing /\ closing' = TRUE
  /\ transportClosed' = TRUE
  /\ toServer' = <<>>
  /\ UNCHANGED <<tableVars, approvalVars, disconnected, toClient, serverVars, userAnswers>>
FinishClose ==
  /\ closing /\ ~disconnected
  /\ Disconnect
  /\ UNCHANGED <<requestSequence, mutating, dispatched, approvals, flushedAnswers, answers, closing,
                 transportClosed, toServer, toClient, serverVars, userAnswers>>

-----------------------------------------------------------------------------
(* receive, one line.                                                      *)

\* An answer whose request is no longer in the table is ignored.
ReceiveResponse(m) ==
  /\ pending' = pending \ {m.id}
  /\ IF m.id \in pending
     THEN Settle({m.id}, [q \in {m.id} |-> IF m.kind = "result" THEN "answered" ELSE "refused"])
     ELSE UNCHANGED outcome
  /\ UNCHANGED <<approvalVars, linkVars>>

\* serverRequest/resolved settles the response, whoever resolved it.
ReceiveResolved(m) ==
  /\ approvals' = approvals \ {m.id}
  /\ responding' = responding \ {m.id}
  /\ settledAnswers' = settledAnswers \union ({m.id} \intersect responding)
  /\ UNCHANGED <<pending, outcome, flushedAnswers, answers, linkVars>>

Receive(kind) ==
  /\ toClient # <<>> /\ Head(toClient).kind = kind
  /\ toClient' = Tail(toClient)
  /\ UNCHANGED <<requestSequence, mutating, dispatched, toServer, serverVars, userAnswers>>

ReceiveLine ==
  \/ \E kind \in {"result", "error"} : Receive(kind) /\ ReceiveResponse(Head(toClient))
  \/ /\ Receive("approval")
     /\ approvals' = approvals \union {Head(toClient).id}
     /\ UNCHANGED <<pending, outcome, responding, flushedAnswers, answers, settledAnswers, linkVars>>
  \/ Receive("resolved") /\ ReceiveResolved(Head(toClient))
  \/ /\ Receive("garbage") /\ Disconnect
     /\ UNCHANGED <<approvals, flushedAnswers, answers, closing, transportClosed>>

-----------------------------------------------------------------------------
(* The server.                                                             *)

ServerStep == ~transportClosed /\ UNCHANGED <<tableVars, approvalVars, linkVars, userAnswers>>

ServerTakes ==
  /\ ServerStep /\ toServer # <<>> /\ toServer' = Tail(toServer)
  /\ LET m == Head(toServer)
     IN  IF m.kind = "request"
         THEN \/ /\ executed' = executed \union {m.id}
                 /\ toClient' \in {toClient, Append(toClient, Message("result", m.id))}
              \/ toClient' = Append(toClient, Message("error", m.id)) /\ UNCHANGED executed
         ELSE toClient' = Append(toClient, Message("resolved", m.id)) /\ UNCHANGED executed
  /\ UNCHANGED <<asked, garbage>>

\* The result of a request that was executed without one comes later.
ServerAnswersLate(r) ==
  /\ ServerStep /\ r \in executed /\ outcome[r] # "answered"
  /\ \A k \in DOMAIN toClient : toClient[k] # Message("result", r)
  /\ toClient' = Append(toClient, Message("result", r))
  /\ UNCHANGED <<toServer, executed, asked, garbage>>

ServerAsks ==
  /\ ServerStep /\ asked < MaxAsked /\ asked' = asked + 1
  /\ toClient' = Append(toClient, Message("approval", asked + 1))
  /\ UNCHANGED <<toServer, executed, garbage>>

\* The turn of the approval ended without the user.
ServerResolves(a) ==
  /\ ServerStep /\ a \in 1..asked /\ a \in approvals
  /\ \A k \in DOMAIN toClient : toClient[k] # Message("resolved", a)
  /\ toClient' = Append(toClient, Message("resolved", a))
  /\ UNCHANGED <<toServer, executed, asked, garbage>>

ServerWritesGarbage ==
  /\ ServerStep /\ garbage < MaxGarbage /\ garbage' = garbage + 1
  /\ toClient' = Append(toClient, Message("garbage", 0))
  /\ UNCHANGED <<toServer, executed, asked>>

RpcInit ==
  /\ requestSequence = 0 /\ mutating = {} /\ pending = {} /\ dispatched = {}
  /\ outcome = [r \in Requests |-> "none"]
  /\ approvals = {} /\ responding = {} /\ flushedAnswers = {} /\ settledAnswers = {}
  /\ answers = [a \in Asked |-> 0]
  /\ disconnected = FALSE /\ closing = FALSE /\ transportClosed = FALSE
  /\ toServer = <<>> /\ toClient = <<>>
  /\ executed = {} /\ asked = 0 /\ garbage = 0 /\ userAnswers = 0

RpcNext ==
  \/ \E mutates \in BOOLEAN : Request(mutates)
  \/ \E r \in Requests : Flushed(r) \/ FlushFails(r) \/ Timeout(r) \/ ServerAnswersLate(r)
  \/ \E a \in Asked : Respond(a) \/ AnswerFlushed(a) \/ AnswerFails(a) \/ ServerResolves(a)
  \/ ServerEnds \/ StartClose \/ FinishClose \/ ReceiveLine
  \/ ServerTakes \/ ServerAsks \/ ServerWritesGarbage

RpcSpec == RpcInit /\ [][RpcNext]_rpcVars

-----------------------------------------------------------------------------
(* Properties.                                                             *)

Outcomes == {"none", "answered", "refused", "failed", "uncertain"}
RpcTypeOK ==
  /\ requestSequence \in 0..MaxRequests /\ mutating \subseteq 1..requestSequence
  /\ pending \subseteq 1..requestSequence /\ dispatched \subseteq 1..requestSequence
  /\ outcome \in [Requests -> Outcomes]
  /\ \A r \in 1..requestSequence : r \in pending <=> outcome[r] = "none"
  /\ approvals \subseteq 1..asked /\ responding \subseteq approvals
  /\ answers \in [Asked -> Nat]

\* Who waits on the connection is answered, and once: no request is left waiting when it
\* has gone, whether it ended, was closed, or was given up for a line that is no JSON; and
\* while it stands the server gets one response to an approval, though the user decide
\* twice or the turn end meanwhile.  (After a line that is no JSON the adapter holds itself
\* disconnected but keeps the approvals and the pipe, and a second response does go out.)
EachAnsweredOnce ==
  IF disconnected THEN pending = {} ELSE \A a \in Asked : answers[a] <= 1

=============================================================================
