----------------------------- MODULE JournalViews -----------------------------
(***************************************************************************)
(* What is concluded from the journal of a session: the conversation       *)
(* (projectChat), the statistics (session-stats.ts), the state the monitor *)
(* shows (runtime-monitor.ts) and the question of a finished turn          *)
(* (completedTurnNoteScope).  The journal is written by two chains that    *)
(* interleave: the commands, which send, and the events of the harness.    *)
(* The views are operators on it; "turns" is what happened.                *)
(***************************************************************************)
EXTENDS Integers, Sequences, SequencesExt, FiniteSets

CONSTANTS
  MaxViewRequests,  \* bound on the messages that a user sends; they are numbered
  MaxViewTurns,     \* bound on the turns of the harness
  MaxLostAnswers,   \* bound on the sends whose answer is lost
  ShortlistLimit, DetailLimit

ASSUME JournalViewsAssumption ==
  /\ MaxViewRequests \in Nat /\ MaxViewTurns \in Nat /\ MaxLostAnswers \in Nat
  /\ ShortlistLimit \in Nat /\ DetailLimit \in Nat /\ ShortlistLimit < DetailLimit

VARIABLES
  written,          \* the activities of the root thread, as far as they are visible
  sending,          \* what each chain sends, and how far it has come
  waiting,          \* chatQueue
  activeView,       \* activeTurnId, or 0
  uncertain,        \* blockedChat, or 0
  turns             \* history: the turns of the harness, with the request and the outcome of each

viewsVars == <<written, sending, waiting, activeView, uncertain, turns>>

Outcomes == {"completed", "failed", "cancelled"}
Activity(method, phase, item, turn) == [is |-> method, phase |-> phase, item |-> item, turn |-> turn]
Message(phase, r) == Activity("message", phase, r, 0)
RequestRecord(method, r, t) ==
  Activity(method, IF method \in {"request/failed", "request/uncertain"} THEN "failed" ELSE "started", r, t)
Chains == {"command", "event"}
Steps == {"idle", "outbound", "asked", "lost", "answered", "accepted", "started"}
NotSending == [step |-> "idle", item |-> 0, queued |-> FALSE, turn |-> 0]
ViewTurns == DOMAIN turns
ViewRequests == 1..MaxViewRequests
Sent == {written[i].item : i \in DOMAIN written} \ {0}

-----------------------------------------------------------------------------
(* The journal.                                                            *)

Indices(Test(_)) == {i \in DOMAIN written : Test(written[i])}
Writes(more) == written' = written \o more
StartOf(r, queued) ==
  [NotSending EXCEPT !.step = IF queued THEN "asked" ELSE "outbound", !.item = r, !.queued = queued]
Goes(c, step) == sending' = [sending EXCEPT ![c].step = step]
Leaves(c) == sending' = [sending EXCEPT ![c] = NotSending]

\* The chain writes its records and comes to drainChatQueue, which looks at the state as this step
\* leaves it; the record of the message it takes is the next one of the journal.
Drains(c, more) ==
  IF waiting' # <<>> /\ activeView' = 0 /\ uncertain' = 0
  THEN /\ Writes(Append(more, Message("started", Head(waiting'))))
       /\ sending' = [sending EXCEPT ![c] = StartOf(Head(waiting'), TRUE)]
  ELSE Writes(more) /\ Leaves(c)

\* sendChat: the message waits, or it is sent at once.
SubmitRequest(r) ==
  /\ r = Cardinality(Sent) + 1 /\ sending["command"].step = "idle"
  /\ IF activeView # 0 \/ waiting # <<>> \/ uncertain # 0
     THEN /\ Writes(<<RequestRecord("request/submitted", r, 0), RequestRecord("request/queued", r, 0)>>)
          /\ waiting' = Append(waiting, r) /\ UNCHANGED sending
     ELSE /\ Writes(<<Message("started", r)>>)
          /\ sending' = [sending EXCEPT !["command"] = StartOf(r, FALSE)] /\ UNCHANGED waiting
  /\ UNCHANGED <<activeView, uncertain, turns>>

\* The second record of a message that is sent at once.
WriteOutbound ==
  /\ sending["command"].step = "outbound"
  /\ Writes(<<RequestRecord("request/submitted", sending["command"].item, 0)>>)
  /\ Goes("command", "asked")
  /\ UNCHANGED <<waiting, activeView, uncertain, turns>>

\* if (this.chatQueue[0]?.id === r) this.chatQueue.shift()
Unqueued(r) == IF waiting # <<>> /\ Head(waiting) = r THEN Tail(waiting) ELSE waiting

\* After a refusal the drain goes on.
SendRefused(c) ==
  /\ sending[c].step = "asked"
  /\ waiting' = Unqueued(sending[c].item)
  /\ UNCHANGED <<activeView, uncertain, turns>>
  /\ LET failed == <<RequestRecord("request/failed", sending[c].item, 0), Message("failed", sending[c].item)>>
     IN  IF sending[c].queued THEN Drains(c, failed) ELSE Writes(failed) /\ Leaves(c)

BeginTurn(r) == turns' = Append(turns, [of |-> r, outcome |-> "running", told |-> "nothing"])

\* The answer is lost; the harness may have started the turn all the same, and its events may come
\* before the message is recorded as failed.
SendUncertain(c) ==
  /\ sending[c].step = "asked"
  /\ Cardinality(Indices(LAMBDA a : a.is = "request/uncertain")) < MaxLostAnswers
  /\ Writes(<<RequestRecord("request/uncertain", sending[c].item, 0)>>)
  /\ uncertain' = sending[c].item
  /\ Goes(c, "lost")
  /\ \/ UNCHANGED turns
     \/ Len(turns) < MaxViewTurns /\ BeginTurn(sending[c].item)
  /\ UNCHANGED <<waiting, activeView>>

WriteLost(c) ==
  /\ sending[c].step = "lost"
  /\ Writes(<<Message("failed", sending[c].item)>>)
  /\ waiting' = Unqueued(sending[c].item)
  /\ Leaves(c)
  /\ UNCHANGED <<activeView, uncertain, turns>>

TurnBegins(c) ==
  /\ sending[c].step = "asked" /\ Len(turns) < MaxViewTurns
  /\ BeginTurn(sending[c].item)
  /\ sending' = [sending EXCEPT ![c].step = "answered", ![c].turn = Len(turns) + 1]
  /\ UNCHANGED <<written, waiting, activeView, uncertain>>

\* The answer: the state first, then three activities, each after the other is on the disk.
TurnAccepted(c) ==
  /\ sending[c].step = "answered"
  /\ activeView' = sending[c].turn /\ uncertain' = 0 /\ waiting' = Unqueued(sending[c].item)
  /\ Writes(<<Message("completed", sending[c].item)>>)
  /\ Goes(c, "accepted")
  /\ UNCHANGED turns

WriteAccepted(c) ==
  /\ \/ /\ sending[c].step = "accepted"
        /\ Writes(<<RequestRecord("request/started", sending[c].item, sending[c].turn)>>)
        /\ Goes(c, "started")
     \/ /\ sending[c].step = "started"
        /\ Writes(<<Activity("turn/start", "started", 0, sending[c].turn)>>)
        /\ Leaves(c)
  /\ UNCHANGED <<waiting, activeView, uncertain, turns>>

\* The events are recorded one by one, between the steps of a command; the drain of the queue is a part
\* of the event that led to it, so that no other is recorded before it is done.
MayRecord == sending["event"].step = "idle"

StartRecorded(t) ==
  /\ MayRecord /\ turns[t].told = "nothing"
  /\ turns' = [turns EXCEPT ![t].told = "start"]
  /\ Writes(<<Activity("turn/started", "started", 0, t)>>
             \o IF uncertain = 0 THEN <<>> ELSE <<Message("completed", uncertain)>>)
  /\ activeView' = t /\ uncertain' = 0 /\ waiting' = Unqueued(uncertain)
  /\ UNCHANGED sending

\* Mutant of TerminalPhase: the status in turn/completed is not looked at.
ByMethod(outcome) == "completed"
TerminalPhase(outcome) == outcome

\* A turn ends at the harness, which is seen by its notification alone, and that is recorded; a turn that
\* is interrupted is over already.  reconcileNativeState: a turn whose end is on record is not active.
EndRecorded(t, outcome) ==
  /\ MayRecord /\ turns[t].told = "start" /\ turns[t].outcome \in {"running", outcome}
  /\ turns' = [turns EXCEPT ![t].told = "end", ![t].outcome = outcome]
  /\ activeView' = IF activeView # 0 /\ turns'[activeView].told = "end" THEN 0 ELSE activeView
  /\ UNCHANGED <<waiting, uncertain>>
  /\ LET end == <<Activity("turn/completed", TerminalPhase(outcome), 0, t)>>
     IN  IF activeView = t THEN Drains("event", end) ELSE Writes(end) /\ UNCHANGED sending

\* cancelChat for a request that may have arrived: the thread is read, and either the turn that is
\* running is taken over and interrupted, or the request is given up and the command drains the queue,
\* while events are recorded.  The events of a turn that is over come before the answer that says so,
\* and are taken to be recorded by then.
Reconcile ==
  /\ uncertain # 0 /\ sending["command"].step = "idle"
  /\ uncertain' = 0 /\ waiting' = Unqueued(uncertain)
  /\ \/ \E t \in ViewTurns :
          /\ turns[t].outcome = "running"
          /\ activeView' = t
          /\ Writes(<<Activity("turn/started", "started", 0, t), Message("completed", uncertain)>>)
          /\ turns' = [turns EXCEPT ![t].outcome = "cancelled"]
          /\ UNCHANGED sending
     \/ /\ \A t \in ViewTurns : turns[t].told = "end"
        /\ UNCHANGED <<activeView, turns>>
        /\ Drains("command", <<Message("cancelled", uncertain)>>)

-----------------------------------------------------------------------------
(* The views.                                                              *)

First(set) == CHOOSE i \in set : \A j \in set : i <= j
Latest(set) == CHOOSE i \in set : \A j \in set : j <= i

\* projectRootTurns.
Starts(t) == Indices(LAMBDA a : a.turn = t /\ a.is \in {"turn/started", "turn/start"})
Ends(t) == Indices(LAMBDA a : a.turn = t /\ a.is = "turn/completed")
TurnStatus(t) ==
  IF Ends(t) # {} THEN written[First(Ends(t))].phase
  ELSE IF Starts(t) # {} THEN "running" ELSE "observed"
SeenTurns == {written[i].turn : i \in DOMAIN written} \ {0}

SessionState ==
  LET statuses == {TurnStatus(t) : t \in SeenTurns}
  IN  CASE written = <<>> -> "empty"
        [] "running" \in statuses -> "active"
        [] {"running", "failed"} \cap statuses = {"failed"} -> "failed"
        [] {"running", "failed", "cancelled"} \cap statuses = {"cancelled"} -> "cancelled"
        [] statuses = {"completed"} -> "completed"
        [] OTHER -> "observed"

\* projectRequests: the requests in the order of their submission.
Submissions == SelectSeq(written, LAMBDA a : a.is = "request/submitted")
Requests == [i \in DOMAIN Submissions |-> Submissions[i].item]
Has(r, method) == Indices(LAMBDA a : a.item = r /\ a.is = method)
TurnOf(r) == written[First(Has(r, "request/started"))].turn
Lifecycle(r) ==
  IF Has(r, "request/failed") # {} THEN "failed"
  ELSE IF Has(r, "request/uncertain") # {} THEN "uncertain"
  ELSE IF Has(r, "request/started") # {} THEN IF Ends(TurnOf(r)) # {} THEN "completed" ELSE "running"
  ELSE IF Has(r, "request/queued") # {} THEN "queued" ELSE "submitted"

\* shortlist: what went wrong, then the slowest, then the latest; details: the shortlist and the latest.
Terminals(r) == Has(r, "request/failed") \union Has(r, "request/uncertain")
Elapsed(r) ==
  LET ends == IF Terminals(r) # {} THEN Terminals(r)
              ELSE IF Has(r, "request/started") # {} THEN Ends(TurnOf(r)) ELSE {}
  IN  IF ends = {} THEN -1 ELSE First(ends) - First(Has(r, "request/submitted"))
WentWrong(rs) == SelectSeq(rs, LAMBDA r : Lifecycle(r) \in {"failed", "uncertain"})
Slowest(rs) ==
  LET timed == [i \in DOMAIN rs |-> <<rs[i], Elapsed(rs[i])>>]
      sorted == SortSeq(timed, LAMBDA a, b : a[2] > b[2] \/ (a[2] = b[2] /\ a[1] < b[1]))
  IN  [i \in DOMAIN rs |-> sorted[i][1]]
FirstOf(limit, rs) == {rs[i] : i \in {k \in DOMAIN rs : Cardinality({rs[j] : j \in 1..k}) <= limit}}
Details ==
  LET rs == Requests
      shortlist == FirstOf(ShortlistLimit, WentWrong(rs) \o Slowest(rs) \o Reverse(rs))
  IN  shortlist \union FirstOf(DetailLimit - Cardinality(shortlist), Reverse(rs))

\* projectChat: one bubble for each message, as its last activity says.
Bubbles(r) == Has(r, "message")
Bubble(r) == IF Bubbles(r) = {} THEN "none" ELSE written[Latest(Bubbles(r))].phase

\* projectIssue: a failure is recovered when the same item is completed later.
FailureRecovered(i) == \E j \in DOMAIN written : j > i /\ written[j].item = written[i].item /\ written[j].phase = "completed"

\* projectRuntimeMonitor, while no command has left an error.  What started last and has no terminal
\* activity since is active; of requests only "failed" and "uncertain" are terminal.
ActiveSince(starts, ends) == starts # {} /\ (ends = {} \/ Latest(starts) > Latest(ends))
RequestActivities(r) == Indices(LAMBDA a : a.item = r /\ a.is \notin {"message"})
RequestActive(r) == ActiveSince(RequestActivities(r) \ Terminals(r), Terminals(r))
TurnActive(t) == ActiveSince(Starts(t), Ends(t))
Failures == Indices(LAMBDA a : a.phase = "failed")
Completions == Indices(LAMBDA a : a.is = "turn/completed")
FailsNow == Failures # {} /\ (Completions = {} \/ Latest(Failures) > Latest(Completions))
MonitorState ==
  IF FailsNow THEN "failed"
  ELSE IF (\E r \in Sent : RequestActive(r)) \/ (\E t \in SeenTurns : TurnActive(t)) THEN "running"
  ELSE IF Completions # {} THEN "completed" ELSE "idle"

\* completedTurnNoteScope: the question is the last message completed before the turn starts.
\* Mutant of Questions: whatever was asked last.
AnyQuestions(t) == Indices(LAMBDA a : a.is = "message" /\ a.phase = "completed")
Questions(t) == {i \in Indices(LAMBDA a : a.is = "message" /\ a.phase = "completed") : i < Latest(Starts(t))}
HasScope(t) == /\ Starts(t) # {} /\ Ends(t) # {}
               /\ TurnStatus(t) = "completed" /\ Latest(Ends(t)) > Latest(Starts(t)) /\ Questions(t) # {}
Question(t) == written[Latest(Questions(t))].item

-----------------------------------------------------------------------------
ViewsOfInit ==
  /\ written = <<>> /\ sending = [c \in Chains |-> NotSending] /\ waiting = <<>>
  /\ activeView = 0 /\ uncertain = 0 /\ turns = <<>>

ViewsOfNext ==
  \/ \E r \in ViewRequests : SubmitRequest(r)
  \/ WriteOutbound \/ Reconcile
  \/ \E c \in Chains :
       SendRefused(c) \/ SendUncertain(c) \/ WriteLost(c) \/ TurnBegins(c) \/ TurnAccepted(c) \/ WriteAccepted(c)
  \/ \E t \in ViewTurns : StartRecorded(t) \/ \E outcome \in Outcomes : EndRecorded(t, outcome)

ViewsOfSpec == ViewsOfInit /\ [][ViewsOfNext]_viewsVars

-----------------------------------------------------------------------------
\* The variables have their types.
JournalViewsTypeOK ==
  /\ \A c \in Chains : sending[c].step \in Steps
  /\ ToSet(waiting) \subseteq ViewRequests /\ uncertain \in ViewRequests \union {0}
  /\ activeView \in 0..Len(turns) /\ Len(turns) <= MaxViewTurns
  /\ \A t \in ViewTurns : turns[t].of \in ViewRequests /\ turns[t].outcome \in Outcomes \union {"running"}

\* The drain of /cancel and that of an event have taken the same message (ChatDelivery, OneTurnPerMessage).
SentTwice(r) == Cardinality(Indices(LAMBDA a : a = Message("started", r))) > 1

\* What is reported is what happened (projectSessionStats, projectChat): an outcome of a turn is its
\* own; a request that is called refused has no turn, unless it was sent twice; one that runs or is done
\* has one; what is said to wait waits; a message shown as delivered, or a failure as recovered, was
\* taken up by a turn; the details keep to their limit and have what went wrong; and the monitor does
\* not say that the work is over while the journal has a turn that began and has not ended.
ReviewTellsWhatHappened ==
  /\ \A t \in SeenTurns : TurnStatus(t) \in Outcomes => TurnStatus(t) = turns[t].outcome
  /\ SessionState = "completed" => \A t \in SeenTurns : turns[t].outcome = "completed"
  /\ \A r \in ToSet(Requests) :
       LET own == {t \in ViewTurns : turns[t].of = r}
           told == Lifecycle(r)
       IN  CASE told = "failed" -> own = {} \/ SentTwice(r)
             [] told = "completed" -> \E t \in own : turns[t].outcome # "running"
             [] told = "running" -> own # {}
             [] told = "queued" -> r \in ToSet(waiting) \/ \E c \in Chains : sending[c].item = r
             [] OTHER -> TRUE
  /\ \A r \in ViewRequests : Bubble(r) = "completed" => \E t \in ViewTurns : turns[t].of = r
  /\ \A i \in DOMAIN written :
       written[i].is = "message" /\ written[i].phase = "failed" /\ FailureRecovered(i)
         => \E t \in ViewTurns : turns[t].of = written[i].item
  /\ LET details == Details
         wrong == ToSet(WentWrong(Requests))
     IN  /\ Cardinality(details) <= DetailLimit
         /\ Cardinality(wrong) <= ShortlistLimit => wrong \subseteq details
  /\ MonitorState \in {"idle", "completed"} => \A t \in ViewTurns : turns[t].told # "start"

\* When every turn is over and nothing is under way, waits or failed, the monitor says so
\* (docs/WWW_OBSERVABILITY_VIEW_ARCHITECTURE.md: "turn completed/interrupted | completion |
\* completed/idle handoff").  The code breaks this one: "request/submitted" starts a request, and
\* nothing but a failure ends it.
MonitorHandsOff ==
  (/\ sending = [c \in Chains |-> NotSending] /\ waiting = <<>> /\ uncertain = 0 /\ Failures = {}
   /\ \A t \in ViewTurns : turns[t].told = "end")
    => MonitorState \in {"completed", "idle"}

\* The question that a note is asked to answer is the one that its turn was started for, whatever was
\* sent since (completedTurnNoteScope), as long as no message was sent twice.  It is that of an earlier
\* turn only if the answer of turn/start was not on record when the turn ended: the message is not
\* "completed" before turn/started then, which a lost answer leads to always (blockedChat at
\* project-workbench.ts:1247), so that the note of that turn answers another question.
NoteHasItsQuestion ==
  (\A r \in ViewRequests : ~SentTwice(r)) =>
    \A t \in ViewTurns : HasScope(t) =>
      \/ Question(t) = turns[t].of
      \/ /\ \A i \in DOMAIN written : written[i] = Activity("turn/start", "started", 0, t) => First(Ends(t)) < i
         /\ \E u \in ViewTurns : u < t /\ Question(t) = turns[u].of
=============================================================================
