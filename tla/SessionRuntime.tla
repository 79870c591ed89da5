---------------------------- MODULE SessionRuntime ----------------------------
(***************************************************************************)
(* The legacy session: one task at a time drives a model through rounds of *)
(* tool calls, and every step is a line of the session's event trail, from *)
(* which a later process rebuilds the model's context                      *)
(* (src/application/session-runtime.ts, src/infrastructure/                *)
(* session-store.ts).                                                      *)
(*                                                                         *)
(* An await is the end of a step: between two steps the user may abort or  *)
(* close, and the process may die.  Events that restore() does not read    *)
(* (message.assistant.started, command.started, command.output, ...) are   *)
(* written in the step of the next event it does read.  An append adds its *)
(* whole line, or throws, or the process dies in it; the last two may      *)
(* leave part of the line, and then the trail cannot be read any more.     *)
(* An append that throws although its line is whole is taken for one that  *)
(* leaves part of it: the next event repeats its number and the trail is   *)
(* refused as well.                                                        *)
(***************************************************************************)
EXTENDS Integers, Sequences, FiniteSets, SequencesExt

CONSTANTS
  AgentRounds,      \* MAX_AGENT_ROUNDS
  CallsPerRound,    \* tool calls in one answer, at most
  MaxSubmissions,   \* prompts and terminal commands, over all processes
  MaxRestarts,
  MaxStoreFaults

ASSUME SessionAssumption ==
  /\ AgentRounds \in Nat \ {0} /\ CallsPerRound \in Nat
  /\ MaxSubmissions \in Nat /\ MaxRestarts \in Nat /\ MaxStoreFaults \in Nat

VARIABLES
  trail,        \* the event trail, on disk
  torn,         \* there is part of a line in the file
  context,      \* context.messages
  narrations,   \* the tool calls narrated, in order of their steps
  task,         \* where the active task is; "idle" without one
  turn,         \* the turn of the task
  round,
  calls,        \* tool calls of the answer still to be run
  activeRound,  \* the calls of activeToolRound
  controller,   \* abortController: "none", "live" or "aborted"
  catching,     \* the task is in its catch block
  closer,       \* close(): "open", "waiting", "ended" or "failed"
  up,           \* the process lives
  submissions, issued, restarts, storeFaults,
  cut,          \* turns whose process died
  unstored      \* calls of the answers whose append failed

sessionVars == <<trail, torn, context, narrations, task, turn, round, calls, activeRound, controller,
                 catching, closer, up, submissions, issued, restarts, storeFaults, cut, unstored>>

taskVars == <<turn, round, calls, activeRound, controller, catching>>
history  == <<submissions, issued, restarts, cut, unstored>>

Fact(kind, t, seq, id) == [kind |-> kind, turn |-> t, calls |-> seq, id |-> id]

User          == [kind |-> "user", calls |-> <<>>, id |-> 0]
Answer(cs)    == [kind |-> "assistant", calls |-> cs, id |-> 0]
FailedAnswer(cs) == [kind |-> "failed", calls |-> cs, id |-> 0]
Result(id)    == [kind |-> "result", calls |-> <<>>, id |-> id]

-----------------------------------------------------------------------------
(* restore, from the trail.                                                *)

OfKind(events, kind) == SelectSeq(events, LAMBDA e : e.kind = kind)

\* Prompts of terminal commands, and their results, are not the model's business.
Messages(events) ==
  LET heard == SelectSeq(events, LAMBDA e : e.kind \in {"user", "assistant", "failed", "result"})
  IN  [k \in 1..Len(heard) |-> [kind |-> heard[k].kind, calls |-> heard[k].calls, id |-> heard[k].id]]

Resulted(events) == {e.id : e \in ToSet(OfKind(events, "result"))}

\* An answer is left out, with the results it has, when one of its calls has none.
Incomplete(events) ==
  {e \in ToSet(events) : /\ e.kind \in {"assistant", "failed"}
                         /\ ~(ToSet(e.calls) \subseteq Resulted(events))}

\* Mutant of Restored: an answer whose calls were cut off is kept.
RestoredWhole(events) == Messages(events)
Restored(events) ==
  LET cutOff == UNION {ToSet(e.calls) : e \in Incomplete(events)}
  IN  SelectSeq(Messages(events), LAMBDA m :
        CASE m.kind = "result" -> m.id \notin cutOff
          [] m.kind = "user"   -> TRUE
          [] OTHER             -> ToSet(m.calls) \subseteq Resulted(events))

NarratedIn(events) == [k \in DOMAIN OfKind(events, "narration") |-> OfKind(events, "narration")[k].id]

OpenTurns(events) ==
  {e.turn : e \in ToSet(OfKind(events, "started"))} \ {e.turn : e \in ToSet(OfKind(events, "completed"))}

-----------------------------------------------------------------------------
(* submit and runTerminalCommand.                                          *)

MayStart == up /\ closer = "open" /\ task = "idle" /\ submissions < MaxSubmissions

\* The prompt joins the context before anything is recorded.
Submit ==
  /\ MayStart
  /\ submissions' = submissions + 1 /\ turn' = submissions + 1
  /\ context' = Append(context, User)
  /\ task' = "start" /\ round' = 1 /\ calls' = <<>> /\ activeRound' = {} /\ catching' = FALSE
  /\ UNCHANGED <<trail, torn, narrations, controller, closer, up, issued, restarts, storeFaults, cut,
                 unstored>>

RunTerminalCommand ==
  /\ MayStart
  /\ submissions' = submissions + 1 /\ turn' = submissions + 1
  /\ task' = "terminal start" /\ controller' = "live" /\ catching' = FALSE
  /\ UNCHANGED <<trail, torn, context, narrations, round, calls, activeRound, closer, up, issued,
                 restarts, storeFaults, cut, unstored>>

-----------------------------------------------------------------------------
(* Steps of a task: each ends with an append.                              *)

At(where) == up /\ task = where
Stored(event) == trail' = Append(trail, event) /\ UNCHANGED <<torn, storeFaults>>
\* An event that restore makes nothing of.
StoredForTheRecord == UNCHANGED <<trail, torn, storeFaults>>

TaskDone ==
  /\ task' = "idle" /\ controller' = "none" /\ catching' = FALSE
  /\ round' = 1 /\ calls' = <<>> /\ activeRound' = {}

Discarded(messages, ids) ==
  SelectSeq(messages, LAMBDA m :
    IF m.kind = "result" THEN m.id \notin ids ELSE ToSet(m.calls) \intersect ids = {})

\* The catch block: an incomplete round is discarded, then the cancellation or the error
\* and the end of the turn are recorded.
Catch ==
  /\ task' = "record failure" /\ catching' = TRUE /\ activeRound' = {}
  /\ context' = Discarded(context, activeRound)
  /\ UNCHANGED <<controller, turn, round, calls>>

\* SessionEventStore.appendLine throws: nothing is in the file, or part of the line.
StoreFault ==
  /\ storeFaults < MaxStoreFaults /\ storeFaults' = storeFaults + 1
  /\ torn' \in {torn, TRUE}

\* An append throws.  The first two of a turn are outside its try; a terminal command
\* has no catch; and from the catch block nothing is caught.
AppendThrows ==
  /\ up /\ task # "idle" /\ StoreFault /\ UNCHANGED trail
  /\ IF catching \/ task \in {"start", "ask", "terminal start", "terminal ask", "terminal narrate",
                              "terminal run", "terminal finish"}
     THEN TaskDone /\ UNCHANGED <<context, turn>>
     ELSE Catch
  /\ unstored' = IF task = "store answer" THEN unstored \union ToSet(calls) ELSE unstored
  /\ UNCHANGED <<narrations, closer, up, submissions, issued, restarts, cut>>

RecordStart ==
  /\ \/ At("start") /\ task' = "ask"
     \/ At("terminal start") /\ task' = "terminal ask"
  /\ Stored(Fact("started", turn, <<>>, 0))
  /\ UNCHANGED <<context, narrations, taskVars, closer, up, history>>

\* Only now is there something to abort.
RecordUser ==
  /\ At("ask") /\ task' = "stream" /\ controller' = "live"
  /\ Stored(Fact("user", turn, <<>>, 0))
  /\ UNCHANGED <<context, narrations, turn, round, calls, activeRound, catching, closer, up, history>>

\* streamAssistant, and what follows its return.  The model answers, with an error or
\* not, unless it or the abort signal makes the stream throw.
Answers == UNION {[1..n -> {0}] : n \in 0..CallsPerRound}
Stream(cs, failed) ==
  /\ At("stream")
  /\ IF controller = "aborted"
     THEN task' = "record failure" /\ UNCHANGED <<context, issued, calls>>
     ELSE LET fresh == [k \in DOMAIN cs |-> issued + k]
          IN  /\ issued' = issued + Len(cs)
              /\ calls' = fresh
              /\ context' = Append(context, IF failed THEN FailedAnswer(fresh) ELSE Answer(fresh))
              /\ task' = IF failed THEN "store failed answer" ELSE "store answer"
  /\ UNCHANGED <<trail, torn, narrations, turn, round, activeRound, controller, catching, closer, up,
                 submissions, restarts, storeFaults, cut, unstored>>
StreamThrows ==
  /\ At("stream") /\ Catch
  /\ UNCHANGED <<trail, torn, narrations, closer, up, history, storeFaults>>

StoreFailedAnswer ==
  /\ At("store failed answer") /\ task' = "finish"
  /\ Stored(Fact("failed", turn, calls, 0))
  /\ UNCHANGED <<context, narrations, taskVars, closer, up, history>>

\* In the last round the calls are not run: the limit throws.
StoreAnswer ==
  /\ At("store answer")
  /\ Stored(Fact("assistant", turn, calls, 0))
  /\ CASE calls = <<>> -> task' = "finish" /\ UNCHANGED <<context, taskVars>>
       [] calls # <<>> /\ round = AgentRounds ->
            /\ task' = "record failure" /\ catching' = TRUE
            /\ context' = Discarded(context, ToSet(calls)) /\ activeRound' = {}
            /\ UNCHANGED <<controller, turn, round, calls>>
       [] OTHER ->
            /\ task' = "narrate" /\ activeRound' = ToSet(calls)
            /\ UNCHANGED <<context, controller, turn, round, calls, catching>>
  /\ UNCHANGED <<narrations, closer, up, history>>

\* recordNarration: the number of the step follows those already narrated.
RecordNarration ==
  /\ \/ At("narrate") /\ task' = "run"
     \/ At("terminal narrate") /\ task' = "terminal run"
  /\ LET id == IF task = "narrate" THEN Head(calls) ELSE -turn
     IN  /\ Stored(Fact("narration", Len(narrations) + 1, <<>>, id))
         /\ narrations' = Append(narrations, id)
  /\ UNCHANGED <<context, taskVars, closer, up, history>>

\* After a result: the next call, those that an abort leaves over, or the next round.
AfterResult ==
  CASE controller = "aborted" /\ Len(calls) > 1 -> task' = "cancel rest" /\ UNCHANGED <<round, activeRound>>
    [] controller = "aborted" /\ Len(calls) = 1 -> task' = "finish" /\ activeRound' = {} /\ UNCHANGED round
    [] controller # "aborted" /\ Len(calls) > 1 -> task' = "narrate" /\ UNCHANGED <<round, activeRound>>
    [] OTHER -> task' = "stream" /\ activeRound' = {} /\ round' = round + 1

\* executeToolCall: what the tool does, or that it throws, is in the result.
RunTool ==
  /\ At("run")
  /\ Stored(Fact("result", turn, <<>>, Head(calls)))
  /\ context' = Append(context, Result(Head(calls)))
  /\ calls' = Tail(calls) /\ AfterResult
  /\ UNCHANGED <<narrations, turn, controller, catching, closer, up, history>>

\* The result is stored but the evidence for the Todo is not, nor the warning about it.
EvidenceThrows ==
  /\ At("run") /\ StoreFault
  /\ trail' = Append(trail, Fact("result", turn, <<>>, Head(calls)))
  /\ Catch
  /\ UNCHANGED <<narrations, closer, up, history>>

\* cancelUnexecutedToolCall.
CancelRest ==
  /\ At("cancel rest")
  /\ Stored(Fact("result", turn, <<>>, Head(calls)))
  /\ context' = Append(context, Result(Head(calls)))
  /\ calls' = Tail(calls)
  /\ IF Len(calls) > 1 THEN UNCHANGED <<task, activeRound>>
     ELSE task' = "finish" /\ activeRound' = {}
  /\ UNCHANGED <<narrations, turn, round, controller, catching, closer, up, history>>

\* commitCancellation or recordError: restore reads neither into the context.
RecordFailure ==
  /\ At("record failure") /\ task' = "finish"
  /\ StoredForTheRecord
  /\ UNCHANGED <<context, narrations, taskVars, closer, up, history>>

\* recordTurnCompletion.
Finish ==
  /\ At("finish") \/ At("terminal finish")
  /\ Stored(Fact("completed", turn, <<>>, 0))
  /\ TaskDone
  /\ UNCHANGED <<context, narrations, turn, closer, up, history>>

RecordTerminalUser ==
  /\ At("terminal ask") /\ task' = "terminal narrate"
  /\ StoredForTheRecord
  /\ UNCHANGED <<context, narrations, taskVars, closer, up, history>>
\* An aborted command returns as well.
RunCommand ==
  /\ At("terminal run") /\ task' = "terminal finish"
  /\ StoredForTheRecord
  /\ UNCHANGED <<context, narrations, taskVars, closer, up, history>>

-----------------------------------------------------------------------------
(* abort and close.                                                        *)

\* Nothing is aborted while a prompt is being recorded.
Aborted == IF controller = "live" THEN "aborted" ELSE controller

Abort ==
  /\ up /\ controller = "live" /\ controller' = "aborted"
  /\ UNCHANGED <<trail, torn, context, narrations, task, turn, round, calls, activeRound, catching,
                 closer, up, history, storeFaults>>

Close ==
  /\ up /\ closer = "open" /\ closer' = "waiting" /\ controller' = Aborted
  /\ UNCHANGED <<trail, torn, context, narrations, task, turn, round, calls, activeRound, catching,
                 up, history, storeFaults>>

ActiveTaskOver == task = "idle"

EndSession ==
  /\ up /\ closer = "waiting" /\ ActiveTaskOver
  /\ \/ Stored(Fact("ended", 0, <<>>, 0)) /\ closer' = "ended"
     \/ StoreFault /\ closer' = "failed" /\ UNCHANGED trail
  /\ UNCHANGED <<context, narrations, task, taskVars, up, history>>

-----------------------------------------------------------------------------
(* The process dies or has ended; another resumes the session.             *)

\* An append is under way, but while the model is waited for.
Appending == task \notin {"idle", "stream"} \/ (closer = "waiting" /\ ActiveTaskOver)

Crash ==
  /\ up /\ restarts < MaxRestarts /\ up' = FALSE
  /\ torn' \in {torn, torn \/ Appending}
  /\ cut' = IF task = "idle" THEN cut ELSE cut \union {turn}
  /\ task' = "idle" /\ controller' = "none" /\ activeRound' = {} /\ calls' = <<>> /\ catching' = FALSE
  /\ context' = <<>> /\ narrations' = <<>> /\ closer' = "open"
  /\ UNCHANGED <<trail, turn, round, submissions, issued, restarts, storeFaults, unstored>>

NarrationsAfterRestart(events) == NarratedIn(events)

\* readAllUnchecked and parseLine: a line that is no event, and none is to be read.
Readable == ~torn

Resume ==
  /\ ~up /\ Readable /\ restarts < MaxRestarts /\ restarts' = restarts + 1 /\ up' = TRUE
  /\ context' = Restored(trail) /\ narrations' = NarrationsAfterRestart(trail)
  /\ UNCHANGED <<trail, torn, task, taskVars, closer, submissions, issued, storeFaults, cut, unstored>>

SessionInit ==
  /\ trail = <<>> /\ torn = FALSE /\ context = <<>> /\ narrations = <<>>
  /\ task = "idle" /\ turn = 0 /\ round = 1 /\ calls = <<>> /\ activeRound = {}
  /\ controller = "none" /\ catching = FALSE /\ closer = "open" /\ up = TRUE
  /\ submissions = 0 /\ issued = 0 /\ restarts = 0 /\ storeFaults = 0
  /\ cut = {} /\ unstored = {}

TaskStep ==
  \/ RecordStart \/ RecordUser \/ StreamThrows
  \/ \E cs \in Answers, failed \in BOOLEAN : Stream(cs, failed)
  \/ StoreFailedAnswer \/ StoreAnswer \/ RecordNarration \/ RunTool \/ EvidenceThrows
  \/ CancelRest \/ RecordFailure \/ Finish \/ RecordTerminalUser \/ RunCommand
  \/ AppendThrows

SessionNext ==
  \/ Submit \/ RunTerminalCommand \/ TaskStep
  \/ Abort \/ Close \/ EndSession \/ Crash \/ Resume

\* Promises settle: the store, the tools and the model's stream all end.
SessionFairness == WF_sessionVars(TaskStep) /\ WF_sessionVars(EndSession)
SessionSpec == SessionInit /\ [][SessionNext]_sessionVars /\ SessionFairness

-----------------------------------------------------------------------------
(* Properties.                                                             *)

SessionTypeOK ==
  /\ task \in {"idle", "start", "ask", "stream", "store answer", "store failed answer", "narrate",
               "run", "cancel rest", "record failure", "finish", "terminal start",
               "terminal ask", "terminal narrate", "terminal run", "terminal finish"}
  /\ controller \in {"none", "live", "aborted"}
  /\ closer \in {"open", "waiting", "ended", "failed"}
  /\ {up, catching, torn} \subseteq BOOLEAN
  /\ round \in 1..AgentRounds
  /\ ToSet(calls) \subseteq 1..issued /\ activeRound \subseteq 1..issued
  /\ turn \in 0..submissions /\ cut \subseteq 1..submissions

\* What the model is sent.  The model client passes over answers that ended in error.
\* Set apart are the answers whose own append threw: activeToolRound is set after it, so
\* their calls stay in the context without results.
Sent(messages) ==
  SelectSeq(messages, LAMBDA m : m.kind # "failed" /\ ToSet(m.calls) \intersect unstored = {})

\* Every answer that called tools is followed by the results of all of its calls, in order,
\* and no result stands alone.
WellFormed ==
  task = "stream" =>
    LET sent == Sent(context)
        Block(k) == {k + j : j \in DOMAIN sent[k].calls}
    IN  /\ \A k \in DOMAIN sent : \A j \in DOMAIN sent[k].calls :
             k + j \in DOMAIN sent /\ sent[k + j] = Result(sent[k].calls[j])
        /\ \A k \in DOMAIN sent : sent[k].kind = "result" =>
             \E a \in 1..k : sent[a].kind = "assistant" /\ k \in Block(a)

\* restore refuses a trail whose steps of work are not numbered 1, 2, 3, ...
Accepted(events) ==
  LET told == OfKind(events, "narration") IN \A k \in DOMAIN told : told[k].turn = k

\* The context that goes to the model is well formed, after aborts, failures of the store,
\* broken rounds and restarts.  A process that resumes the session accepts the steps of work
\* in the trail, whatever was interrupted or failed, and talks to the model about what this process would
\* have (the context between two tasks is what restore makes of the trail); and at the
\* session's end the turns without an end are those whose process died ("The failed turn has
\* already persisted its terminal event").  The last two hold unless an append has failed.
\* Answers that were never stored are not looked at (Sent): after a throwing append the calls
\* of such an answer may go to the model without results.
ContextKept ==
  /\ WellFormed /\ Accepted(trail)
  /\ up /\ task = "idle" /\ storeFaults = 0 => Sent(Restored(trail)) = Sent(context)
  /\ closer = "ended" /\ storeFaults = 0 => OpenTurns(trail) \subseteq cut

\* close() ends, however far the turn is, aborted or not.
CloseEnds == closer = "waiting" ~> (closer # "waiting" /\ task = "idle")
=============================================================================
