----------------------------- MODULE ProcessRuns -----------------------------
(***************************************************************************)
(* A command run in a process of its own, three times over: the user's     *)
(* terminal command (src/infrastructure/terminal-command-executor.ts), the *)
(* Claude CLI of a review (createSystemClaudeCliRunner of                  *)
(* review-adapters.ts) and a tool of the model (run of agent-tools.ts).    *)
(* A behaviour is one run on POSIX.  The command is a leader and perhaps a *)
(* descendant in its process group; either may ignore SIGTERM, and either  *)
(* may hold the output open.  Of what is read only its end matters.        *)
(***************************************************************************)
EXTENDS Integers

CONSTANT Runners     \* of {"terminal", "review", "tool"}

ASSUME RunnersAssumption == Runners \subseteq {"terminal", "review", "tool"}

VARIABLES
  runner,
  running,       \* processes of the group that run
  deaf,          \* those that ignore SIGTERM
  holding,       \* those that hold the output open
  exitSeen,      \* child.exited has resolved
  reading,       \* the output is being read
  killArmed,     \* killTimer of the terminal's is set and has not fired
  stopReasons,   \* why the run was stopped: "abort", "timeout", "limit"
  terminating,   \* of the review: a signal has been sent
  runPhase       \* "started", "finally" or "returned"

runVars == <<runner, running, deaf, holding, exitSeen, reading, killArmed, stopReasons, terminating, runPhase>>

GroupMembers == {"leader", "descendant"}
Over == runPhase = "returned"

\* SIGTERM to the group, or to the leader alone (the signal option of Bun.spawn).
Terminated(group) == {p \in running : p \in deaf \/ (~group /\ p # "leader")}

-----------------------------------------------------------------------------
(* The operating system.                                                   *)

ProcessExits(p) ==
  /\ p \in running /\ running' = running \ {p}
  /\ UNCHANGED <<runner, deaf, holding, exitSeen, reading, killArmed, stopReasons, terminating, runPhase>>

OutputEnds ==
  /\ reading /\ running \intersect holding = {} /\ reading' = FALSE
  /\ UNCHANGED <<runner, running, deaf, holding, exitSeen, killArmed, stopReasons, terminating, runPhase>>

-----------------------------------------------------------------------------
(* The runners.                                                            *)

\* The terminal's takes what its leader left behind with it.
LeaderExitSeen ==
  /\ ~exitSeen /\ "leader" \notin running /\ exitSeen' = TRUE
  /\ running' = IF runner = "terminal" THEN Terminated(TRUE) ELSE running
  /\ UNCHANGED <<runner, deaf, holding, reading, killArmed, stopReasons, terminating, runPhase>>

\* terminate of the terminal's: SIGKILL follows, once, and the output is read no further;
\* but when the command was aborted before the reading began.
TerminateTerminal ==
  /\ running' = Terminated(TRUE)
  /\ killArmed' = (killArmed \/ stopReasons = {})
  /\ reading' \in {FALSE, reading /\ stopReasons = {}}

Stop(why) ==
  /\ stopReasons' = stopReasons \union {why}
  /\ CASE runner = "terminal" -> TerminateTerminal /\ UNCHANGED terminating
       [] runner = "review" ->
            /\ running' = IF terminating THEN running ELSE Terminated(TRUE)
            /\ terminating' = TRUE /\ reading' = (reading /\ why # "limit")
            /\ UNCHANGED killArmed
       [] OTHER ->
            /\ running' = IF stopReasons = {} THEN Terminated(FALSE) ELSE running
            /\ UNCHANGED <<reading, killArmed, terminating>>
  /\ UNCHANGED <<runner, deaf, holding, exitSeen, runPhase>>

\* The signal of the session, which may have been aborted before the process started.
UserAborts == runner # "review" /\ runPhase = "started" /\ "abort" \notin stopReasons /\ Stop("abort")

TimeoutFires == "timeout" \notin stopReasons /\ runPhase = "started" /\ Stop("timeout")

\* readCappedClaudeCliStream: more output than the budget.
LimitReached ==
  /\ runner = "review" /\ reading /\ running \intersect holding # {} /\ runPhase = "started"
  /\ Stop("limit")

KillTimerFires ==
  /\ killArmed /\ runPhase = "started" /\ killArmed' = FALSE /\ running' = {}
  /\ UNCHANGED <<runner, deaf, holding, exitSeen, reading, stopReasons, terminating, runPhase>>

\* Promise.all of the exit and the output, or one after the other; then finally, which
\* clears the timers.
RunEnds ==
  /\ runPhase = "started" /\ exitSeen /\ ~reading
  /\ runPhase' = "finally" /\ killArmed' = FALSE
  /\ running' = CASE runner = "terminal" -> Terminated(TRUE)
                  [] runner = "review" /\ "timeout" \in stopReasons -> {}
                  [] OTHER -> running
  /\ UNCHANGED <<runner, deaf, holding, exitSeen, reading, stopReasons, terminating>>

RunReturns ==
  /\ runPhase = "finally" /\ runPhase' = "returned"
  /\ UNCHANGED <<runner, running, deaf, holding, exitSeen, reading, killArmed, stopReasons, terminating>>

-----------------------------------------------------------------------------
RunsInit ==
  /\ runner \in Runners
  /\ running \in {{"leader"}, GroupMembers}
  /\ deaf \in SUBSET running /\ holding \in SUBSET running
  /\ exitSeen = FALSE /\ reading = TRUE /\ killArmed = FALSE /\ stopReasons = {}
  /\ terminating = FALSE /\ runPhase = "started"

RunsNext ==
  \/ \E p \in GroupMembers : ProcessExits(p)
  \/ OutputEnds \/ LeaderExitSeen \/ UserAborts \/ TimeoutFires \/ LimitReached \/ KillTimerFires
  \/ RunEnds \/ RunReturns

\* Timers fire and callbacks run; no process has to end, and nobody has to stop it.
RunsFairness ==
  /\ WF_runVars(OutputEnds) /\ WF_runVars(LeaderExitSeen) /\ WF_runVars(TimeoutFires)
  /\ WF_runVars(KillTimerFires) /\ WF_runVars(RunEnds) /\ WF_runVars(RunReturns)

RunsSpec == RunsInit /\ [][RunsNext]_runVars /\ RunsFairness

-----------------------------------------------------------------------------
\* With the types: who survives a terminal command ignores SIGTERM, and nobody survives a
\* review that timed out and returned.
RunsTypeOK ==
  /\ runner \in Runners /\ running \subseteq GroupMembers
  /\ deaf \subseteq GroupMembers /\ holding \subseteq GroupMembers
  /\ {exitSeen, reading, killArmed, terminating} \subseteq BOOLEAN
  /\ stopReasons \subseteq {"abort", "timeout", "limit"}
  /\ runPhase \in {"started", "finally", "returned"}
  /\ Over /\ runner = "terminal" => running \subseteq deaf
  /\ Over /\ runner = "review" /\ "timeout" \in stopReasons => running = {}

\* A terminal command ends, whatever its processes ignore or hold open: stopped by its user
\* or by the clock, it is killed and its output is abandoned.
TerminalRunEnds == (runner = "terminal") ~> Over

\* "bound reaping so timeout handling itself cannot hang a review".
TimedOutReviewEnds == (runner = "review" /\ "timeout" \in stopReasons) ~> Over
=============================================================================
