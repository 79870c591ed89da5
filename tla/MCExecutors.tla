----------------------------- MODULE MCExecutors -----------------------------
(***************************************************************************)
(* What talks to a model or its harness - the Codex App Server client, the *)
(* Pi harness, the legacy session with its tools, the accounting of tokens *)
(* the processes run meanwhile, the session opened around them, and the    *)
(* Todo document its model works on - on small instances for TLC.  The     *)
(* parts have no state in common: a behaviour is one of one part, chosen   *)
(* at first.                                                               *)
(***************************************************************************)
EXTENDS CodexRpc, PiHarness, SessionRuntime, UsageTracker, ProcessRuns,
  SessionOpening, TodoWork

VARIABLE part
executorVars == <<rpcVars, piVars, sessionVars, usageVars, runVars, openingVars, workVars, part>>

\* Where another part is chosen, the process is over.
NoProcess ==
  /\ runner = "tool" /\ running = {} /\ deaf = {} /\ holding = {} /\ exitSeen = TRUE
  /\ reading = FALSE /\ killArmed = FALSE /\ stopReasons = {} /\ terminating = FALSE
  /\ runPhase = "returned"

MCInit ==
  /\ RpcInit /\ PiInit /\ SessionInit /\ UsageInit /\ OpeningInit /\ WorkInit
  /\ part \in {"codex", "pi", "session", "usage", "run", "opening", "work"}
  /\ part # "usage" => observedTotal = 0
  /\ part # "opening" => resumes /\ nativeTurn = "none"
  /\ \/ part = "run" /\ RunsInit
     \/ part # "run" /\ NoProcess

MCNext ==
  /\ UNCHANGED part
  /\ \/ part = "codex" /\ RpcNext /\ UNCHANGED <<piVars, sessionVars, usageVars, runVars, openingVars, workVars>>
     \/ part = "pi" /\ PiNext /\ UNCHANGED <<rpcVars, sessionVars, usageVars, runVars, openingVars, workVars>>
     \/ part = "session" /\ SessionNext /\ UNCHANGED <<rpcVars, piVars, usageVars, runVars, openingVars, workVars>>
     \/ part = "usage" /\ UsageNext /\ UNCHANGED <<rpcVars, piVars, sessionVars, runVars, openingVars, workVars>>
     \/ /\ part = "opening" /\ OpeningNext
        /\ UNCHANGED <<rpcVars, piVars, sessionVars, usageVars, runVars, workVars>>
     \/ /\ part = "work" /\ WorkNext
        /\ UNCHANGED <<rpcVars, piVars, sessionVars, usageVars, runVars, openingVars>>
     \/ part = "run" /\ RunsNext /\ UNCHANGED <<rpcVars, piVars, sessionVars, usageVars, openingVars, workVars>>

\* A part that was not chosen stays as it began, where none of its fair actions is enabled.
MCSpec ==
  /\ MCInit /\ [][MCNext]_executorVars
  /\ PiFairness /\ SessionFairness /\ RunsFairness

\* Whatever is run ends: each turn of the Pi harness, the close() of a session, a command of the
\* user and all it started.
EveryRunEnds == PiTurnEnds /\ CloseEnds /\ TerminalRunEnds

ExecutorTypeOK ==
  /\ RpcTypeOK /\ PiTypeOK /\ SessionTypeOK /\ UsageTypeOK /\ RunsTypeOK
  /\ OpeningTypeOK /\ WorkTypeOK
=============================================================================
