------------------------------ MODULE PiHarness ------------------------------
(***************************************************************************)
(* The Pi harness: one thread, one turn at a time, and the events of a     *)
(* turn in their order (src/infrastructure/executors/pi-harness.ts).       *)
(*                                                                         *)
(* The turn is begun by a timer of no delay after startTurn has returned,  *)
(* the prompt is called a microtask later.  The session behind the harness *)
(* is external: it may stream text while it is prompted, and its prompt    *)
(* settles.                                                                *)
(***************************************************************************)
EXTENDS Integers, Sequences, SequencesExt

CONSTANTS MaxPiTurns, MaxPiText

ASSUME PiAssumption == MaxPiTurns \in Nat /\ MaxPiText \in Nat

PiTurns == 1..MaxPiTurns
Inactive == [turn |-> 0, interrupted |-> FALSE, started |-> FALSE, text |-> 0]

VARIABLES
  piThread,     \* "none", "creating" or "loaded"
  active,       \* the active turn, or Inactive
  piTurnsStarted,
  timers,       \* turns whose beginTurn is due
  microtasks,   \* turns whose prompt is about to be called
  prompting,    \* the turn the session is prompted with, or 0
  abortCalled,  \* the session was told to abort this prompt
  piClosed,
  emitted,      \* the events, in order
  stopped       \* turns the user interrupted while they were active

piVars == <<piThread, active, piTurnsStarted, timers, microtasks, prompting, abortCalled,
            piClosed, emitted, stopped>>

Emission(method, t) == [method |-> method, turn |-> t]

Ends == {"completed", "failed", "interrupted"}

\* startThread: one thread in the life of the harness.
StartThread ==
  /\ ~piClosed /\ piThread = "none" /\ piThread' = "creating"
  /\ UNCHANGED <<active, piTurnsStarted, timers, microtasks, prompting, abortCalled, piClosed,
                 emitted, stopped>>
ThreadCreated ==
  /\ piThread = "creating" /\ piThread' = "loaded"
  /\ UNCHANGED <<active, piTurnsStarted, timers, microtasks, prompting, abortCalled, piClosed,
                 emitted, stopped>>

NoActiveTurn == active = Inactive

StartPiTurn ==
  /\ ~piClosed /\ piThread = "loaded" /\ NoActiveTurn /\ piTurnsStarted < MaxPiTurns
  /\ piTurnsStarted' = piTurnsStarted + 1
  /\ active' = [Inactive EXCEPT !.turn = piTurnsStarted + 1]
  /\ timers' = timers \union {piTurnsStarted + 1}
  /\ UNCHANGED <<piThread, microtasks, prompting, abortCalled, piClosed, emitted, stopped>>

\* finalizeTurnOnce: the text so far is completed before the turn ends.
Closing(method, t) ==
  (IF active.text > 0 THEN <<Emission("text completed", t)>> ELSE <<>>) \o <<Emission(method, t)>>

\* Mutant of EndsOnlyActive: a turn without text does not end.
EndsSpokenTurn(t) == ~piClosed /\ active.turn = t /\ active.text > 0
EndsOnlyActive(t) == ~piClosed /\ active.turn = t

BeginTurn(t) ==
  /\ t \in timers /\ timers' = timers \ {t}
  /\ IF piClosed \/ active.turn # t
     THEN UNCHANGED <<active, microtasks, emitted>>
     ELSE IF active.interrupted
     THEN /\ emitted' = emitted \o <<Emission("started", t)>> \o Closing("interrupted", t)
          /\ active' = Inactive /\ UNCHANGED microtasks
     ELSE /\ emitted' = Append(emitted, Emission("started", t))
          /\ active' = [active EXCEPT !.started = TRUE]
          /\ microtasks' = microtasks \union {t}
  /\ UNCHANGED <<piThread, piTurnsStarted, prompting, abortCalled, piClosed, stopped>>

CallPrompt(t) ==
  /\ t \in microtasks /\ microtasks' = microtasks \ {t}
  /\ prompting' = t /\ abortCalled' = FALSE
  /\ UNCHANGED <<piThread, active, piTurnsStarted, timers, piClosed, emitted, stopped>>

\* receive: text without a started turn, or after close, is dropped.
ReceiveText ==
  /\ prompting # 0
  /\ IF piClosed \/ ~active.started
     THEN UNCHANGED <<active, emitted>>
     ELSE /\ active.text < MaxPiText
          /\ active' = [active EXCEPT !.text = @ + 1]
          /\ emitted' = Append(emitted, Emission("text", active.turn))
  /\ UNCHANGED <<piThread, piTurnsStarted, timers, microtasks, prompting, abortCalled, piClosed,
                 stopped>>

\* The prompt returned or failed.  An interrupted turn is over as interrupted either way.
PromptSettles(succeeded) ==
  /\ prompting # 0 /\ prompting' = 0
  /\ IF EndsOnlyActive(prompting)
     THEN /\ emitted' = emitted \o Closing(
               IF active.interrupted THEN "interrupted"
               ELSE IF succeeded THEN "completed" ELSE "failed", prompting)
          /\ active' = Inactive
     ELSE UNCHANGED <<emitted, active>>
  /\ UNCHANGED <<piThread, piTurnsStarted, timers, microtasks, abortCalled, piClosed, stopped>>

\* Mutant of MarkInterrupted: only a prompt under way is aborted.
MarkNothing == UNCHANGED active
MarkInterrupted == active' = [active EXCEPT !.interrupted = TRUE]

InterruptPiTurn ==
  /\ active # Inactive /\ ~active.interrupted /\ piThread = "loaded"
  /\ MarkInterrupted
  /\ abortCalled' = (active.started /\ prompting # 0)
  /\ stopped' = stopped \union {active.turn}
  /\ UNCHANGED <<piThread, piTurnsStarted, timers, microtasks, prompting, piClosed, emitted>>

\* close: nothing is told any more.
ClosePi ==
  /\ ~piClosed /\ piClosed' = TRUE
  /\ abortCalled' = (active # Inactive /\ prompting # 0)
  /\ active' = Inactive
  /\ UNCHANGED <<piThread, piTurnsStarted, timers, microtasks, prompting, emitted, stopped>>

PiInit ==
  /\ piThread = "none" /\ active = Inactive /\ piTurnsStarted = 0 /\ timers = {} /\ microtasks = {}
  /\ prompting = 0 /\ abortCalled = FALSE /\ piClosed = FALSE /\ emitted = <<>> /\ stopped = {}

PiNext ==
  \/ StartThread \/ ThreadCreated \/ StartPiTurn \/ ReceiveText \/ InterruptPiTurn \/ ClosePi
  \/ \E t \in PiTurns : BeginTurn(t) \/ CallPrompt(t)
  \/ \E succeeded \in BOOLEAN : PromptSettles(succeeded)

\* Timers and microtasks run; a prompt settles, which is the session's own affair.
PiFairness ==
  /\ \A t \in PiTurns : WF_piVars(BeginTurn(t)) /\ WF_piVars(CallPrompt(t))
  /\ WF_piVars(\E succeeded \in BOOLEAN : PromptSettles(succeeded))
PiSpec == PiInit /\ [][PiNext]_piVars /\ PiFairness

-----------------------------------------------------------------------------
(* Properties.                                                             *)

PiTypeOK ==
  /\ piThread \in {"none", "creating", "loaded"}
  /\ active \in [turn : 0..piTurnsStarted, interrupted : BOOLEAN, started : BOOLEAN, text : 0..MaxPiText]
  /\ timers \subseteq PiTurns /\ microtasks \subseteq PiTurns /\ prompting \in 0..MaxPiTurns
  /\ abortCalled \in BOOLEAN /\ piClosed \in BOOLEAN /\ stopped \subseteq PiTurns

\* The workbench may rely on the events of a turn: it starts before anything else is
\* said of it and ends at most once, with its text completed just before and nothing
\* after; no other turn is heard of in between.  And a turn the user interrupted never
\* ends as completed or failed, whether the interruption came before the turn began or
\* while the prompt was settling.
TurnEventsFit ==
  \A k \in DOMAIN emitted :
    LET e == emitted[k] IN
      /\ CASE e.method = "started" -> k = 1 \/ emitted[k - 1].method \in Ends
           [] OTHER -> /\ k > 1 /\ emitted[k - 1].turn = e.turn
                       /\ emitted[k - 1].method \notin Ends
                       /\ emitted[k - 1].method = "text completed" => e.method \in Ends
      /\ e.turn \in stopped /\ e.method \in Ends => e.method = "interrupted"

\* Every turn that startTurn returned ends, unless the harness is closed.
PiTurnEnds ==
  \A t \in PiTurns : piTurnsStarted = t ~>
    (piClosed \/ \E k \in DOMAIN emitted : emitted[k].turn = t /\ emitted[k].method \in Ends)
=============================================================================
