---------------------------- MODULE RenderScheduler ----------------------------
(***************************************************************************)
(* When the workbench draws (src/presentation/tui/render-scheduler.ts and  *)
(* its use in workbench-shell.ts): at most one frame per interval while    *)
(* only deltas come, at once when something durable has changed, and never *)
(* before the editor has handled the key that was just pressed.  Time is   *)
(* whether the interval has passed since the last frame.                   *)
(***************************************************************************)
EXTENDS Integers

CONSTANT MaxPublished     \* snapshots published

ASSUME RenderAssumption == MaxPublished \in Nat

VARIABLES
  snapshot,           \* [working, journal]: phase and journalSequence
  published,
  undrawn,            \* "nothing", "streaming" or "immediate": changes no frame shows
  frameOver,
  timerArmed, pending, immediatePending, inputPending, disposed

renderVars == <<snapshot, published, undrawn, frameOver, timerArmed, pending, immediatePending,
                inputPending, disposed>>

\* workbenchRenderUrgency.
Urgency(before, after) ==
  IF before.working /\ after.working /\ before.journal = after.journal THEN "streaming" ELSE "immediate"

Draw ==
  /\ undrawn' = "nothing" /\ pending' = FALSE /\ frameOver' = FALSE

Flush == Draw /\ immediatePending' = FALSE /\ timerArmed' = FALSE

\* request outside of an input turn.
RequestStreaming(left) ==
  IF frameOver THEN Draw /\ UNCHANGED <<timerArmed, immediatePending>>
  ELSE /\ pending' = TRUE /\ timerArmed' = TRUE /\ undrawn' = left
       /\ UNCHANGED <<frameOver, immediatePending>>

Request(urgency, left) ==
  CASE disposed -> undrawn' = left /\ UNCHANGED <<frameOver, timerArmed, pending, immediatePending>>
    [] ~disposed /\ inputPending ->
         /\ pending' = TRUE /\ immediatePending' = (immediatePending \/ urgency = "immediate")
         /\ undrawn' = left /\ UNCHANGED <<frameOver, timerArmed>>
    [] ~disposed /\ ~inputPending /\ urgency = "immediate" -> Flush
    [] OTHER -> RequestStreaming(left)

\* The subscription of the shell.
Publish(next) ==
  LET urgency == Urgency(snapshot, next)
      left == IF undrawn = "immediate" THEN undrawn ELSE urgency
  IN  /\ published < MaxPublished /\ published' = published + 1
      /\ next.journal \in {snapshot.journal, snapshot.journal + 1}
      /\ snapshot' = next
      /\ Request(urgency, left)
      /\ UNCHANGED <<inputPending, disposed>>

IntervalPasses ==
  /\ ~frameOver /\ frameOver' = TRUE
  /\ UNCHANGED <<snapshot, published, undrawn, timerArmed, pending, immediatePending, inputPending, disposed>>

TimerFires ==
  /\ timerArmed /\ frameOver /\ timerArmed' = FALSE
  /\ IF pending /\ ~disposed THEN Draw ELSE UNCHANGED <<undrawn, pending, frameOver>>
  /\ UNCHANGED <<snapshot, published, immediatePending, inputPending, disposed>>

\* A key is pressed: prioritizeInput.
KeyPressed ==
  /\ ~disposed /\ ~inputPending
  /\ inputPending' = TRUE /\ timerArmed' = FALSE
  /\ UNCHANGED <<snapshot, published, undrawn, frameOver, pending, immediatePending, disposed>>

\* Mutant of InputOver: what came during the input turn waits for the next request.
InputForgotten == inputPending' = FALSE /\ UNCHANGED <<undrawn, frameOver, timerArmed, pending, immediatePending>>
\* The microtask behind the key.
InputOver ==
  /\ inputPending' = FALSE
  /\ CASE disposed \/ ~pending -> UNCHANGED <<undrawn, frameOver, timerArmed, pending, immediatePending>>
       [] ~disposed /\ pending /\ immediatePending -> Flush
       [] OTHER -> RequestStreaming(undrawn)

KeyHandled ==
  /\ inputPending /\ InputOver
  /\ UNCHANGED <<snapshot, published, disposed>>

Dispose ==
  /\ ~disposed /\ disposed' = TRUE
  /\ pending' = FALSE /\ immediatePending' = FALSE /\ timerArmed' = FALSE
  /\ UNCHANGED <<snapshot, published, undrawn, frameOver, inputPending>>

RenderInit ==
  /\ snapshot = [working |-> FALSE, journal |-> 0] /\ published = 0 /\ undrawn = "nothing"
  /\ frameOver = TRUE /\ timerArmed = FALSE /\ pending = FALSE /\ immediatePending = FALSE
  /\ inputPending = FALSE /\ disposed = FALSE

RenderNext ==
  \/ \E working \in BOOLEAN, journal \in 0..MaxPublished : Publish([working |-> working, journal |-> journal])
  \/ IntervalPasses \/ TimerFires \/ KeyPressed \/ KeyHandled \/ Dispose

RenderSpec == RenderInit /\ [][RenderNext]_renderVars

RenderTypeOK ==
  /\ snapshot \in [working : BOOLEAN, journal : 0..MaxPublished] /\ published \in 0..MaxPublished
  /\ undrawn \in {"nothing", "streaming", "immediate"}
  /\ {frameOver, timerArmed, pending, immediatePending, inputPending, disposed} \subseteq BOOLEAN

\* No change is left undrawn: a frame is due as long as there is one, at the timer or
\* after the key, and what is durable waits for nothing but the key.
UndrawnIsScheduled ==
  ~disposed =>
    /\ undrawn # "nothing" => inputPending \/ timerArmed
    /\ undrawn = "immediate" => inputPending
=============================================================================
