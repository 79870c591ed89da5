----------------------------- MODULE UsageTracker -----------------------------
(***************************************************************************)
(* How the tokens of a session are charged to models: the executor reports *)
(* growing totals of the thread, turns are bound to their model late, and  *)
(* detached generations report their own tokens                            *)
(* (src/application/session/session-usage-tracker.ts,                      *)
(* src/application/session-model-usage.ts).                                *)
(***************************************************************************)
EXTENDS Integers, FiniteSets, FiniteSetsExt, Functions

CONSTANTS
  Turns, Models,
  MaxTotal,        \* the largest total of the thread
  MaxReports, MaxDetached,
  Resumed          \* the session resumes a thread

ASSUME UsageAssumption ==
  /\ IsFiniteSet(Turns) /\ IsFiniteSet(Models)
  /\ MaxTotal \in Nat /\ MaxReports \in Nat /\ MaxDetached \in Nat /\ Resumed \subseteq BOOLEAN

NoTotal == -1
Unbound == "no model"
Elsewhere == "no turn"           \* a report without a turn
Zero  == [turns |-> 0, interactive |-> 0, detached |-> 0, invocations |-> 0]

VARIABLES
  observedTotal,     \* observedThreadTotalTokens
  interactiveSeen,   \* interactiveUsageObserved
  turnModel,         \* turnModels
  observedTurns,
  usage,             \* modelUsage and the usage of detached generations, by model
  pendingByTurn,
  unattributed,
  baseline,          \* what the thread had used before this session, once known
  threadTotal,       \* the executor's own total
  reports, detachedCalls

usageVars == <<observedTotal, interactiveSeen, turnModel, observedTurns, usage, pendingByTurn,
               unattributed, baseline, threadTotal, reports, detachedCalls>>

\* add: the first tokens of a turn also count the turn.
Charge(t, m, tokens) ==
  /\ observedTurns' = observedTurns \union {t}
  /\ usage' = [usage EXCEPT ![m].interactive = @ + tokens,
                            ![m].turns = IF t \in observedTurns THEN @ ELSE @ + 1]

Attribute(t, tokens) ==
  IF tokens > 0
  THEN IF t # Elsewhere /\ turnModel[t] # Unbound
       THEN Charge(t, turnModel[t], tokens) /\ UNCHANGED <<pendingByTurn, unattributed>>
       ELSE /\ unattributed' = unattributed + tokens
            /\ pendingByTurn' = IF t = Elsewhere THEN pendingByTurn
                                ELSE [pendingByTurn EXCEPT ![t] = @ + tokens]
            /\ UNCHANGED <<observedTurns, usage>>
  ELSE UNCHANGED <<observedTurns, usage, pendingByTurn, unattributed>>

\* observe: a report whose total is lower than one seen came late and is ignored.
Growth(total) ==
  IF observedTotal = NoTotal \/ total < observedTotal THEN 0 ELSE total - observedTotal

\* Mutant of Latest: a late report lowers the total.
LatestReported(total) == total
Latest(total) == IF observedTotal = NoTotal \/ total >= observedTotal THEN total ELSE observedTotal

Observe(t, total) ==
  /\ reports < MaxReports /\ reports' = reports + 1
  /\ total <= MaxTotal
  /\ threadTotal' = IF total > threadTotal THEN total ELSE threadTotal
  /\ baseline' = IF observedTotal = NoTotal THEN total ELSE baseline
  /\ interactiveSeen' = (interactiveSeen \/ (observedTotal # NoTotal /\ total >= observedTotal))
  /\ Attribute(t, Growth(total))
  /\ observedTotal' = Latest(total)
  /\ UNCHANGED <<turnModel, detachedCalls>>

\* bindTurn: the tokens that waited for the turn go to its model.  The same turn may be
\* bound again (a turn/start answer after turn/started), to another model.
\* Mutant of Unpend: the waiting tokens are charged but stay.
KeepPending(t) == UNCHANGED <<pendingByTurn, unattributed>>
Unpend(t) ==
  /\ pendingByTurn' = [pendingByTurn EXCEPT ![t] = 0]
  /\ unattributed' = Max({0, unattributed - pendingByTurn[t]})

BindTurn(t, m) ==
  /\ turnModel[t] # m
  /\ turnModel' = [turnModel EXCEPT ![t] = m]
  /\ IF pendingByTurn[t] = 0
     THEN UNCHANGED <<pendingByTurn, unattributed, observedTurns, usage>>
     ELSE Unpend(t) /\ Charge(t, m, pendingByTurn[t])
  /\ UNCHANGED <<observedTotal, interactiveSeen, baseline, threadTotal, reports, detachedCalls>>

\* SessionModelUsageAccumulator.observe.
ObserveDetached(m, tokens) ==
  /\ detachedCalls < MaxDetached /\ detachedCalls' = detachedCalls + 1
  /\ usage' = [usage EXCEPT ![m].detached = @ + tokens, ![m].invocations = @ + 1]
  /\ UNCHANGED <<observedTotal, interactiveSeen, turnModel, observedTurns, pendingByTurn,
                 unattributed, baseline, threadTotal, reports>>

\* snapshot.
Charged(m) == usage[m].interactive + usage[m].detached
TotalTokens == SumFunction([m \in Models |-> Charged(m)]) + unattributed
ObservedTotalTokens ==
  IF interactiveSeen \/ \E m \in Models : usage[m].invocations > 0 THEN TotalTokens ELSE NoTotal

\* A new thread has used nothing; a resumed one an amount not yet known.
UsageInit ==
  /\ observedTotal \in {IF resumed THEN NoTotal ELSE 0 : resumed \in Resumed}
  /\ interactiveSeen = FALSE
  /\ turnModel = [t \in Turns |-> Unbound] /\ observedTurns = {}
  /\ usage = [m \in Models |-> Zero] /\ pendingByTurn = [t \in Turns |-> 0] /\ unattributed = 0
  /\ baseline = 0 /\ threadTotal = 0 /\ reports = 0 /\ detachedCalls = 0

UsageNext ==
  \/ \E t \in Turns \union {Elsewhere}, total \in 0..MaxTotal : Observe(t, total)
  \/ \E t \in Turns, m \in Models : BindTurn(t, m)
  \/ \E m \in Models, tokens \in {0, 1} : ObserveDetached(m, tokens)

UsageSpec == UsageInit /\ [][UsageNext]_usageVars

-----------------------------------------------------------------------------
(* Properties.                                                             *)

UsageTypeOK ==
  /\ observedTotal \in {NoTotal} \union 0..MaxTotal
  /\ turnModel \in [Turns -> Models \union {Unbound}] /\ observedTurns \subseteq Turns
  /\ usage \in [Models -> [turns : Nat, interactive : Nat, detached : Nat, invocations : Nat]]
  /\ pendingByTurn \in [Turns -> Nat] /\ unattributed \in Nat
  /\ SumFunction(pendingByTurn) <= unattributed
  /\ \A t \in Turns : turnModel[t] # Unbound => pendingByTurn[t] = 0

\* No token is lost or counted twice, in whatever order reports and bindings arrive:
\* what the models are charged for interactive turns, with what waits for a turn, is
\* what the thread has used since the session began; and a session says that it knows of no
\* usage only while there is none (snapshot, observedTotalTokens).
TokensConserved ==
  /\ SumFunction([m \in Models |-> usage[m].interactive]) + unattributed = threadTotal - baseline
  /\ ObservedTotalTokens = NoTotal => threadTotal = baseline /\ TotalTokens = 0
=============================================================================
