------------------------------ MODULE WorkSteps ------------------------------
(***************************************************************************)
(* The steps of a turn, derived from the plans its harness publishes       *)
(* (projectWorkFlow of src/domain/work-steps.ts).  The projection is a     *)
(* fold over the journal and is made anew for every snapshot: a behaviour  *)
(* is the fold over a journal that grows.  A plan's entry is a token (its  *)
(* normalised text), the title shown of it and a status; a digest is the   *)
(* identity of what is digested.                                           *)
(***************************************************************************)
EXTENDS Integers, Sequences, SequencesExt, Filters

CONSTANTS
  PlanTokens,
  TitleOf,          \* [PlanTokens -> titles]: redaction can make two tokens look the same
  Near,             \* pairs of tokens within the edit distance of isEditLike
  TurnDeeds,        \* what is done while the turn lasts, in this order
  MaxPlanLength, MaxRevisions

\* A deed only reads when its command consists of reading programs and writes no file, or
\* when its tool's name says so; a tool without a name may do anything.
Deeds == [kind : {"file-change", "tool", "message"}, onlyReads : BOOLEAN]

ASSUME StepsAssumption ==
  /\ \A p \in Near : <<p[2], p[1]>> \in Near
  /\ TurnDeeds \in Seq(Deeds)
  /\ MaxPlanLength \in Nat /\ MaxRevisions \in Nat

VARIABLES
  currentSteps,     \* State[]: entry, identity and associated activities
  planOrdinal,      \* valid revisions of the turn
  planInvalid,
  retirements, planOrphans,
  worked,           \* activities of the interval so far
  turnOver

stepVars == <<currentSteps, planOrdinal, planInvalid, retirements, planOrphans, worked, turnOver>>

Entries == [token : PlanTokens, status : {"running", "pending"}]   \* or completed, failed, cancelled
Plans == UNION {[1..n -> Entries] : n \in 0..MaxPlanLength}
NoIdentity == [ordinal |-> 0, position |-> 0]

-----------------------------------------------------------------------------
(* reconcile: which step of the last plan an entry of the next one is.     *)

Times(plan, token) == Cardinality({i \in DOMAIN plan : plan[i].token = token})

\* collisionTitles: two tokens that look the same.
Blocked(old, next, token) ==
  \E e \in ToSet(old) \union ToSet(next) : e.token # token /\ TitleOf[e.token] = TitleOf[token]

\* Entry j is step i if their token is unique in both plans.
Exact(old, next, i, j) ==
  /\ old[i].token = next[j].token
  /\ Times(old, old[i].token) = 1 /\ Times(next, next[j].token) = 1
  /\ ~Blocked(old, next, next[j].token)

\* Mutant of Matches: of the entries left over the first keeps its step, though it may be another.
MatchesFirstEdit(old, next) ==
  LET exact == {p \in (DOMAIN old) \X (DOMAIN next) : Exact(old, next, p[1], p[2])}
      oldLeft == DOMAIN old \ {p[1] : p \in exact}
      newLeft == DOMAIN next \ {p[2] : p \in exact}
  IN  exact \union {q \in oldLeft \X newLeft :
                      /\ \A i \in oldLeft : q[1] <= i
                      /\ \A j \in newLeft : q[2] <= j
                      /\ <<old[q[1]].token, next[q[2]].token>> \in Near}
\* What is left over on both sides is one step edited, if it is one entry on each.
Matches(old, next) ==
  LET exact == {p \in (DOMAIN old) \X (DOMAIN next) : Exact(old, next, p[1], p[2])}
      oldLeft == DOMAIN old \ {p[1] : p \in exact}
      newLeft == DOMAIN next \ {p[2] : p \in exact}
      edited == {p \in oldLeft \X newLeft :
                   LET was == old[p[1]].token
                       is  == next[p[2]].token
                   IN  /\ Cardinality(oldLeft) = 1 /\ Cardinality(newLeft) = 1
                       /\ ~Blocked(old, next, was) /\ ~Blocked(old, next, is)
                       /\ was = is \/ <<was, is>> \in Near}
  IN  exact \union edited

RetirementReason(old, next, i, newLeft) ==
  CASE newLeft = {} -> "deleted"
    [] newLeft # {} /\ (Times(old, old[i].token) > 1 \/ Times(next, old[i].token) > 1
                        \/ Blocked(old, next, old[i].token)) -> "ambiguous_duplicate"
    [] OTHER -> IF \E j \in newLeft : old[i].token = next[j].token \/ <<old[i].token, next[j].token>> \in Near
                THEN "ambiguous_edit" ELSE "replacement"

Orphan(a, reason, prior) == [activity |-> a, reason |-> reason, prior |-> prior]

\* turn/plan/updated of the selected turn, readable.
PlanUpdated(plan) ==
  LET matches == Matches(currentSteps, plan)
      kept == {p[1] : p \in matches}
      newLeft == DOMAIN plan \ {p[2] : p \in matches}
      gone == SetToSeq(DOMAIN currentSteps \ kept)
      reason(i) == RetirementReason(currentSteps, plan, i, newLeft)
      orphansOf(i) == [k \in DOMAIN currentSteps[i].work |->
                         Orphan(currentSteps[i].work[k], reason(i), currentSteps[i].identity)]
  IN  /\ ~turnOver /\ planOrdinal < MaxRevisions
      /\ planOrdinal' = planOrdinal + 1 /\ planInvalid' = FALSE
      /\ currentSteps' =
           [j \in DOMAIN plan |->
              IF j \in newLeft
              THEN [token |-> plan[j].token, status |-> plan[j].status,
                    identity |-> [ordinal |-> planOrdinal', position |-> j], work |-> <<>>]
              ELSE LET i == CHOOSE i \in kept : <<i, j>> \in matches
                   IN  [currentSteps[i] EXCEPT !.token = plan[j].token, !.status = plan[j].status]]
      /\ retirements' = retirements \union {[identity |-> currentSteps[i].identity, reason |-> reason(i)] : i \in ToSet(gone)}
      /\ planOrphans' = planOrphans \o FlattenSeq([k \in DOMAIN gone |-> orphansOf(gone[k])])
      /\ UNCHANGED <<worked, turnOver>>

\* A plan with an entry that is blank or no string: what follows belongs to no step.
PlanRejected ==
  /\ ~turnOver /\ ~planInvalid /\ planInvalid' = TRUE
  /\ UNCHANGED <<currentSteps, planOrdinal, retirements, planOrphans, worked, turnOver>>

\* classifyWorkActivity.
WorkClass(deed) ==
  CASE deed.kind = "file-change" -> "action"
    [] deed.kind = "tool"        -> IF deed.onlyReads THEN "observation" ELSE "action"
    [] OTHER                     -> "control"
ClassOf(a) == WorkClass(TurnDeeds[a])

\* The next activity is one of control, which is no work.
ControlSeen ==
  /\ ~turnOver /\ worked < Len(TurnDeeds) /\ ClassOf(worked + 1) = "control"
  /\ worked' = worked + 1
  /\ UNCHANGED <<currentSteps, planOrdinal, planInvalid, retirements, planOrphans, turnOver>>

\* It is work, of the selected turn or of another that runs beside it.
RunningSteps == {i \in DOMAIN currentSteps : currentSteps[i].status = "running"}
WorkDone(own) ==
  LET a == worked + 1
      orphaned(reason) == planOrphans' = Append(planOrphans, Orphan(a, reason, NoIdentity))
  IN  /\ ~turnOver /\ worked < Len(TurnDeeds) /\ ClassOf(a) # "control" /\ worked' = a
      /\ CASE ~own -> orphaned("source_mismatch") /\ UNCHANGED currentSteps
           [] own /\ planInvalid -> orphaned("invalid_revision") /\ UNCHANGED currentSteps
           [] own /\ ~planInvalid /\ planOrdinal = 0 -> orphaned("pre_plan") /\ UNCHANGED currentSteps
           [] own /\ ~planInvalid /\ planOrdinal > 0 /\ Cardinality(RunningSteps) # 1 ->
                orphaned("no_unambiguous_running_item") /\ UNCHANGED currentSteps
           [] OTHER ->
                /\ currentSteps' = [i \in DOMAIN currentSteps |->
                                      IF i \in RunningSteps THEN [currentSteps[i] EXCEPT !.work = Append(@, a)]
                                      ELSE currentSteps[i]]
                /\ UNCHANGED planOrphans
      /\ UNCHANGED <<planOrdinal, planInvalid, retirements, turnOver>>

\* The next turn starts.
TurnOver ==
  /\ ~turnOver /\ turnOver' = TRUE
  /\ UNCHANGED <<currentSteps, planOrdinal, planInvalid, retirements, planOrphans, worked>>

\* validateJournal: an activity or a revision that is there twice, or a gap.  What comes
\* before it is kept and nothing after it is read.
JournalBroken ==
  /\ ~turnOver /\ turnOver' = TRUE
  /\ UNCHANGED <<currentSteps, planOrdinal, planInvalid, retirements, planOrphans, worked>>

-----------------------------------------------------------------------------
(* What is shown of a step: its actions one by one, and how often it only  *)
(* looked.                                                                 *)

OfClass(ids, class) == Selected(ids, {a \in DOMAIN TurnDeeds : ClassOf(a) = class})
ShownOf(step) == [actions      |-> OfClass(step.work, "action"),
                  observations |-> OfClass(step.work, "observation")]

-----------------------------------------------------------------------------
StepsInit ==
  /\ currentSteps = <<>> /\ planOrdinal = 0 /\ planInvalid = FALSE
  /\ retirements = {} /\ planOrphans = <<>> /\ worked = 0 /\ turnOver = FALSE

StepsNext ==
  \/ \E plan \in Plans : PlanUpdated(plan)
  \/ \E own \in BOOLEAN : WorkDone(own)
  \/ ControlSeen \/ PlanRejected \/ TurnOver \/ JournalBroken

StepsSpec == StepsInit /\ [][StepsNext]_stepVars

-----------------------------------------------------------------------------
StepIdentities == [ordinal : 0..MaxRevisions, position : 0..MaxPlanLength]
StepsTypeOK ==
  /\ planOrdinal \in 0..MaxRevisions /\ worked \in 0..Len(TurnDeeds)
  /\ \A s \in ToSet(currentSteps) :
       s.token \in PlanTokens /\ s.identity \in StepIdentities /\ ToSet(s.work) \subseteq 1..worked
  /\ \A o \in ToSet(planOrphans) : o.activity \in 1..worked /\ o.prior \in StepIdentities
  /\ \A r \in retirements : r.identity \in StepIdentities
  /\ {planInvalid, turnOver} \subseteq BOOLEAN

\* Each piece of work of the turn is told once: among the actions or the observations of one step, or
\* as an orphan with its reason; and the steps are different ones, none of which was retired before.
ToldOnce ==
  LET ofStep(i) == ShownOf(currentSteps[i]).actions \o ShownOf(currentSteps[i]).observations
      told == FlattenSeq([i \in DOMAIN currentSteps |-> ofStep(i)])
                \o [k \in DOMAIN planOrphans |-> planOrphans[k].activity]
  IN  /\ IsInjective(told) /\ ToSet(told) = {a \in 1..worked : ClassOf(a) # "control"}
      /\ \A i, j \in DOMAIN currentSteps :
           /\ currentSteps[i].identity = currentSteps[j].identity => i = j
           /\ \A r \in retirements : r.identity # currentSteps[i].identity

\* Entry i of a plan and entry j of the next are one beyond doubt: they have the text that no other has,
\* or one was edited into the other while the rest of the plan stayed as it was.
Alone(plan, i) == \A k \in DOMAIN plan : plan[k].token = plan[i].token => k = i
AllStay(from, to, i, j) ==
  \A k \in DOMAIN from \ {i} : Alone(from, k) /\ \E l \in DOMAIN to \ {j} : to[l].token = from[k].token
SameEntry(old, next, i, j) ==
  /\ \/ old[i].token = next[j].token /\ Alone(old, i) /\ Alone(next, j)
     \/ <<old[i].token, next[j].token>> \in Near /\ AllStay(old, next, i, j) /\ AllStay(next, old, j, i)
  /\ ~Blocked(old, next, old[i].token) /\ ~Blocked(old, next, next[j].token)

\* A step goes on with its work; with another plan it does so only as an entry that is its own beyond
\* doubt.  No other step takes over what was done under it.
WorkStays ==
  \A i \in DOMAIN currentSteps, j \in DOMAIN currentSteps' :
    LET before == ToSet(currentSteps[i].work)
        after  == ToSet(currentSteps'[j].work)
    IN  IF currentSteps[i].identity = currentSteps'[j].identity
        THEN before \subseteq after /\ (planOrdinal' # planOrdinal => SameEntry(currentSteps, currentSteps', i, j))
        ELSE before \intersect after = {}

\* Whatever plans replace each other, each piece of work of the turn is told once, and not under a step
\* that it was not done for (reconcile, and the isolated edit at work-steps.ts:602).
WorkToldOnce == []ToldOnce /\ [][WorkStays]_stepVars
=============================================================================
