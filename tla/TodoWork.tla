------------------------------ MODULE TodoWork ------------------------------
(***************************************************************************)
(* A Todo document worked on by one ledger alone: what the operations of   *)
(* src/application/todo-ledger.ts make of a document one after the other.  *)
(* TodoLedger says what happens when they overlap.                         *)
(***************************************************************************)
EXTENDS TodoDocument

CONSTANTS MaxWork        \* operations in a behaviour

ASSUME WorkAssumption == MaxWork \in Nat

VARIABLES
  work,        \* the items
  fresh,       \* <<id, detail, evidence>> recorded since the entry last started
  worked

workVars == <<work, fresh, worked>>

EntryAt(items, id, d) ==
  IF \E i \in DOMAIN items : items[i].id = id /\ d <= Len(items[i].details)
  THEN {Entry(items, <<CHOOSE i \in DOMAIN items : items[i].id = id, d>>)} ELSE {}
\* pending before, in progress after
Restarts(before, after, id, d) ==
  /\ \E e \in EntryAt(before, id, d) : e.status = "pending"
  /\ \E e \in EntryAt(after, id, d) : e.status = "in_progress"
Fresh(before, after) ==
  {t \in {item.id : item \in ToSet(after)} \X (0..DetailLimit) \X Evidence :
     /\ \E e \in EntryAt(after, t[1], t[2]) : t[3] \in e.evidence
     /\ ~Restarts(before, after, t[1], t[2])
     /\ t \in fresh \/ \A e \in EntryAt(before, t[1], t[2]) : t[3] \notin e.evidence}

WorkStep(items) ==
  /\ worked < MaxWork /\ worked' = worked + 1
  /\ ValidItems(items)
  /\ work' = items
  /\ fresh' = Fresh(work, items)

CreateWork == \E n \in 1..ItemLimit : \E items \in Created(work, n) : WorkStep(items)
ChangeWork == \E items \in Changed(work) : WorkStep(items)

WorkInit == work = <<>> /\ fresh = {} /\ worked = 0
WorkNext == CreateWork \/ ChangeWork
WorkSpec == WorkInit /\ [][WorkNext]_workVars

WorkTypeOK == ValidItems(work) /\ worked \in 0..MaxWork

-----------------------------------------------------------------------------
(* Properties.                                                             *)

\* What is completed rests on evidence recorded after it was started, through
\* blocking, reopening, demotion and new details.  (Of commands: a mirrored native
\* step is completed by its plan.)
EvidencedCompletion ==
  \A i \in DOMAIN work : \A d \in 0..Len(work[i].details) :
    /\ Entry(work, <<i, d>>).status = "completed"
    /\ d = 0 => work[i].details = <<>>
    => \E e \in Evidence : <<work[i].id, d, e>> \in fresh

=============================================================================
