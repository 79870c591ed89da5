--------------------------- MODULE DocumentProofs ---------------------------
(***************************************************************************)
(* Proofs about what a project keeps in files: the promotion of drafts to  *)
(* canonical documents (CanonicalPromotion), the catalog of epics and      *)
(* stories (Planning), the Todo document under one ledger (TodoWork), its  *)
(* file under several ledgers and an editor (TodoLedger), and a thread     *)
(* that several processes share (ThreadSession): at most one writes, and   *)
(* the journal is kept, unless one of two things has happened that         *)
(* acquireSessionLease leaves possible.  What is proved of the Todo file   *)
(* rests on what the editor leaves unended.                                *)
(***************************************************************************)
EXTENDS CanonicalPromotion, Planning, TodoWork, TodoLedger, ThreadSession, CollectionLemmas

-----------------------------------------------------------------------------
(* Promotion.                                                              *)

Promoting ==
  [at : {"compare", "rename"}, token : pending, target : Targets,
   expected : Bodies \union {Empty}, body : Bodies]

\* The inductive invariant.  A promotion under way carries a token that is still
\* pending, and nothing was written with a token that is pending or not minted.
PromotionInv ==
  /\ PromotionTypeOK
  /\ accepted \in [Tokens -> Acceptance \union {[at |-> "unminted"]}]
  /\ promotion \in Promoting \union {Idle}
  /\ \A k \in Tokens : k \in pending \/ k > minted => writes[k] = 0
  /\ TokenWritesOnce

\* Whatever the commands and the editors do, and however often a document is put
\* back to what the person saw, PromotionInv holds (canonical-promotion.ts:
\* accept, promote; canonical-document-store.ts: writeAtomic).
LEMMA PromotionInductive == PromotionSpec => []PromotionInv
<1>. USE PromotionAssumption DEF Tokens, Idle
<1>1. PromotionInit => PromotionInv
  BY DEF PromotionInit, PromotionInv, PromotionTypeOK, TokenWritesOnce, Promoting
<1>2. PromotionInv /\ [PromotionNext]_promotionVars => PromotionInv'
  <2>. SUFFICES ASSUME PromotionInv, [PromotionNext]_promotionVars
                PROVE  PromotionInv'
    OBVIOUS
  <2>. USE DEF PromotionInv, PromotionTypeOK, TokenWritesOnce, Promoting, Acceptance
  <2>1. ASSUME NEW t \in Targets, NEW body \in Bodies, Accept(t, body)
        PROVE  PromotionInv'
    <3>1. /\ minted' = minted + 1 /\ minted' \in Tokens
          /\ pending' = pending \union {minted'}
          /\ accepted' = [accepted EXCEPT ![minted'] =
                            [target |-> t, before |-> content[t], body |-> body]]
          /\ promotion = Idle
      BY <2>1 DEF Accept, PromotionIdle
    <3>2. accepted'[minted'] \in Acceptance /\ UNCHANGED <<content, promotion, writes>>
      BY <2>1, <3>1 DEF Accept
    <3>. QED
      BY <3>1, <3>2
  <2>2. ASSUME NEW t \in Targets, NEW body \in Bodies, NEW k \in 1..minted,
               Promote(k, t, body)
        PROVE  PromotionInv'
    BY <2>2 DEF Promote, Current, PromotionIdle
  <2>3. ASSUME NEW t \in Targets, NEW body \in Bodies, EditTarget(t, body)
        PROVE  PromotionInv'
    BY <2>3 DEF EditTarget
  <2>4. CASE CompareDigest
    BY <2>4 DEF CompareDigest
  <2>5. CASE RenameTarget
    <3>1. promotion \in Promoting
      BY <2>5 DEF RenameTarget
    <3>2. PICK k \in pending : k = promotion.token /\ k \in Tokens /\ writes[k] = 0
      <4>1. promotion.token \in pending
        BY <3>1
      <4>2. pending \subseteq Tokens
        OBVIOUS
      <4>. QED
        BY <4>1, <4>2
    <3>3. /\ promotion' = Idle
          /\ content' \in [Targets -> Bodies \union {Empty}]
          /\ pending' = pending \ {k}
          /\ writes' = [writes EXCEPT ![k] = 1]
          /\ UNCHANGED <<accepted, minted>>
      BY <2>5, <3>1, <3>2 DEF RenameTarget, Spend
    <3>4. PromotionTypeOK'
      BY <3>2, <3>3
    <3>5. ASSUME NEW i \in Tokens
          PROVE  (i \in pending' \/ i > minted' => writes'[i] = 0) /\ writes'[i] <= 1
      <4>1. k \notin pending' /\ ~ k > minted'
        BY <3>3
      <4>2. CASE i = k
        BY <3>3, <4>1, <4>2
      <4>3. CASE i # k
        BY <3>3, <4>3
      <4>. QED
        BY <4>2, <4>3
    <3>. QED
      BY <3>2, <3>3, <3>4, <3>5
  <2>6. CASE UNCHANGED promotionVars
    <3>1. Promoting' = Promoting /\ UNCHANGED promotion
      BY <2>6 DEF promotionVars
    <3>. QED
      BY <2>6, <3>1 DEF promotionVars
  <2>. QED
    BY <2>1, <2>2, <2>3, <2>4, <2>5, <2>6 DEF PromotionNext
<1>. QED
  BY <1>1, <1>2, PTL DEF PromotionSpec

\* TokenWritesOnce for every number of documents, bodies, tokens, promotions and
\* edits: a token that was accepted replaces a document at most once.
THEOREM TokensAreSpent == PromotionSpec => []TokenWritesOnce
BY PromotionInductive, PTL DEF PromotionInv


-----------------------------------------------------------------------------
(* Planning.  Who is inside the SQLite lock is alone, so that what it      *)
(* completes is the catalog; an artifact that is whole stays so, and both  *)
(* projections are of the whole catalog when the item is acknowledged.     *)

PlanPlaces == {"idle", "locking", "writing", "artifacts", "stories"}
Inside == {"writing", "artifacts", "stories"}
Plannings ==
  [phase : PlanPlaces, items : Seq(PlanItem), creates : BOOLEAN, opened : BOOLEAN, shown : Nat]

PlanTypes ==
  /\ catalog \in Seq(PlanItem) /\ planned \subseteq PlanItem
  /\ projected \in [{"epic", "story"} -> SUBSET PlanItem]
  /\ planLock \subseteq Planners /\ planners \in [Planners -> Plannings]

\* One process at most is inside the lock.
LockedAlone ==
  /\ \A p \in Planners : p \in planLock <=> planners[p].phase \in Inside
  /\ \A p, q \in planLock : p = q

WholeArtifact(i) == [item |-> i, whole |-> TRUE] \in artifacts

\* What that process completes is the catalog, and what it has behind it is done.
CompletesTheCatalog ==
  \A p \in Planners :
    /\ planners[p].phase \in {"artifacts", "stories"} =>
         planners[p].items = catalog /\ (planners[p].creates => catalog # <<>>)
    /\ planners[p].phase = "stories" =>
         /\ \A i \in ToSet(catalog) : WholeArtifact(i)
         /\ projected["epic"] = OfKind("epic", catalog)

PlanInv == PlanTypes /\ LockedAlone /\ CompletesTheCatalog /\ PlannedIsKept

\* The items of a prefix are items of the whole.
LEMMA PrefixHolds ==
  ASSUME NEW S, NEW s \in Seq(S), NEW t \in Seq(S), IsStrictPrefix(s, t)
  PROVE  ToSet(s) \subseteq ToSet(t) /\ t # <<>>
<1>1. /\ Len(s) \in Nat /\ Len(t) \in Nat /\ Len(s) <= Len(t) /\ s # t
      /\ DOMAIN s = 1..Len(s) /\ DOMAIN t = 1..Len(t)
      /\ SubSeq(s, 1, Len(s)) = SubSeq(t, 1, Len(s))
  BY DEF IsStrictPrefix, IsPrefix
<1>2. ASSUME NEW i \in 1..Len(s) PROVE s[i] = t[i]
  <2>1. SubSeq(s, 1, Len(s))[i] = s[i] /\ SubSeq(t, 1, Len(s))[i] = t[i]
    BY <1>1
  <2> QED
    BY <1>1, <2>1
<1>3. t # <<>>
  <2> SUFFICES ASSUME t = <<>> PROVE FALSE
    OBVIOUS
  <2>1. Len(s) = 0
    BY <1>1
  <2> QED
    BY <1>1, <2>1
<1> QED
  BY <1>1, <1>2, <1>3 DEF ToSet

\* What Last returns is an item of the list.
LEMMA LastIsIn ==
  ASSUME NEW S, NEW s \in Seq(S), s # <<>>
  PROVE  Last(s) \in ToSet(s)
<1>1. Len(s) \in DOMAIN s
  OBVIOUS
<1> QED
  BY <1>1 DEF Last, ToSet

\* The places a process is at.
LEMMA PlacesAre ==
  /\ "idle" \in PlanPlaces /\ "locking" \in PlanPlaces /\ "writing" \in PlanPlaces /\ "artifacts" \in PlanPlaces
  /\ "stories" \in PlanPlaces
BY DEF PlanPlaces

\* A process that rests is outside the lock.
LEMMA PlannerAtRest ==
  ASSUME NEW p \in Planners, planners[p] \in Plannings
  PROVE  PlannerRests(p) \in Plannings /\ PlannerRests(p).phase = "idle"
<1>1. "idle" \in PlanPlaces /\ <<>> \in Seq(PlanItem)
  BY EmptySeq DEF PlanPlaces
<1> QED
  BY <1>1 DEF PlannerRests, Plannings

\* A process becomes another, and the others stay as they are.
ProcessBecomes(p, becomes) == becomes \in Plannings /\ planners' = [planners EXCEPT ![p] = becomes]

\* A process asks for the lock, or gives up, without being inside.
LEMMA OutsideEffect ==
  ASSUME NEW p \in Planners, planners[p] \in Plannings, ReadCatalog(p) \/ CreateItem(p) \/ BusyTooLong(p)
  PROVE  \E becomes : /\ ProcessBecomes(p, becomes)
                   /\ becomes.phase \in {"idle", "locking"} /\ planners[p].phase \in {"idle", "locking"}
<1>1. CASE ReadCatalog(p) /\ catalog = <<>>
  BY <1>1, PlacesAre DEF ReadCatalog, PlanTo, PlanIn, Plannings, ProcessBecomes
<1>2. CASE ReadCatalog(p) /\ catalog # <<>>
  <2>1. PICK becomes : becomes = [planners[p] EXCEPT !.phase = "locking", !.creates = FALSE]
    OBVIOUS
  <2>2. becomes \in Plannings /\ becomes.phase = "locking"
    BY <2>1, PlacesAre DEF Plannings
  <2> QED
    BY <1>2, <2>1, <2>2 DEF ReadCatalog, PlanTo, PlanIn, ProcessBecomes
<1>3. CASE CreateItem(p)
  BY <1>3, PlacesAre DEF CreateItem, PlanTo, PlanIn, Plannings, ProcessBecomes
<1>4. CASE BusyTooLong(p)
  BY <1>4, PlannerAtRest DEF BusyTooLong, PlanTo, PlanIn, ProcessBecomes
<1> QED
  BY <1>1, <1>2, <1>3, <1>4

\* Inside the lock a reader has the catalog, and who creates has one item more.
LEMMA BeginEffect ==
  ASSUME NEW p \in Planners, planners[p] \in Plannings, BeginPlan(p), catalog \in Seq(PlanItem)
  PROVE  \E becomes : /\ ProcessBecomes(p, becomes)
                   /\ \/ becomes.phase = "artifacts" /\ ~becomes.creates /\ becomes.items = catalog
                      \/ becomes.phase = "writing"
<1>1. CASE ~planners[p].creates
  <2>1. PICK becomes : becomes = [planners[p] EXCEPT !.phase = "artifacts", !.items = catalog]
    OBVIOUS
  <2>2. becomes \in Plannings /\ becomes.phase = "artifacts" /\ ~becomes.creates /\ becomes.items = catalog
    BY <1>1, <2>1, PlacesAre DEF Plannings
  <2> QED
    BY <1>1, <2>1, <2>2 DEF BeginPlan, PlanTo, ProcessBecomes
<1>2. CASE planners[p].creates
  <2>1. PICK i \in PreparedItems(catalog) :
          PlanTo(p, [planners[p] EXCEPT !.phase = "writing", !.items = Append(catalog, i)])
    BY <1>2 DEF BeginPlan
  <2>2. PICK more : more = Append(catalog, i) /\ more \in Seq(PlanItem)
    <3>1. i \in PlanItem
      BY DEF PreparedItems
    <3> QED
      BY <3>1, AppendProperties
  <2>3. PICK becomes : becomes = [planners[p] EXCEPT !.phase = "writing", !.items = more]
    OBVIOUS
  <2>4. becomes \in Plannings /\ becomes.phase = "writing"
    BY <2>2, <2>3, PlacesAre DEF Plannings
  <2> QED
    BY <2>1, <2>2, <2>3, <2>4 DEF PlanTo, ProcessBecomes
<1> QED
  BY <1>1, <1>2

\* The process goes to another place with what it has.
LEMMA PlaceEffect ==
  ASSUME NEW p \in Planners, planners[p] \in Plannings, NEW place \in PlanPlaces,
         PlanTo(p, [planners[p] EXCEPT !.phase = place])
  PROVE  \E becomes : /\ ProcessBecomes(p, becomes) /\ becomes.phase = place
                   /\ becomes.items = planners[p].items /\ becomes.creates = planners[p].creates
<1>1. PICK becomes : becomes = [planners[p] EXCEPT !.phase = place]
  OBVIOUS
<1>2. /\ becomes \in Plannings /\ becomes.phase = place
      /\ becomes.items = planners[p].items /\ becomes.creates = planners[p].creates
  BY <1>1 DEF Plannings
<1> QED
  BY <1>1, <1>2 DEF PlanTo, ProcessBecomes

\* Writing artifacts goes on with what there is, or is given up.
LEMMA ArtifactEffect ==
  ASSUME NEW p \in Planners, planners[p] \in Plannings, WriteArtifact(p)
  PROVE  \E becomes :
           /\ ProcessBecomes(p, becomes)
           /\ \/ becomes.phase = "idle" /\ planLock' = planLock \ {p}
              \/ /\ becomes.phase = "artifacts" /\ becomes.items = planners[p].items
                 /\ becomes.creates = planners[p].creates /\ UNCHANGED planLock
<1>1. CASE PlanTo(p, PlannerRests(p)) /\ planLock' = planLock \ {p}
  BY <1>1, PlannerAtRest DEF PlanTo, ProcessBecomes
<1>2. ASSUME NEW opened \in BOOLEAN, PlanTo(p, [planners[p] EXCEPT !.opened = opened]), UNCHANGED planLock,
             planners[p].phase = "artifacts"
      PROVE  \E becomes :
               /\ ProcessBecomes(p, becomes) /\ becomes.phase = "artifacts" /\ becomes.items = planners[p].items
               /\ becomes.creates = planners[p].creates /\ UNCHANGED planLock
  BY <1>2 DEF PlanTo, Plannings, ProcessBecomes
<1> QED
  BY <1>1, <1>2 DEF WriteArtifact, PlanIn

\* The operation is over, and its items are shown.
LEMMA StoriesEffect ==
  ASSUME NEW p \in Planners, planners[p] \in Plannings, WriteStories(p)
  PROVE  \E becomes : ProcessBecomes(p, becomes) /\ becomes.phase = "idle"
<1>1. PICK rests : rests = PlannerRests(p) /\ rests \in Plannings /\ rests.phase = "idle"
  BY PlannerAtRest
<1>2. Len(planners[p].items) \in Nat
  BY DEF Plannings
<1>3. PICK becomes : becomes = [rests EXCEPT !.shown = Len(planners[p].items)]
  OBVIOUS
<1>4. becomes \in Plannings /\ becomes.phase = "idle"
  BY <1>1, <1>2, <1>3 DEF Plannings
<1> QED
  BY <1>1, <1>3, <1>4 DEF WriteStories, PlanTo, ProcessBecomes

\* Every step of the processes and of the map keeps the invariant.
LEMMA PlanStepKeeps ==
  ASSUME PlanInv, [PlanNext]_planVars
  PROVE  PlanInv'
<1>0. /\ \A p \in Planners : planners[p] \in Plannings
      /\ \A p \in Planners : PlannerRests(p) \in Plannings /\ PlannerRests(p).phase = "idle"
  BY PlannerAtRest DEF PlanInv, PlanTypes
<1> USE DEF PlanInv, PlanTypes, LockedAlone, CompletesTheCatalog, PlannedIsKept, WholeArtifact, Inside
<1>1. CASE RefreshMap \/ MapRead \/ MapFails \/ UNCHANGED planVars
  <2>1. UNCHANGED <<catalog, artifacts, projected, planLock, planners, planned>>
    BY <1>1 DEF RefreshMap, MapRead, MapFails, planVars
  <2> QED
    BY <2>1 DEF OfKind
<1>2. ASSUME NEW p \in Planners, ReadCatalog(p) \/ CreateItem(p) \/ BusyTooLong(p)
      PROVE  PlanInv'
  <2>1. UNCHANGED <<catalog, artifacts, projected, planLock, planned>>
    BY <1>2 DEF ReadCatalog, CreateItem, BusyTooLong
  <2>2. PICK becomes \in Plannings : /\ planners' = [planners EXCEPT ![p] = becomes]
                                  /\ becomes.phase \in {"idle", "locking"} /\ p \notin planLock
    BY <1>0, <1>2, OutsideEffect DEF ProcessBecomes
  <2> QED
    BY <2>1, <2>2 DEF OfKind
<1>3. ASSUME NEW p \in Planners, BeginPlan(p), MayPlan
      PROVE  PlanInv'
  <2>1. UNCHANGED <<catalog, artifacts, projected, planned>> /\ planLock' = {p} /\ planLock = {}
    BY <1>3 DEF BeginPlan, MayPlan
  <2>2. PICK becomes \in Plannings : /\ planners' = [planners EXCEPT ![p] = becomes]
                                  /\ \/ becomes.phase = "artifacts" /\ ~becomes.creates /\ becomes.items = catalog
                                     \/ becomes.phase = "writing"
    BY <1>0, <1>3, BeginEffect DEF ProcessBecomes
  <2> QED
    BY <2>1, <2>2 DEF OfKind
<1>4. ASSUME NEW p \in Planners, WriteCatalog(p)
      PROVE  PlanInv'
  <2>1. UNCHANGED <<artifacts, projected, planned>> /\ planLock = {p} /\ planners[p].phase = "writing"
    BY <1>4 DEF WriteCatalog, PlanIn
  <2>2. CASE IsStrictPrefix(catalog, planners[p].items)
    <3>1. catalog' = planners[p].items /\ UNCHANGED planLock
      BY <1>4, <2>2 DEF WriteCatalog
    <3>2. PICK becomes \in Plannings : /\ planners' = [planners EXCEPT ![p] = becomes] /\ becomes.phase = "artifacts"
                                    /\ becomes.items = catalog' /\ catalog' \in Seq(PlanItem)
      <4>1. PlanTo(p, [planners[p] EXCEPT !.phase = "artifacts"])
        BY <1>4, <2>2 DEF WriteCatalog
      <4>2. planners[p].items \in Seq(PlanItem)
        BY <1>0 DEF Plannings
      <4> QED
        BY <1>0, <3>1, <4>1, <4>2, PlaceEffect, PlacesAre DEF ProcessBecomes
    <3>3. ToSet(catalog) \subseteq ToSet(catalog') /\ catalog' # <<>>
      BY <1>0, <2>2, <3>1, <3>2, PrefixHolds
    <3>4. PlannedIsKept'
      BY <2>1, <3>3
    <3>5. PlanTypes' /\ LockedAlone'
      BY <2>1, <3>1, <3>2
    <3>6. CompletesTheCatalog'
      <4>1. \A q \in Planners : q # p => planners'[q] = planners[q] /\ planners[q].phase \notin Inside
        BY <2>1, <3>2
      <4>2. planners'[p].phase = "artifacts" /\ planners'[p].items = catalog'
        BY <3>2
      <4> QED
        BY <3>3, <4>1, <4>2
    <3> QED
      BY <3>4, <3>5, <3>6
  <2>3. CASE ~IsStrictPrefix(catalog, planners[p].items)
    <3>1. /\ planners' = [planners EXCEPT ![p] = PlannerRests(p)] /\ planLock' = {} /\ UNCHANGED catalog
      BY <1>4, <2>1, <2>3 DEF WriteCatalog, PlanTo
    <3> QED
      BY <1>0, <2>1, <3>1 DEF OfKind
  <2> QED
    BY <2>2, <2>3
<1>5. ASSUME NEW p \in Planners, WriteArtifact(p)
      PROVE  PlanInv'
  <2>1. UNCHANGED <<catalog, projected, planned>> /\ planners[p].phase = "artifacts"
    BY <1>5 DEF WriteArtifact, PlanIn
  <2>2. \A i \in PlanItem : WholeArtifact(i) => WholeArtifact(i)'
    BY <1>5 DEF WriteArtifact
  <2>3. PICK becomes \in Plannings :
          /\ planners' = [planners EXCEPT ![p] = becomes]
          /\ \/ becomes.phase = "idle" /\ planLock' = planLock \ {p}
             \/ /\ becomes.phase = "artifacts" /\ becomes.items = planners[p].items /\ becomes.creates = planners[p].creates
                /\ UNCHANGED planLock
    BY <1>0, <1>5, <2>1, ArtifactEffect DEF ProcessBecomes
  <2>4. \A q \in Planners : q # p => planners'[q] = planners[q] /\ planners[q].phase \notin Inside
    BY <2>1, <2>3
  <2>5. PlanTypes' /\ LockedAlone'
    BY <2>1, <2>3, <2>4
  <2>6. CompletesTheCatalog'
    BY <2>1, <2>3, <2>4
  <2>7. PlannedIsKept'
    BY <2>1, <2>2
  <2> QED
    BY <2>5, <2>6, <2>7
<1>6. ASSUME NEW p \in Planners, WriteEpics(p)
      PROVE  PlanInv'
  <2>1. UNCHANGED <<catalog, artifacts, planLock, planned>> /\ planners[p].phase = "artifacts"
        /\ planners[p].items = catalog
    BY <1>6 DEF WriteEpics, PlanIn
  <2>2. projected' = [projected EXCEPT !["epic"] = OfKind("epic", catalog)]
    BY <1>6, <2>1 DEF WriteEpics
  <2>3. PICK becomes \in Plannings : /\ planners' = [planners EXCEPT ![p] = becomes] /\ becomes.phase = "stories"
                                  /\ becomes.items = catalog /\ becomes.creates = planners[p].creates
    <3>1. PlanTo(p, [planners[p] EXCEPT !.phase = "stories"])
      BY <1>6 DEF WriteEpics
    <3> QED
      BY <1>0, <2>1, <3>1, PlaceEffect, PlacesAre DEF ProcessBecomes
  <2>4. \A q \in Planners : q # p => planners'[q] = planners[q] /\ planners[q].phase \notin Inside
    BY <2>1, <2>3
  <2>5. ToSet(catalog) \subseteq PlanItem /\ \A k \in {"epic", "story"} : OfKind(k, catalog) \subseteq PlanItem
    BY DEF ToSet, OfKind
  <2>6. \A i \in ToSet(catalog) : WholeArtifact(i)
    BY <1>6, <2>1 DEF WriteEpics, MissingArtifacts, ToSet
  <2>7. PlanTypes' /\ LockedAlone'
    BY <2>1, <2>2, <2>3, <2>4, <2>5
  <2>8. CompletesTheCatalog'
    <3>1. planners'[p].items = catalog /\ planners'[p].creates = planners[p].creates
      BY <2>3
    <3>2. projected'["epic"] = OfKind("epic", catalog)
      BY <2>2
    <3>3. OfKind("epic", catalog)' = OfKind("epic", catalog) /\ ToSet(catalog)' = ToSet(catalog)
      BY <2>1
    <3> QED
      BY <2>1, <2>4, <2>6, <3>1, <3>2, <3>3
  <2>9. PlannedIsKept'
    <3>1. ASSUME NEW i \in planned PROVE i \in projected'[i.kind]
      <4>1. i \in ToSet(catalog) /\ i.kind \in {"epic", "story"} /\ i \in projected[i.kind]
        BY <3>1 DEF PlanItem
      <4>2. i.kind = "epic" => i \in OfKind("epic", catalog)
        BY <4>1 DEF OfKind
      <4> QED
        BY <2>2, <4>1, <4>2
    <3> QED
      BY <2>1, <3>1
  <2> QED
    BY <2>7, <2>8, <2>9
<1>7. ASSUME NEW p \in Planners, WriteStories(p)
      PROVE  PlanInv'
  <2>1. /\ UNCHANGED <<catalog, artifacts>> /\ planners[p].phase = "stories" /\ planners[p].items = catalog
        /\ planners[p].creates => catalog # <<>>
        /\ \A i \in ToSet(catalog) : WholeArtifact(i)
        /\ projected["epic"] = OfKind("epic", catalog)
        /\ planLock' = {} /\ planLock = {p}
    BY <1>7 DEF WriteStories, PlanIn
  <2>2. projected' = [projected EXCEPT !["story"] = OfKind("story", catalog)]
    BY <1>7, <2>1 DEF WriteStories
  <2>3. planned' = planned \/ (planned' = planned \union {Last(catalog)} /\ catalog # <<>>)
    BY <1>7, <2>1 DEF WriteStories
  <2>4. PICK becomes \in Plannings : planners' = [planners EXCEPT ![p] = becomes] /\ becomes.phase = "idle"
    BY <1>0, <1>7, StoriesEffect DEF ProcessBecomes
  <2>5. ToSet(catalog) \subseteq PlanItem /\ \A k \in {"epic", "story"} : OfKind(k, catalog) \subseteq PlanItem
    BY DEF ToSet, OfKind
  <2>6. planned' \subseteq ToSet(catalog)
    <3>1. planned \subseteq ToSet(catalog)
      OBVIOUS
    <3>2. catalog # <<>> => Last(catalog) \in ToSet(catalog)
      BY LastIsIn
    <3> QED
      BY <2>3, <3>1, <3>2
  <2>7. PlanTypes' /\ LockedAlone' /\ CompletesTheCatalog'
    BY <2>1, <2>2, <2>4, <2>5, <2>6
  <2>8. PlannedIsKept'
    <3>1. ASSUME NEW i \in planned' PROVE i \in projected'[i.kind]
      <4>1. i \in ToSet(catalog) /\ i.kind \in {"epic", "story"}
        BY <2>5, <2>6 DEF PlanItem
      <4>2. i \in OfKind(i.kind, catalog)
        BY <4>1 DEF OfKind
      <4> QED
        BY <2>1, <2>2, <4>1, <4>2
    <3>2. \A i \in planned' : i \in ToSet(catalog)' /\ WholeArtifact(i)'
      BY <2>1, <2>6
    <3> QED
      BY <3>1, <3>2
  <2> QED
    BY <2>7, <2>8
<1>8. ASSUME NEW p \in Planners, PlanBreaks(p)
      PROVE  PlanInv'
  <2>1. UNCHANGED <<catalog, artifacts, projected, planned>> /\ planLock' = planLock \ {p}
        /\ planners' = [planners EXCEPT ![p] = PlannerRests(p)]
    BY <1>8 DEF PlanBreaks, PlanTo
  <2> QED
    BY <1>0, <2>1 DEF OfKind
<1> QED
  BY <1>1, <1>2, <1>3, <1>4, <1>5, <1>6, <1>7, <1>8 DEF PlanNext, BeginPlan

\* An item whose creation was acknowledged stays in the catalog, in its artifact and in its
\* projection (PlannedIsKept), for any number of processes, items, crashes and reads.
THEOREM PlannedItemsAreKept == PlanSpec => []PlannedIsKept
<1>1. PlanInit => PlanInv
  <2> SUFFICES ASSUME PlanInit PROVE PlanInv
    OBVIOUS
  <2>1. NobodyPlans \in Plannings /\ NobodyPlans.phase = "idle"
    BY EmptySeq DEF NobodyPlans, Plannings, PlanPlaces
  <2>2. catalog = <<>> /\ projected = [epic |-> {}, story |-> {}] /\ planned = {} /\ planLock = {}
        /\ planners = [p \in Planners |-> NobodyPlans]
    BY DEF PlanInit
  <2>3. PlanTypes
    BY <2>1, <2>2, EmptySeq DEF PlanTypes
  <2> QED
    BY <2>1, <2>2, <2>3 DEF PlanInv, LockedAlone, CompletesTheCatalog, PlannedIsKept, Inside
<1>2. PlanInv /\ [PlanNext]_planVars => PlanInv'
  BY PlanStepKeeps
<1>3. PlanInv => PlannedIsKept
  BY DEF PlanInv
<1> QED
  BY <1>1, <1>2, <1>3, PTL DEF PlanSpec

-----------------------------------------------------------------------------
(* The Todo document.  What is in progress or completed has only evidence  *)
(* recorded since it was started, and no leaf is completed without; each   *)
(* operation makes every entry from one before, or makes a new one.        *)

Details == [status : Statuses, evidence : SUBSET Evidence]
WorkItems == [id : Int, status : Statuses, evidence : SUBSET Evidence, details : Seq(Details)]
Worked == {"in_progress", "completed"}
EntriesOf(item) == 0..Len(item.details)
EntryOf(item, d) == IF d = 0 THEN item ELSE item.details[d]

\* A leaf is what is completed by evidence: a detail, or an item without.
Leaf(item, d) == d = 0 => item.details = <<>>

BackedBy(items, recorded) ==
  \A i \in DOMAIN items : \A d \in EntriesOf(items[i]) :
    /\ EntryOf(items[i], d).status \in Worked =>
         \A e \in EntryOf(items[i], d).evidence : <<items[i].id, d, e>> \in recorded
    /\ EntryOf(items[i], d).status = "completed" /\ Leaf(items[i], d) => EntryOf(items[i], d).evidence # {}

WorkInv == work \in Seq(WorkItems) /\ ValidItems(work) /\ BackedBy(work, fresh)

\* What an operation may make of an entry x, and what it may add.
EntryStep(x, y, leaf) ==
  /\ y.status \in Worked => y.evidence = {} \/ x.status \in Worked
  /\ leaf /\ y.status = "completed" => y.evidence # {} \/ (x.status = "completed" /\ y.evidence = x.evidence)
NewEntry(y) == y.status = "pending" \/ (y.status = "in_progress" /\ y.evidence = {})

\* What it may make of an item b: its entries, and perhaps new ones.
ItemStep(b, a) ==
  /\ a.id = b.id /\ Len(b.details) <= Len(a.details)
  /\ \A d \in EntriesOf(a) :
       \/ NewEntry(EntryOf(a, d))
       \/ d \in EntriesOf(b) /\ EntryStep(EntryOf(b, d), EntryOf(a, d), Leaf(a, d))
NewItem(a) == NewEntry(a) /\ a.details = <<>>

Follows(before, after) ==
  /\ after \in Seq(WorkItems)
  /\ \A j \in DOMAIN after : NewItem(after[j]) \/ \E i \in DOMAIN before : ItemStep(before[i], after[j])

\* An entry of an item has its status and its evidence.
LEMMA EntryTyped ==
  ASSUME NEW item \in WorkItems, NEW d \in EntriesOf(item)
  PROVE  /\ EntryOf(item, d).status \in Statuses /\ EntryOf(item, d).evidence \subseteq Evidence
         /\ d # 0 => d \in DOMAIN item.details /\ EntryOf(item, d) \in Details
<1>1. item.details \in Seq(Details)
  BY DEF WorkItems
<1>2. CASE d = 0
  BY <1>2 DEF EntryOf, WorkItems
<1>3. CASE d # 0
  <2>1. d \in DOMAIN item.details /\ item.details[d] \in Details
    BY <1>1, <1>3 DEF EntriesOf
  <2> QED
    BY <2>1, <1>3 DEF EntryOf, Details
<1> QED
  BY <1>2, <1>3

\* Ids being distinct, an entry is found by the id of its item and its place.
LEMMA AtIs ==
  ASSUME NEW items, ValidItems(items), NEW i \in DOMAIN items, NEW d \in EntriesOf(items[i]), items[i] \in WorkItems
  PROVE  EntryAt(items, items[i].id, d) = {EntryOf(items[i], d)}
<1>1. (CHOOSE k \in DOMAIN items : items[k].id = items[i].id) = i
  BY DEF ValidItems
<1>2. d <= Len(items[i].details)
  BY DEF EntriesOf, WorkItems
<1> QED
  BY <1>1, <1>2 DEF EntryAt, Entry, EntryOf

\* Evidence of an entry that is not started again stays recorded, or is recorded now.
LEMMA StaysRecorded ==
  ASSUME NEW before \in Seq(WorkItems), NEW after \in Seq(WorkItems), ValidItems(before), ValidItems(after),
         NEW i \in DOMAIN before, NEW j \in DOMAIN after, before[i].id = after[j].id,
         NEW d \in EntriesOf(before[i]), d \in EntriesOf(after[j]), NEW e \in EntryOf(after[j], d).evidence,
         EntryOf(before[i], d).status # "pending",
         e \in EntryOf(before[i], d).evidence => <<after[j].id, d, e>> \in fresh
  PROVE  <<after[j].id, d, e>> \in Fresh(before, after)
<1>1. /\ ValidItems(before) /\ i \in DOMAIN before /\ before[i] \in WorkItems /\ d \in EntriesOf(before[i])
      /\ ValidItems(after) /\ j \in DOMAIN after /\ after[j] \in WorkItems /\ d \in EntriesOf(after[j])
  OBVIOUS
<1>2. /\ EntryAt(before, after[j].id, d) = {EntryOf(before[i], d)}
      /\ EntryAt(after, after[j].id, d) = {EntryOf(after[j], d)}
  <2>1. EntryAt(before, before[i].id, d) = {EntryOf(before[i], d)}
    BY ONLY <1>1, AtIs
  <2>2. EntryAt(after, after[j].id, d) = {EntryOf(after[j], d)}
    BY ONLY <1>1, AtIs
  <2> QED
    BY <2>1, <2>2
<1>3. e \in Evidence
  BY <1>1, EntryTyped
<1>4. d \in 0..DetailLimit
  <2>1. Len(after[j].details) \in Nat /\ Len(after[j].details) <= DetailLimit
    BY <1>1 DEF ValidItems, ValidItem, WorkItems
  <2> QED
    BY <2>1, TodoLimits DEF EntriesOf
<1>5. after[j].id \in {item.id : item \in ToSet(after)}
  BY DEF ToSet
<1>6. ~Restarts(before, after, after[j].id, d)
  BY <1>2 DEF Restarts
<1> DEFINE t == <<after[j].id, d, e>>
<1>7. t \in {item.id : item \in ToSet(after)} \X (0..DetailLimit) \X Evidence
  BY <1>3, <1>4, <1>5
<1>8. /\ \E x \in EntryAt(after, t[1], t[2]) : t[3] \in x.evidence
      /\ ~Restarts(before, after, t[1], t[2])
      /\ t \in fresh \/ \A x \in EntryAt(before, t[1], t[2]) : t[3] \notin x.evidence
  BY <1>2, <1>6
<1> QED
  BY <1>7, <1>8 DEF Fresh

\* What follows a document that is backed by what was recorded is so too.
LEMMA StaysBacked ==
  ASSUME NEW before \in Seq(WorkItems), NEW after, ValidItems(before), ValidItems(after),
         Follows(before, after), BackedBy(before, fresh)
  PROVE  BackedBy(after, Fresh(before, after))
<1> SUFFICES ASSUME NEW j \in DOMAIN after, NEW d \in EntriesOf(after[j])
             PROVE  /\ EntryOf(after[j], d).status \in Worked =>
                         \A e \in EntryOf(after[j], d).evidence : <<after[j].id, d, e>> \in Fresh(before, after)
                    /\ EntryOf(after[j], d).status = "completed" /\ Leaf(after[j], d) =>
                         EntryOf(after[j], d).evidence # {}
  BY DEF BackedBy
<1> DEFINE y == EntryOf(after[j], d)
<1>1. after \in Seq(WorkItems) /\ after[j] \in WorkItems
  BY DEF Follows
<1>2. ASSUME NewEntry(y)
      PROVE  /\ y.status \in Worked => y.evidence = {}
             /\ y.status # "completed"
  BY <1>2 DEF NewEntry, Worked
<1>3. CASE NewEntry(y)
  BY <1>2, <1>3
<1>4. CASE NewItem(after[j])
  <2>1. d = 0
    BY <1>4 DEF NewItem, EntriesOf
  <2> QED
    BY <2>1, <1>3, <1>4 DEF NewItem, EntryOf
<1>5. ASSUME NEW i \in DOMAIN before, ItemStep(before[i], after[j]), d \in EntriesOf(before[i]),
             EntryStep(EntryOf(before[i], d), y, Leaf(after[j], d))
      PROVE  /\ y.status \in Worked => \A e \in y.evidence : <<after[j].id, d, e>> \in Fresh(before, after)
             /\ y.status = "completed" /\ Leaf(after[j], d) => y.evidence # {}
  <2> DEFINE x == EntryOf(before[i], d)
  <2>1. before[i].id = after[j].id
    BY <1>5 DEF ItemStep
  <2>2. x.status \in Worked => \A e \in x.evidence : <<after[j].id, d, e>> \in fresh
    BY <1>5, <2>1 DEF BackedBy
  <2>3. ASSUME y.status \in Worked, NEW e \in y.evidence PROVE <<after[j].id, d, e>> \in Fresh(before, after)
    <3>1. x.status \in Worked
      BY <2>3, <1>5 DEF EntryStep
    <3>2. x.status # "pending"
      BY <3>1 DEF Worked
    <3> QED
      BY <3>1, <3>2, <2>1, <2>2, <1>1, <1>5, StaysRecorded
  <2>4. ASSUME y.status = "completed", Leaf(after[j], d) PROVE y.evidence # {}
    <3>1. Leaf(before[i], d)
      <4>1. before[i] \in WorkItems /\ Len(before[i].details) <= Len(after[j].details)
        BY <1>5 DEF ItemStep
      <4>2. before[i].details \in Seq(Details) /\ after[j].details \in Seq(Details)
        BY <4>1, <1>1 DEF WorkItems
      <4> QED
        BY <4>1, <4>2, <2>4 DEF Leaf
    <3> QED
      BY <3>1, <2>4, <1>5 DEF EntryStep, BackedBy
  <2> QED
    BY <2>3, <2>4
<1>6. NewItem(after[j]) \/ \E i \in DOMAIN before : ItemStep(before[i], after[j])
  BY DEF Follows
<1> QED
  BY <1>3, <1>4, <1>5, <1>6 DEF ItemStep

\* An item that keeps its details, and is changed as an entry may be.
LEMMA SameDetails ==
  ASSUME NEW b \in WorkItems, NEW a \in WorkItems, a.id = b.id, a.details = b.details,
         NewEntry(a) \/ EntryStep(b, a, Leaf(a, 0))
  PROVE  ItemStep(b, a)
<1>1. Len(b.details) \in Nat
  BY DEF WorkItems
<1>2. ASSUME NEW d \in EntriesOf(a)
      PROVE  NewEntry(EntryOf(a, d)) \/ (d \in EntriesOf(b) /\ EntryStep(EntryOf(b, d), EntryOf(a, d), Leaf(a, d)))
  <2>1. CASE d = 0
    <3>1. d \in EntriesOf(b) /\ EntryOf(a, d) = a /\ EntryOf(b, d) = b
      BY <2>1, <1>1 DEF EntryOf, EntriesOf
    <3> QED
      BY <2>1, <3>1
  <2>2. CASE d # 0
    <3>1. EntryOf(a, d) = EntryOf(b, d) /\ d \in EntriesOf(b)
      BY <2>2 DEF EntryOf, EntriesOf
    <3> QED
      BY <3>1 DEF EntryStep
  <2> QED
    BY <2>1, <2>2
<1> QED
  BY <1>1, <1>2 DEF ItemStep

\* An item that stays follows itself.
LEMMA Itself ==
  ASSUME NEW b \in WorkItems
  PROVE  ItemStep(b, b)
BY SameDetails DEF EntryStep

\* One item changes, and the others stay.
LEMMA OneChanges ==
  ASSUME NEW items \in Seq(WorkItems), NEW i \in DOMAIN items, NEW a \in WorkItems, ItemStep(items[i], a)
  PROVE  Follows(items, [items EXCEPT ![i] = a])
<1> DEFINE after == [items EXCEPT ![i] = a]
<1>1. after \in Seq(WorkItems) /\ DOMAIN after = DOMAIN items
  OBVIOUS
<1>2. \A j \in DOMAIN items : after[j] = IF j = i THEN a ELSE items[j]
  OBVIOUS
<1>3. \A j \in DOMAIN items : items[j] \in WorkItems
  OBVIOUS
<1> HIDE DEF after
<1>4. \A j \in DOMAIN after : ItemStep(items[j], after[j])
  BY <1>1, <1>2, <1>3, Itself
<1>5. Follows(items, after)
  BY <1>1, <1>4 DEF Follows
<1> QED
  BY <1>5 DEF after

\* A detail changes.
LEMMA DetailChanges ==
  ASSUME NEW items \in Seq(WorkItems), NEW i \in DOMAIN items, NEW d \in DOMAIN items[i].details, NEW e \in Details,
         NewEntry(e) \/ EntryStep(items[i].details[d], e, TRUE)
  PROVE  Follows(items, [items EXCEPT ![i].details[d] = e])
<1>1. items[i] \in WorkItems /\ items[i].details \in Seq(Details)
  <2>1. items[i] \in WorkItems
    OBVIOUS
  <2> QED
    BY <2>1 DEF WorkItems
<1>2. PICK a : a = [items[i] EXCEPT !.details[d] = e]
  OBVIOUS
<1>3. [items[i].details EXCEPT ![d] = e] \in Seq(Details)
  BY <1>1
<1>4. a \in WorkItems /\ a.id = items[i].id /\ a.details = [items[i].details EXCEPT ![d] = e]
      /\ a.status = items[i].status /\ a.evidence = items[i].evidence
  BY <1>1, <1>2, <1>3 DEF WorkItems
<1>5. /\ Len(a.details) = Len(items[i].details) /\ Len(a.details) \in Nat
      /\ DOMAIN items[i].details = 1..Len(items[i].details)
  BY <1>1, <1>4
<1>6. ASSUME NEW k \in EntriesOf(a)
      PROVE  \/ NewEntry(EntryOf(a, k))
             \/ k \in EntriesOf(items[i]) /\ EntryStep(EntryOf(items[i], k), EntryOf(a, k), Leaf(a, k))
  <2>1. k \in EntriesOf(items[i])
    BY <1>5 DEF EntriesOf
  <2>2. CASE k = 0
    BY <2>1, <2>2, <1>4 DEF EntryOf, EntryStep
  <2>3. CASE k = d
    <3>1. d # 0 /\ EntryOf(a, d) = e /\ EntryOf(items[i], d) = items[i].details[d]
      BY <1>1, <1>4, <1>5 DEF EntryOf
    <3> QED
      BY <2>1, <2>3, <3>1 DEF EntryStep
  <2>4. CASE k # 0 /\ k # d
    <3>1. EntryOf(a, k) = EntryOf(items[i], k)
      BY <2>1, <2>4, <1>4, <1>5 DEF EntryOf, EntriesOf
    <3> QED
      BY <2>1, <3>1 DEF EntryStep
  <2> QED
    BY <2>2, <2>3, <2>4
<1>7. ItemStep(items[i], a)
  BY <1>4, <1>5, <1>6 DEF ItemStep
<1>8. [items EXCEPT ![i].details[d] = e] = [items EXCEPT ![i] = a]
  BY <1>2
<1> QED
  BY <1>4, <1>7, <1>8, OneChanges

\* An entry is the item, or its detail.
LEMMA EntriesAre ==
  ASSUME NEW items \in Seq(WorkItems), NEW at \in Entries(items)
  PROVE  \E i \in DOMAIN items, d \in Nat :
           d \in EntriesOf(items[i]) /\ at = <<i, d>> /\ Entry(items, at) = EntryOf(items[i], d)
BY DEF Entries, EntriesOf, Entry, EntryOf

\* An entry is changed without its item's details.
LEMMA EntryChanges ==
  ASSUME NEW items \in Seq(WorkItems), NEW i \in DOMAIN items, NEW d \in EntriesOf(items[i]), NEW e,
         d = 0 => e \in WorkItems /\ e.id = items[i].id /\ e.details = items[i].details,
         d # 0 => e \in Details,
         NewEntry(e) \/ EntryStep(EntryOf(items[i], d), e, Leaf(items[i], d))
  PROVE  Follows(items, WithEntry(items, <<i, d>>, e))
<1>1. items[i] \in WorkItems
  OBVIOUS
<1>2. CASE d = 0
  <2>1. Leaf(e, 0) = Leaf(items[i], 0) /\ EntryOf(items[i], d) = items[i]
    BY <1>2 DEF Leaf, EntryOf
  <2>2. ItemStep(items[i], e)
    BY <1>1, <1>2, <2>1, SameDetails
  <2>3. WithEntry(items, <<i, d>>, e) = [items EXCEPT ![i] = e]
    BY <1>2 DEF WithEntry
  <2> QED
    BY <1>2, <2>2, <2>3, OneChanges
<1>3. CASE d # 0
  <2>1. d \in DOMAIN items[i].details /\ EntryOf(items[i], d) = items[i].details[d]
    BY <1>1, <1>3, EntryTyped DEF EntryOf
  <2>2. NewEntry(e) \/ EntryStep(items[i].details[d], e, TRUE)
    BY <1>3, <2>1 DEF EntryStep, Leaf
  <2>3. WithEntry(items, <<i, d>>, e) = [items EXCEPT ![i].details[d] = e]
    BY <1>3 DEF WithEntry
  <2>4. e \in Details
    BY <1>3
  <2>5. Follows(items, [items EXCEPT ![i].details[d] = e])
    BY <2>1, <2>2, <2>4, DetailChanges
  <2> QED
    BY <2>3, <2>5
<1> QED
  BY <1>2, <1>3

\* An entry with another status and other evidence is of the same kind.
EntryAs(item, d, status, evidence) == [EntryOf(item, d) EXCEPT !.status = status, !.evidence = evidence]
\* An entry with another status and evidence is an entry with them, and else the same.
LEMMA EntryWith ==
  ASSUME NEW item \in WorkItems, NEW d \in EntriesOf(item), NEW status \in Statuses, NEW evidence \in SUBSET Evidence,
         NEW e, e = EntryAs(item, d, status, evidence)
  PROVE  /\ d = 0 => e \in WorkItems /\ e.id = item.id /\ e.details = item.details
         /\ d # 0 => e \in Details
         /\ e.status = status /\ e.evidence = evidence
<1>1. CASE d = 0
  BY <1>1 DEF EntryOf, EntryAs, WorkItems
<1>2. CASE d # 0
  <2>1. EntryOf(item, d) \in Details
    BY <1>2, EntryTyped
  <2> QED
    BY <2>1, <1>2 DEF EntryAs, Details
<1> QED
  BY <1>1, <1>2

\* An entry with another status keeps its evidence.
LEMMA WithStatus ==
  ASSUME NEW item \in WorkItems, NEW d \in EntriesOf(item), NEW status
  PROVE  [EntryOf(item, d) EXCEPT !.status = status] = EntryAs(item, d, status, EntryOf(item, d).evidence)
<1>1. CASE d = 0
  BY <1>1 DEF EntryOf, EntryAs, WorkItems
<1>2. CASE d # 0
  <2>1. EntryOf(item, d) \in Details
    BY <1>2, EntryTyped
  <2> QED
    BY <2>1 DEF EntryAs, Details
<1> QED
  BY <1>1, <1>2

\* An entry with other evidence keeps its status.
LEMMA WithEvidence ==
  ASSUME NEW item \in WorkItems, NEW d \in EntriesOf(item), NEW evidence
  PROVE  [EntryOf(item, d) EXCEPT !.evidence = evidence] = EntryAs(item, d, EntryOf(item, d).status, evidence)
<1>1. CASE d = 0
  BY <1>1 DEF EntryOf, EntryAs, WorkItems
<1>2. CASE d # 0
  <2>1. EntryOf(item, d) \in Details
    BY <1>2, EntryTyped
  <2> QED
    BY <2>1 DEF EntryAs, Details
<1> QED
  BY <1>1, <1>2

\* The statuses.
LEMMA StatusesAre ==
  "pending" \in Statuses /\ "in_progress" \in Statuses /\ "completed" \in Statuses /\ "blocked" \in Statuses
BY DEF Statuses

\* start: the evidence of an earlier attempt goes.
LEMMA StartFollows ==
  ASSUME NEW items \in Seq(WorkItems), NEW at \in Entries(items), NEW after \in Started(items, at)
  PROVE  Follows(items, after)
<1>1. PICK i \in DOMAIN items, d \in Nat :
        d \in EntriesOf(items[i]) /\ at = <<i, d>> /\ Entry(items, at) = EntryOf(items[i], d)
  BY EntriesAre
<1>2. PICK e : e = EntryAs(items[i], d, "in_progress", {})
  OBVIOUS
<1>3. after = WithEntry(items, <<i, d>>, e)
  BY <1>1, <1>2 DEF Started, If, StartedEntry, EntryAs
<1>4. items[i] \in WorkItems
  OBVIOUS
<1>5. /\ d = 0 => e \in WorkItems /\ e.id = items[i].id /\ e.details = items[i].details
      /\ d # 0 => e \in Details
      /\ e.status = "in_progress" /\ e.evidence = {}
  BY <1>1, <1>2, <1>4, StatusesAre, EntryWith
<1> QED
  BY <1>1, <1>3, <1>5, EntryChanges DEF NewEntry

\* complete: only what is in progress, a leaf only with evidence.
LEMMA CompleteFollows ==
  ASSUME NEW items \in Seq(WorkItems), NEW at \in Entries(items), NEW after \in Completed(items, at)
  PROVE  Follows(items, after)
<1>1. PICK i \in DOMAIN items, d \in Nat :
        d \in EntriesOf(items[i]) /\ at = <<i, d>> /\ Entry(items, at) = EntryOf(items[i], d)
  BY EntriesAre
<1> DEFINE x == EntryOf(items[i], d)
<1>2. PICK e : e = EntryAs(items[i], d, "completed", x.evidence)
  OBVIOUS
<1>3. items[i] \in WorkItems /\ x.evidence \in SUBSET Evidence
  BY <1>1, EntryTyped
<1>4. after = WithEntry(items, <<i, d>>, e) /\ CanComplete(items, at)
  BY <1>1, <1>2, <1>3, WithStatus DEF Completed, If
<1>5. /\ d = 0 => e \in WorkItems /\ e.id = items[i].id /\ e.details = items[i].details
      /\ d # 0 => e \in Details
      /\ e.status = "completed" /\ e.evidence = x.evidence
  BY <1>1, <1>2, <1>3, StatusesAre, EntryWith
<1>6. x.status = "in_progress" /\ (Leaf(items[i], d) => x.evidence # {})
  BY <1>1, <1>4 DEF CanComplete, Leaf
<1>7. EntryStep(x, e, Leaf(items[i], d))
  BY <1>5, <1>6 DEF EntryStep, Worked
<1> QED
  BY <1>1, <1>4, <1>5, <1>7, EntryChanges

\* reopen: what was blocked waits.
LEMMA ReopenFollows ==
  ASSUME NEW items \in Seq(WorkItems), NEW at \in Entries(items), NEW after \in Reopened(items, at)
  PROVE  Follows(items, after)
<1>1. PICK i \in DOMAIN items, d \in Nat :
        d \in EntriesOf(items[i]) /\ at = <<i, d>> /\ Entry(items, at) = EntryOf(items[i], d)
  BY EntriesAre
<1> DEFINE x == EntryOf(items[i], d)
<1>2. PICK e : e = EntryAs(items[i], d, "pending", x.evidence)
  OBVIOUS
<1>3. items[i] \in WorkItems /\ x.evidence \in SUBSET Evidence
  BY <1>1, EntryTyped
<1>4. after = WithEntry(items, <<i, d>>, e)
  BY <1>1, <1>2, <1>3, WithStatus DEF Reopened, If
<1>5. /\ d = 0 => e \in WorkItems /\ e.id = items[i].id /\ e.details = items[i].details
      /\ d # 0 => e \in Details
      /\ e.status = "pending"
  BY <1>1, <1>2, <1>3, StatusesAre, EntryWith
<1> QED
  BY <1>1, <1>4, <1>5, EntryChanges DEF NewEntry

\* evidence: only what is in progress gets it.
LEMMA EvidenceFollows ==
  ASSUME NEW items \in Seq(WorkItems), NEW e \in Evidence, NEW after \in Evidenced(items, e)
  PROVE  Follows(items, after)
<1>1. PICK at \in EvidenceTarget(items) :
        after = WithEntry(items, at, [Entry(items, at) EXCEPT !.evidence = @ \union {e}])
  BY DEF Evidenced, If
<1>2. PICK i \in DOMAIN items, d \in Nat :
        /\ d \in EntriesOf(items[i]) /\ at = <<i, d>> /\ Entry(items, at) = EntryOf(items[i], d)
        /\ EntryOf(items[i], d).status = "in_progress"
  <2>1. CASE at \in ActiveDetails(items)
    <3>1. PICK i \in DOMAIN items, d \in 1..DetailLimit :
            at = <<i, d>> /\ d \in DOMAIN items[i].details /\ items[i].details[d].status = "in_progress"
      BY <2>1 DEF ActiveDetails
    <3>2. items[i] \in WorkItems
      OBVIOUS
    <3>3. items[i].details \in Seq(Details)
      BY <3>2 DEF WorkItems
    <3>4. d \in EntriesOf(items[i]) /\ d # 0
      BY <3>1, <3>3 DEF EntriesOf
    <3> QED
      BY <3>1, <3>4 DEF Entry, EntryOf
  <2>2. CASE at \in Active(items) \X {0}
    <3>1. PICK i \in DOMAIN items : at = <<i, 0>> /\ items[i].status = "in_progress"
      BY <2>2 DEF Active
    <3>2. items[i] \in WorkItems
      OBVIOUS
    <3>3. 0 \in EntriesOf(items[i])
      BY <3>2 DEF WorkItems, EntriesOf
    <3> QED
      BY <3>1, <3>3 DEF Entry, EntryOf
  <2> QED
    BY <2>1, <2>2 DEF EvidenceTarget
<1> DEFINE x == EntryOf(items[i], d)
<1>3. items[i] \in WorkItems /\ x.evidence \in SUBSET Evidence /\ x.status \in Statuses
  BY <1>2, EntryTyped
<1>4. PICK y : y = EntryAs(items[i], d, x.status, x.evidence \union {e})
  OBVIOUS
<1>5. after = WithEntry(items, <<i, d>>, y)
  <2>1. after = WithEntry(items, <<i, d>>, [x EXCEPT !.evidence = x.evidence \union {e}])
    BY <1>1, <1>2
  <2>2. [x EXCEPT !.evidence = x.evidence \union {e}] = y
    <3>1. PICK more : more = x.evidence \union {e}
      OBVIOUS
    <3>2. [x EXCEPT !.evidence = more] = EntryAs(items[i], d, x.status, more)
      BY <1>2, <1>3, WithEvidence
    <3> QED
      BY <3>1, <3>2, <1>4
  <2> QED
    BY <2>1, <2>2
<1>6. /\ d = 0 => y \in WorkItems /\ y.id = items[i].id /\ y.details = items[i].details
      /\ d # 0 => y \in Details
      /\ y.status = "in_progress"
  <2>1. x.evidence \union {e} \in SUBSET Evidence
    BY <1>3
  <2> QED
    BY <1>2, <1>3, <1>4, <2>1, EntryWith
<1>7. EntryStep(x, y, Leaf(items[i], d))
  BY <1>2, <1>6 DEF EntryStep, Worked
<1> QED
  BY <1>2, <1>5, <1>6, <1>7, EntryChanges

\* block: an item takes its active detail with it.
LEMMA BlockFollows ==
  ASSUME NEW items \in Seq(WorkItems), NEW at \in Entries(items), NEW after \in Blocked(items, at)
  PROVE  Follows(items, after)
<1>1. PICK i \in DOMAIN items, d \in Nat :
        d \in EntriesOf(items[i]) /\ at = <<i, d>> /\ Entry(items, at) = EntryOf(items[i], d)
  BY EntriesAre
<1>2. items[i] \in WorkItems /\ items[i].details \in Seq(Details)
  <2>1. items[i] \in WorkItems
    OBVIOUS
  <2> QED
    BY <2>1 DEF WorkItems
<1>3. CASE d # 0
  <2> DEFINE x == EntryOf(items[i], d)
  <2>1. PICK e : e = EntryAs(items[i], d, "blocked", x.evidence)
    OBVIOUS
  <2>2. x.evidence \in SUBSET Evidence
    BY <1>1, <1>2, EntryTyped
  <2>3. [x EXCEPT !.status = "blocked"] = e
    BY <1>1, <1>2, <2>1, WithStatus
  <2>4. after = WithEntry(items, <<i, d>>, e)
    BY <1>1, <1>3, <2>3 DEF Blocked, If
  <2>5. e \in Details /\ e.status = "blocked"
    BY <1>1, <1>2, <1>3, <2>1, <2>2, StatusesAre, EntryWith
  <2>6. EntryStep(x, e, Leaf(items[i], d))
    BY <2>5 DEF EntryStep, Worked
  <2> QED
    BY <1>1, <1>3, <2>4, <2>5, <2>6, EntryChanges
<1>4. CASE d = 0
  <2> DEFINE item == items[i]
             details == [k \in DOMAIN item.details |-> BlockedDetail(item.details[k])]
  <2>1. PICK a : a = [[item EXCEPT !.status = "blocked"] EXCEPT !.details = [k \in DOMAIN @ |-> BlockedDetail(@[k])]]
    OBVIOUS
  <2>2. after = [items EXCEPT ![i] = a]
    <3>1. after = WithEntry(items, <<i, d>>, a)
      BY <1>1, <1>4, <2>1 DEF Blocked, If, EntryOf
    <3> QED
      BY <3>1, <1>4 DEF WithEntry
  <2>3. ASSUME NEW k \in DOMAIN item.details
        PROVE  /\ BlockedDetail(item.details[k]) \in Details
               /\ EntryStep(item.details[k], BlockedDetail(item.details[k]), TRUE)
    <3>1. item.details[k] \in Details
      BY <1>2
    <3> QED
      BY <3>1, StatusesAre DEF BlockedDetail, Details, EntryStep, Worked
  <2>4. details \in Seq(Details) /\ Len(details) = Len(item.details) /\ DOMAIN details = DOMAIN item.details
    <3>1. Len(item.details) \in Nat /\ DOMAIN item.details = 1..Len(item.details)
      BY <1>2
    <3>2. details \in [1..Len(item.details) -> Details]
      BY <2>3, <3>1
    <3> QED
      BY <3>1, <3>2
  <2> HIDE DEF details
  <2>5. a \in WorkItems /\ a.id = item.id /\ a.status = "blocked" /\ a.details = details /\ a.evidence = item.evidence
    <3>1. a = [id |-> item.id, status |-> "blocked", evidence |-> item.evidence, details |-> details]
      BY <1>2, <2>1 DEF WorkItems, details
    <3> QED
      BY <3>1, <1>2, <2>4, StatusesAre DEF WorkItems
  <2>6. ASSUME NEW k \in EntriesOf(a)
        PROVE  \/ NewEntry(EntryOf(a, k))
               \/ k \in EntriesOf(item) /\ EntryStep(EntryOf(item, k), EntryOf(a, k), Leaf(a, k))
    <3>1. k \in EntriesOf(item)
      BY <2>4, <2>5 DEF EntriesOf
    <3>2. CASE k = 0
      BY <3>1, <3>2, <2>5 DEF EntryOf, EntryStep, Worked
    <3>3. CASE k # 0
      <4>1. k \in DOMAIN item.details
        BY <3>1, <3>3, <1>2, EntryTyped
      <4>2. EntryOf(a, k) = BlockedDetail(item.details[k]) /\ EntryOf(item, k) = item.details[k]
        BY <3>3, <4>1, <2>5 DEF EntryOf, details
      <4> QED
        BY <3>1, <4>1, <4>2, <2>3 DEF EntryStep
    <3> QED
      BY <3>2, <3>3
  <2>7. Len(item.details) <= Len(a.details)
    BY <1>2, <2>4, <2>5
  <2>8. ItemStep(item, a)
    BY <2>5, <2>6, <2>7 DEF ItemStep
  <2> QED
    BY <2>2, <2>5, <2>8, OneChanges
<1> QED
  BY <1>3, <1>4

\* details: new ones wait.
LEMMA DetailsFollow ==
  ASSUME NEW items \in Seq(WorkItems), NEW i \in DOMAIN items, NEW n \in 1..DetailLimit,
         NEW after \in DetailsAdded(items, i, n)
  PROVE  Follows(items, after)
<1> DEFINE item == items[i]
           new == [d \in 1..n |-> Detail("pending")]
<1>1. item \in WorkItems /\ item.details \in Seq(Details)
  <2>1. item \in WorkItems
    OBVIOUS
  <2> QED
    BY <2>1 DEF WorkItems
<1>2. PICK a : a = [item EXCEPT !.details = item.details \o new]
  OBVIOUS
<1>3. after = [items EXCEPT ![i] = a] /\ item.status # "completed"
  BY <1>2 DEF DetailsAdded, If
<1>4. n \in Nat
  BY TodoLimits
<1>5. Detail("pending") \in Details /\ Detail("pending").status = "pending"
  BY StatusesAre DEF Detail, Details
<1>6. new \in Seq(Details) /\ Len(new) = n /\ DOMAIN new = 1..n /\ \A d \in DOMAIN new : new[d].status = "pending"
  BY <1>4, <1>5
<1> HIDE DEF new
<1>7. /\ item.details \o new \in Seq(Details) /\ Len(item.details \o new) = Len(item.details) + n
      /\ Len(item.details) \in Nat
      /\ \A d \in 1..Len(item.details) : (item.details \o new)[d] = item.details[d]
      /\ \A d \in (Len(item.details) + 1)..(Len(item.details) + n) :
           (item.details \o new)[d] = new[d - Len(item.details)] /\ d - Len(item.details) \in DOMAIN new
  <2>1. Len(item.details) \in Nat
    BY <1>1
  <2>2. item.details \o new \in Seq(Details) /\ Len(item.details \o new) = Len(item.details) + n
    BY <1>1, <1>6, ConcatProperties
  <2>4. ASSUME NEW d \in 1..Len(item.details) PROVE (item.details \o new)[d] = item.details[d]
    <3>1. d \in 1..(Len(item.details) + Len(new)) /\ d <= Len(item.details)
      BY <1>4, <1>6, <2>1
    <3> QED
      BY <3>1, <1>1, <1>6, <2>1
  <2>3. ASSUME NEW d \in (Len(item.details) + 1)..(Len(item.details) + n)
        PROVE  (item.details \o new)[d] = new[d - Len(item.details)] /\ d - Len(item.details) \in DOMAIN new
    <3>1. d - Len(item.details) \in 1..n
      BY <1>4, <2>1
    <3>2. d \in 1..(Len(item.details) + Len(new)) /\ ~(d <= Len(item.details))
      BY <1>4, <1>6, <2>1
    <3> QED
      BY <3>1, <3>2, <1>1, <1>6, <2>1
  <2> QED
    BY <2>1, <2>2, <2>3, <2>4
<1>8. /\ a \in WorkItems /\ a.id = item.id /\ a.status = item.status /\ a.evidence = item.evidence
      /\ a.details = item.details \o new
  BY <1>1, <1>2, <1>7 DEF WorkItems
<1>9. ASSUME NEW d \in EntriesOf(a)
      PROVE  \/ NewEntry(EntryOf(a, d))
             \/ d \in EntriesOf(item) /\ EntryStep(EntryOf(item, d), EntryOf(a, d), Leaf(a, d))
  <2>1. CASE d = 0
    <3>1. d \in EntriesOf(item) /\ EntryOf(item, d) = item /\ EntryOf(a, d) = a
      BY <2>1, <1>7 DEF EntriesOf, EntryOf
    <3>2. EntryStep(item, a, Leaf(a, d))
      BY <1>3, <1>8 DEF EntryStep
    <3> QED
      BY <3>1, <3>2
  <2>2. CASE d \in 1..Len(item.details)
    <3>1. d \in EntriesOf(item) /\ EntryOf(item, d) = item.details[d] /\ EntryOf(a, d) = item.details[d]
      BY <2>2, <1>7, <1>8 DEF EntriesOf, EntryOf
    <3> QED
      BY <3>1 DEF EntryStep
  <2>3. CASE d \in Len(item.details) + 1..Len(item.details) + n
    <3>1. EntryOf(a, d) = new[d - Len(item.details)] /\ d - Len(item.details) \in DOMAIN new
      BY <2>3, <1>7, <1>8 DEF EntryOf
    <3> QED
      BY <3>1, <1>6 DEF NewEntry
  <2> QED
    BY <2>1, <2>2, <2>3, <1>4, <1>7, <1>8 DEF EntriesOf
<1>10. Len(item.details) <= Len(a.details)
  BY <1>4, <1>7, <1>8
<1>11. ItemStep(item, a)
  BY <1>8, <1>9, <1>10 DEF ItemStep
<1> QED
  BY <1>3, <1>8, <1>11, OneChanges

\* An item is put between the others.
LEMMA Inserted ==
  ASSUME NEW items \in Seq(WorkItems), NEW at \in 1..(Len(items) + 1), NEW a \in WorkItems
  PROVE  /\ InsertAt(items, at, a) \in Seq(WorkItems)
         /\ \A j \in DOMAIN InsertAt(items, at, a) :
              InsertAt(items, at, a)[j] = a \/ \E i \in DOMAIN items : InsertAt(items, at, a)[j] = items[i]
<1> DEFINE front == SubSeq(items, 1, at - 1)
           back == SubSeq(items, at, Len(items))
<1>1. Len(items) \in Nat /\ at \in Nat /\ at >= 1 /\ at <= Len(items) + 1
  OBVIOUS
<1>2. front \in Seq(WorkItems) /\ \A k \in DOMAIN front : \E i \in DOMAIN items : front[k] = items[i]
  <2>1. front \in Seq(WorkItems) /\ DOMAIN front = 1..(at - 1) /\ \A k \in 1..(at - 1) : front[k] = items[k]
    BY <1>1
  <2>2. \A k \in 1..(at - 1) : k \in DOMAIN items
    BY <1>1
  <2> HIDE DEF front
  <2> QED
    BY <2>1, <2>2
<1>3. back \in Seq(WorkItems) /\ \A k \in DOMAIN back : \E i \in DOMAIN items : back[k] = items[i]
  <2>1. CASE at = Len(items) + 1
    <3>1. back = <<>>
      BY <1>1, <2>1
    <3> QED
      BY <3>1
  <2>2. CASE at <= Len(items)
    <3>1. /\ back \in Seq(WorkItems) /\ DOMAIN back = 1..(Len(items) - at + 1)
          /\ \A k \in 1..(Len(items) - at + 1) : back[k] = items[at + k - 1]
      BY <1>1, <2>2
    <3>2. \A k \in 1..(Len(items) - at + 1) : at + k - 1 \in DOMAIN items
      BY <1>1, <2>2
    <3> HIDE DEF back
    <3> QED
      BY <3>1, <3>2
  <2> HIDE DEF back
  <2> QED
    BY <1>1, <2>1, <2>2
<1> HIDE DEF front, back
<1>4. InsertAt(items, at, a) = front \o <<a>> \o back
  BY DEF InsertAt, front, back
<1>5. PICK head : head = front \o <<a>>
  OBVIOUS
<1>6. head \in Seq(WorkItems) /\ \A k \in DOMAIN head : head[k] = a \/ \E i \in DOMAIN items : head[k] = items[i]
  <2>1. /\ head \in Seq(WorkItems) /\ DOMAIN head = 1..(Len(front) + 1) /\ Len(front) \in Nat
        /\ head[Len(front) + 1] = a
        /\ \A k \in 1..Len(front) : head[k] = front[k] /\ k \in DOMAIN front
    BY <1>2, <1>5
  <2>2. ASSUME NEW k \in DOMAIN head PROVE head[k] = a \/ \E i \in DOMAIN items : head[k] = items[i]
    <3>1. k = Len(front) + 1 \/ k \in 1..Len(front)
      BY <2>1
    <3> QED
      BY <3>1, <2>1, <1>2
  <2> QED
    BY <2>1, <2>2
<1>7. PICK all : all = head \o back
  OBVIOUS
<1>8. all \in Seq(WorkItems) /\ \A k \in DOMAIN all : all[k] = a \/ \E i \in DOMAIN items : all[k] = items[i]
  <2>1. /\ all \in Seq(WorkItems) /\ DOMAIN all = 1..(Len(head) + Len(back)) /\ Len(head) \in Nat /\ Len(back) \in Nat
        /\ \A k \in 1..Len(head) : all[k] = head[k] /\ k \in DOMAIN head
        /\ \A k \in (Len(head) + 1)..(Len(head) + Len(back)) :
             all[k] = back[k - Len(head)] /\ k - Len(head) \in DOMAIN back
    BY <1>3, <1>6, <1>7
  <2>2. ASSUME NEW k \in DOMAIN all PROVE all[k] = a \/ \E i \in DOMAIN items : all[k] = items[i]
    <3>1. k \in 1..Len(head) \/ k \in (Len(head) + 1)..(Len(head) + Len(back))
      BY <2>1
    <3> QED
      BY <3>1, <2>1, <1>3, <1>6
  <2> QED
    BY <2>1, <2>2
<1> QED
  BY <1>4, <1>5, <1>7, <1>8

\* The one active item.
LEMMA ActiveIs ==
  ASSUME NEW items \in Seq(WorkItems), ValidItems(items), Active(items) # {}
  PROVE  \E i \in DOMAIN items : Active(items) = {i} /\ Max(Active(items)) = i /\ Min(Active(items)) = i
<1>1. Len(items) \in Nat /\ DOMAIN items = 1..Len(items) /\ Active(items) \subseteq 1..Len(items)
  BY DEF Active
<1>2. IsFiniteSet(Active(items))
  <2>1. IsFiniteSet(1..Len(items))
    BY <1>1, FS_Interval
  <2> QED
    BY <1>1, <2>1, FS_Subset
<1>3. Cardinality(Active(items)) = 1
  <2>1. Cardinality(Active(items)) \in Nat /\ Cardinality(Active(items)) # 0
    BY <1>2, FS_CardinalityType, FS_EmptySet
  <2> QED
    BY <2>1 DEF ValidItems
<1>4. PICK i : Active(items) = {i}
  BY <1>2, <1>3, FS_Singleton
<1>5. i \in DOMAIN items /\ i \in Int
  BY <1>1, <1>4
<1>6. Max({i}) = i /\ Min({i}) = i
  BY <1>5 DEF Max, Min
<1> QED
  BY <1>4, <1>5, <1>6

\* A set of numbers has a least.
LEMMA LeastExists ==
  ASSUME NEW S \in SUBSET Nat, S # {}
  PROVE  Min(S) \in S
<1>1. IsWellFoundedOn(OpToRel(<, Nat), Nat)
  BY NatLessThanWellFounded
<1>2. PICK x \in S : \A y \in S : ~ (<<y, x>> \in OpToRel(<, Nat))
  BY <1>1, WFMin
<1>3. \A y \in S : ~(y < x)
  BY <1>2 DEF OpToRel
<1>4. \A y \in S : x <= y
  BY <1>3
<1> QED
  BY <1>4 DEF Min

\* A finite set of numbers has a greatest: the one with the fewest above it.
LEMMA GreatestExists ==
  ASSUME NEW S \in SUBSET Int, S # {}, IsFiniteSet(S)
  PROVE  Max(S) \in S
<1> DEFINE Above(x) == {y \in S : y > x}
           counts == {Cardinality(Above(x)) : x \in S}
<1>1. \A x \in S : IsFiniteSet(Above(x)) /\ Cardinality(Above(x)) \in Nat
  <2> SUFFICES ASSUME NEW x \in S PROVE IsFiniteSet(Above(x)) /\ Cardinality(Above(x)) \in Nat
    OBVIOUS
  <2>1. Above(x) \in SUBSET S
    OBVIOUS
  <2>2. IsFiniteSet(Above(x))
    BY <2>1, FS_Subset
  <2> QED
    BY <2>2, FS_CardinalityType
<1>2. PICK x \in S : \A y \in S : ~(Cardinality(Above(y)) < Cardinality(Above(x)))
  <2>1. counts \in SUBSET Nat /\ counts # {}
    BY <1>1
  <2>2. IsWellFoundedOn(OpToRel(<, Nat), Nat)
    BY NatLessThanWellFounded
  <2>3. PICK c \in counts : \A b \in counts : ~ (<<b, c>> \in OpToRel(<, Nat))
    BY <2>1, <2>2, WFMin
  <2>4. \A b \in counts : ~(b < c)
    BY <2>1, <2>3 DEF OpToRel
  <2> QED
    BY <2>4
<1>3. ASSUME NEW y \in S, y > x PROVE FALSE
  <2>1. Above(y) \in SUBSET Above(x) /\ y \in Above(x) /\ y \notin Above(y)
    <3>1. x \in Int /\ y \in Int /\ \A z \in S : z \in Int
      OBVIOUS
    <3>2. ASSUME NEW z \in Above(y) PROVE z \in Above(x)
      <4>1. z \in Int /\ z \in S /\ z > y
        BY <3>1
      <4> QED
        BY <4>1, <3>1, <1>3
    <3>3. ~(y > y)
      BY <3>1
    <3> QED
      BY <1>3, <3>2, <3>3
  <2>2. Cardinality(Above(y)) <= Cardinality(Above(x)) /\ Cardinality(Above(y)) # Cardinality(Above(x))
    BY <2>1, <1>1, FS_Subset
  <2> QED
    BY <2>2, <1>1, <1>2
<1>4. \A y \in S : x >= y
  BY <1>3
<1> QED
  BY <1>4 DEF Max

\* The number of a new item is a number.
LEMMA NextIsNumber ==
  ASSUME NEW items \in Seq(WorkItems)
  PROVE  NextNumber(items) \in Int
<1> DEFINE ids == {items[i].id : i \in DOMAIN items}
           idOf == [i \in 1..Len(items) |-> items[i].id]
<1>1. Len(items) \in Nat /\ DOMAIN items = 1..Len(items)
  OBVIOUS
<1>2. idOf \in Surjection(1..Len(items), ids)
  BY <1>1 DEF Surjection
<1>3. IsFiniteSet(ids)
  <2>1. IsFiniteSet(1..Len(items))
    BY <1>1, FS_Interval
  <2> QED
    BY <1>2, <2>1, FS_Surjection
<1>4. ids \in SUBSET Int
  <2> SUFFICES ASSUME NEW i \in DOMAIN items PROVE items[i].id \in Int
    OBVIOUS
  <2>1. items[i] \in WorkItems
    OBVIOUS
  <2> QED
    BY <2>1 DEF WorkItems
<1>5. IsFiniteSet({0} \union ids) /\ {0} \union ids \in SUBSET Int /\ {0} \union ids # {}
  <2>1. IsFiniteSet({0})
    BY FS_Singleton
  <2>2. IsFiniteSet({0} \union ids)
    BY <1>3, <2>1, FS_Union
  <2> QED
    BY <1>4, <2>2
<1>6. Max({0} \union ids) \in Int
  BY <1>5, GreatestExists
<1> QED
  BY <1>6 DEF NextNumber

\* A new item is put where it belongs.
LEMMA NewAmong ==
  ASSUME NEW items \in Seq(WorkItems), NEW others \in Seq(WorkItems), NEW at \in 1..(Len(others) + 1),
         NEW status \in {"pending", "in_progress"},
         \A i \in DOMAIN others : \E k \in DOMAIN items : ItemStep(items[k], others[i])
  PROVE  Follows(items, InsertAt(others, at, Item(NextNumber(items), status, <<>>)))
<1> DEFINE a == Item(NextNumber(items), status, <<>>)
<1>1. a = [id |-> NextNumber(items), status |-> status, evidence |-> {}, details |-> <<>>]
  BY DEF Item
<1>2. <<>> \in Seq(Details) /\ NextNumber(items) \in Int /\ status \in Statuses
  BY NextIsNumber, StatusesAre
<1>3. a \in WorkItems
  <2>1. [id |-> NextNumber(items), status |-> status, evidence |-> {}, details |-> <<>>] \in WorkItems
    BY <1>2 DEF WorkItems
  <2> QED
    BY <1>1, <2>1
<1>4. NewItem(a)
  BY <1>1 DEF NewItem, NewEntry
<1> HIDE DEF a
<1> DEFINE after == InsertAt(others, at, a)
<1>5. after \in Seq(WorkItems) /\ \A j \in DOMAIN after : after[j] = a \/ \E i \in DOMAIN others : after[j] = others[i]
  BY <1>3, Inserted
<1> HIDE DEF after
<1>6. Follows(items, after)
  BY <1>4, <1>5 DEF Follows
<1> QED
  BY <1>6 DEF after, a

\* addAfter: behind the active item.
LEMMA AddAfterFollows ==
  ASSUME NEW items \in Seq(WorkItems), ValidItems(items), NEW after \in AddedAfter(items)
  PROVE  Follows(items, after)
<1> DEFINE at == IF Active(items) = {} THEN Len(items) + 1 ELSE Max(Active(items)) + 1
<1>1. at \in 1..(Len(items) + 1)
  <2>1. Len(items) \in Nat /\ DOMAIN items = 1..Len(items)
    OBVIOUS
  <2>2. CASE Active(items) = {}
    BY <2>1, <2>2
  <2>3. CASE Active(items) # {}
    BY <2>1, <2>3, ActiveIs
  <2> QED
    BY <2>2, <2>3
<1>2. \A i \in DOMAIN items : ItemStep(items[i], items[i])
  <2> SUFFICES ASSUME NEW i \in DOMAIN items PROVE ItemStep(items[i], items[i])
    OBVIOUS
  <2>1. items[i] \in WorkItems
    OBVIOUS
  <2> QED
    BY <2>1, Itself
<1>3. after = InsertAt(items, at, Item(NextNumber(items), "pending", <<>>))
  BY DEF AddedAfter, If
<1> HIDE DEF at
<1> QED
  BY <1>1, <1>2, <1>3, NewAmong

\* The first item that is not completed is one of them.
LEMMA FirstIs ==
  ASSUME NEW items \in Seq(WorkItems)
  PROVE  FirstIncomplete(items) = 0 \/ FirstIncomplete(items) \in DOMAIN items
<1> DEFINE incomplete == {i \in 1..Len(items) : items[i].status # "completed"}
<1>1. Len(items) \in Nat /\ DOMAIN items = 1..Len(items)
  OBVIOUS
<1>2. FirstIncomplete(items) = IF incomplete # {} THEN Min(incomplete) ELSE 0
  BY DEF FirstIncomplete, SelectInSeq
<1>3. incomplete \in SUBSET Nat
  BY <1>1
<1>4. incomplete # {} => Min(incomplete) \in incomplete
  BY <1>3, LeastExists
<1> QED
  BY <1>1, <1>2, <1>4

\* addNow: the active item steps back, and loses its evidence.
LEMMA AddNowFollows ==
  ASSUME NEW items \in Seq(WorkItems), ValidItems(items), NEW after \in AddedNow(items)
  PROVE  Follows(items, after)
<1> DEFINE demoted == [i \in DOMAIN items |->
                         IF i \in Active(items) THEN [items[i] EXCEPT !.status = "pending", !.evidence = {}] ELSE items[i]]
           at == IF FirstIncomplete(items) = 0 THEN Len(items) + 1
                 ELSE IF Active(items) = {} THEN FirstIncomplete(items) ELSE Min(Active(items))
<1>1. Len(items) \in Nat /\ DOMAIN items = 1..Len(items)
  OBVIOUS
<1>2. ASSUME NEW i \in DOMAIN items PROVE demoted[i] \in WorkItems /\ ItemStep(items[i], demoted[i])
  <2>1. items[i] \in WorkItems
    OBVIOUS
  <2>2. CASE i \notin Active(items)
    BY <2>1, <2>2, Itself
  <2>3. CASE i \in Active(items)
    <3>1. PICK a : a = EntryAs(items[i], 0, "pending", {})
      OBVIOUS
    <3>2. 0 \in EntriesOf(items[i]) /\ EntryOf(items[i], 0) = items[i]
      BY <2>1 DEF EntriesOf, EntryOf, WorkItems
    <3>3. demoted[i] = a
      BY <2>3, <3>1, <3>2 DEF EntryAs
    <3>4. a \in WorkItems /\ a.id = items[i].id /\ a.details = items[i].details /\ a.status = "pending"
      BY <2>1, <3>1, <3>2, StatusesAre, EntryWith
    <3>5. ItemStep(items[i], a)
      BY <2>1, <3>4, SameDetails DEF NewEntry
    <3> QED
      BY <3>3, <3>4, <3>5
  <2> QED
    BY <2>2, <2>3
<1>3. demoted \in Seq(WorkItems) /\ DOMAIN demoted = DOMAIN items /\ Len(demoted) = Len(items)
  <2>1. demoted \in [1..Len(items) -> WorkItems]
    BY <1>1, <1>2
  <2> HIDE DEF demoted
  <2> QED
    BY <1>1, <2>1
<1>4. at \in 1..(Len(items) + 1)
  <2>1. CASE FirstIncomplete(items) = 0
    BY <1>1, <2>1
  <2>2. CASE FirstIncomplete(items) # 0 /\ Active(items) = {}
    BY <1>1, <2>2, FirstIs
  <2>3. CASE FirstIncomplete(items) # 0 /\ Active(items) # {}
    BY <1>1, <2>3, ActiveIs
  <2> QED
    BY <2>1, <2>2, <2>3
<1>5. after = InsertAt(demoted, at, Item(NextNumber(items), "in_progress", <<>>))
  BY DEF AddedNow, If
<1> HIDE DEF demoted, at
<1> QED
  BY <1>2, <1>3, <1>4, <1>5, NewAmong

\* create: all items are new.
LEMMA CreateFollows ==
  ASSUME NEW items \in Seq(WorkItems), NEW n \in 1..ItemLimit, NEW after \in Created(items, n)
  PROVE  Follows(items, after)
<1>1. n \in Nat
  BY TodoLimits
<1>2. after = [i \in 1..n |-> Item(i, "pending", <<>>)]
  BY DEF Created, If
<1>3. ASSUME NEW i \in 1..n PROVE after[i] \in WorkItems /\ NewItem(after[i])
  <2>1. after[i] = [id |-> i, status |-> "pending", evidence |-> {}, details |-> <<>>]
    BY <1>2 DEF Item
  <2>2. <<>> \in Seq(Details) /\ i \in Int
    BY <1>1
  <2> QED
    BY <2>1, <2>2, StatusesAre DEF WorkItems, NewItem, NewEntry
<1>4. after \in Seq(WorkItems) /\ DOMAIN after = 1..n
  <2>1. after \in [1..n -> WorkItems]
    BY <1>2, <1>3
  <2> QED
    BY <1>1, <2>1
<1> QED
  BY <1>3, <1>4 DEF Follows

\* Every command makes what may follow.
LEMMA CommandsFollow ==
  ASSUME NEW items \in Seq(WorkItems), ValidItems(items), NEW after \in Changed(items)
  PROVE  Follows(items, after)
<1>1. CASE \E at \in Entries(items) : after \in Started(items, at)
  BY <1>1, StartFollows
<1>2. CASE \E at \in Entries(items) : after \in Completed(items, at)
  BY <1>2, CompleteFollows
<1>3. CASE \E at \in Entries(items) : after \in Blocked(items, at)
  BY <1>3, BlockFollows
<1>4. CASE \E at \in Entries(items) : after \in Reopened(items, at)
  BY <1>4, ReopenFollows
<1>5. CASE \E i \in DOMAIN items, n \in 1..DetailLimit : after \in DetailsAdded(items, i, n)
  BY <1>5, DetailsFollow
<1>6. CASE \E e \in Evidence : after \in Evidenced(items, e)
  BY <1>6, EvidenceFollows
<1>7. CASE after \in AddedAfter(items)
  BY <1>7, AddAfterFollows
<1>8. CASE after \in AddedNow(items)
  BY <1>8, AddNowFollows
<1>9. \/ \E at \in Entries(items) :
           after \in UNION {Started(items, at), Completed(items, at), Blocked(items, at), Reopened(items, at)}
      \/ \E i \in DOMAIN items, n \in 1..DetailLimit : after \in DetailsAdded(items, i, n)
      \/ \E e \in Evidence : after \in Evidenced(items, e)
      \/ after \in AddedAfter(items) \/ after \in AddedNow(items)
  <2>1. \/ after \in UNION {UNION {Started(items, at), Completed(items, at), Blocked(items, at), Reopened(items, at)}
                           : at \in Entries(items)}
        \/ after \in UNION {DetailsAdded(items, i, n) : i \in DOMAIN items, n \in 1..DetailLimit}
        \/ after \in UNION {Evidenced(items, e) : e \in Evidence}
        \/ after \in AddedAfter(items) \/ after \in AddedNow(items)
    BY DEF Changed
  <2> QED
    BY <2>1
<1>10. ASSUME NEW at \in Entries(items),
              after \in UNION {Started(items, at), Completed(items, at), Blocked(items, at), Reopened(items, at)}
       PROVE  Follows(items, after)
  BY <1>1, <1>2, <1>3, <1>4, <1>10
<1> QED
  BY <1>5, <1>6, <1>7, <1>8, <1>9, <1>10

\* The document starts empty.
LEMMA WorkStarts == WorkInit => WorkInv
<1> SUFFICES ASSUME WorkInit PROVE WorkInv
  OBVIOUS
<1>1. work = <<>> /\ work \in Seq(WorkItems)
  BY DEF WorkInit
<1>2. Len(work) = 0 /\ DOMAIN work = {}
  BY <1>1
<1>3. Active(work) = {} /\ ActiveDetails(work) = {}
  BY <1>2 DEF Active, ActiveDetails
<1>4. ValidItems(work)
  BY <1>2, <1>3, FS_EmptySet, TodoLimits DEF ValidItems
<1> QED
  BY <1>1, <1>2, <1>4 DEF WorkInv, BackedBy

\* Every step keeps the invariant.
LEMMA WorkKept == WorkInv /\ [WorkNext]_workVars => WorkInv'
<1> SUFFICES ASSUME WorkInv, [WorkNext]_workVars PROVE WorkInv'
  OBVIOUS
<1>1. work \in Seq(WorkItems) /\ ValidItems(work) /\ BackedBy(work, fresh)
  BY DEF WorkInv
<1>2. ASSUME NEW items, WorkStep(items), Follows(work, items) PROVE WorkInv'
  <2>1. ValidItems(items) /\ work' = items /\ fresh' = Fresh(work, items)
    BY <1>2 DEF WorkStep
  <2>2. items \in Seq(WorkItems)
    BY <1>2 DEF Follows
  <2>3. BackedBy(items, Fresh(work, items))
    BY <1>1, <1>2, <2>1, StaysBacked
  <2> QED
    BY <2>1, <2>2, <2>3 DEF WorkInv
<1>3. CASE CreateWork
  BY <1>1, <1>2, <1>3, CreateFollows DEF CreateWork
<1>4. CASE ChangeWork
  BY <1>1, <1>2, <1>4, CommandsFollow DEF ChangeWork
<1>5. CASE UNCHANGED workVars
  BY <1>1, <1>5 DEF workVars, WorkInv
<1> QED
  BY <1>3, <1>4, <1>5 DEF WorkNext

\* A leaf that is completed has evidence, and all it has was recorded since it was started.
LEMMA WorkIsEvidenced == WorkInv => EvidencedCompletion
<1> SUFFICES ASSUME WorkInv, NEW i \in DOMAIN work, NEW d \in 0..Len(work[i].details),
                    Entry(work, <<i, d>>).status = "completed", d = 0 => work[i].details = <<>>
             PROVE  \E e \in Evidence : <<work[i].id, d, e>> \in fresh
  BY DEF EvidencedCompletion
<1>1. d \in EntriesOf(work[i]) /\ Entry(work, <<i, d>>) = EntryOf(work[i], d)
  BY DEF EntriesOf, Entry, EntryOf
<1>2. work[i] \in WorkItems /\ BackedBy(work, fresh)
  BY DEF WorkInv
<1>3. EntryOf(work[i], d).evidence # {} /\ EntryOf(work[i], d).evidence \subseteq Evidence
  BY <1>1, <1>2, EntryTyped DEF BackedBy, Leaf
<1>4. \A e \in EntryOf(work[i], d).evidence : <<work[i].id, d, e>> \in fresh
  BY <1>1, <1>2 DEF BackedBy, Worked
<1> QED
  BY <1>3, <1>4

\* For any limits, evidence and sequence of commands: what is completed rests on evidence recorded since it
\* was started, through blocking, reopening, demotion and new details (todo-ledger.ts).
THEOREM CompletionIsEvidenced == WorkSpec => []EvidencedCompletion
<1> QED
  BY WorkStarts, WorkKept, WorkIsEvidenced, PTL DEF WorkSpec

-----------------------------------------------------------------------------
(* The Todo file.  Its lines are of three kinds; what is read of them is   *)
(* the items of the managed ones (ManagedOnly), and a document is read as  *)
(* it was written (EntryLinesRead).  So a file whose managed lines are     *)
(* those of a document reads as the document (Reads, ReadsParse); so do    *)
(* the file that is written anew (RenderReads), patched (PatchReads) or    *)
(* edited (EditReads, LastBreakReads).                                     *)

\* The lines of a file that can be read.
Lines == ManagedLines \union [kind : {"note"}, id : Nat, eol : BOOLEAN, entry : Details]

\* The fields of a line and their types; managed is what is no note.
LEMMA LineTyped ==
  ASSUME NEW line \in Lines
  PROVE  /\ line.kind \in {"item", "detail", "note"} /\ line.id \in Int /\ line.eol \in BOOLEAN
         /\ line.entry \in Details /\ line.entry.status \in Statuses /\ line.entry.evidence \subseteq Evidence
         /\ line \in ManagedLines <=> line.kind # "note"
         /\ line = [kind |-> line.kind, id |-> line.id, eol |-> line.eol, entry |-> line.entry]
BY DEF Lines, ManagedLines, Details

\* Reading a line makes items of items.
LEMMA LineAddsItems ==
  ASSUME NEW items \in Seq(WorkItems), NEW line \in Lines
  PROVE  AddLine(items, line) \in Seq(WorkItems)
<1>1. CASE line.kind = "item"
  <2> DEFINE new == [id |-> line.id, status |-> line.entry.status, evidence |-> line.entry.evidence, details |-> <<>>]
  <2>1. <<>> \in Seq(Details)
    OBVIOUS
  <2>2. new \in WorkItems
    BY <2>1, LineTyped DEF WorkItems
  <2>3. AddLine(items, line) = Append(items, new)
    BY <1>1 DEF AddLine
  <2> HIDE DEF new
  <2> QED
    BY <2>2, <2>3
<1>2. CASE line.kind = "detail" /\ items # <<>>
  <2>1. Len(items) \in Nat /\ Len(items) > 0 /\ Last(items) = items[Len(items)] /\ Len(items) \in DOMAIN items
    BY <1>2 DEF Last
  <2> DEFINE old == Last(items)
             new == [old EXCEPT !.details = Append(@, line.entry)]
  <2>7. old \in WorkItems
    BY <2>1
  <2>8. line.entry \in Details
    BY LineTyped
  <2>2. old \in WorkItems /\ old.details \in Seq(Details) /\ line.entry \in Details
    <3> HIDE DEF old
    <3> QED
      BY <2>7, <2>8 DEF WorkItems
  <2>3. Append(old.details, line.entry) \in Seq(Details)
    BY <2>2
  <2>4. new \in WorkItems
    BY <2>2, <2>3 DEF WorkItems
  <2>5. Front(items) \in Seq(WorkItems)
    BY <2>1 DEF Front
  <2>6. AddLine(items, line) = Append(Front(items), new)
    BY <1>2 DEF AddLine
  <2> HIDE DEF new
  <2> QED
    BY <2>4, <2>5, <2>6
<1>3. CASE line.kind # "item" /\ ~(line.kind = "detail" /\ items # <<>>)
  BY <1>3 DEF AddLine
<1> QED
  BY <1>1, <1>2, <1>3

\* What Items computes for the beginnings of the lines.
Reading(text, read) ==
  /\ read \in [0..Len(text) -> Seq(WorkItems)] /\ read[0] = <<>>
  /\ \A i \in 1..Len(text) : read[i] = AddLine(read[i - 1], text[i])

\* What a text reads as is computed line by line, from the front.
LEMMA ReadingExists ==
  ASSUME NEW text \in Seq(Lines)
  PROVE  \E read : Reading(text, read) /\ Items(text) = read[Len(text)]
<1> DEFINE D == DOMAIN text
           V == Seq(WorkItems)
           pick == [s \in SUBSET D |-> IF s = {} THEN D ELSE Max(s)]
           F == [p \in V \X D |-> AddLine(p[1], text[p[2]])]
           Value(g, s) == IF s = {} THEN <<>> ELSE AddLine(g[s \ {Max(s)}], text[Max(s)])
<1>1. D = 1..Len(text) /\ Len(text) \in Nat /\ <<>> \in V
  OBVIOUS
<1>2. IsFiniteSet(D)
  BY <1>1, FS_Interval
<1>3. \A s \in SUBSET D : s # {} => Max(s) \in s
  BY <1>1, <1>2, FS_Subset, MaxOfUpTo
<1>4. pick \in [SUBSET D -> D \union {D}] /\ \A s \in SUBSET D : s # {} => pick[s] \in s
  BY <1>3
<1>5. F \in [V \X D -> V]
  <2> SUFFICES ASSUME NEW p \in V \X D PROVE F[p] \in V
    OBVIOUS
  <2>1. p[1] \in Seq(WorkItems) /\ text[p[2]] \in Lines
    BY <1>1
  <2> QED
    BY <2>1, LineAddsItems
<1>6. PICK g \in [SUBSET D -> V] :
        \A s \in SUBSET D : g[s] = IF s = {} THEN <<>> ELSE F[<<g[s \ {pick[s]}], pick[s]>>]
  <2> DEFINE none == <<>>
  <2>1. none \in V
    BY <1>1
  <2> HIDE DEF pick, F, V, D, none
  <2>2. Recursion(D, V, none, pick, F)
    BY <2>1, <1>2, <1>4, <1>5 DEF Recursion
  <2>3. PICK g : Solves(D, V, none, pick, F, g)
    BY <2>2, SetRecursion
  <2> QED
    BY <2>3 DEF none, Solves
<1>7. g = [s \in SUBSET D |-> Value(g, s)]
  <2>1. ASSUME NEW s \in SUBSET D PROVE g[s] = Value(g, s)
    <3>1. CASE s = {}
      BY <3>1, <1>6
    <3>2. CASE s # {}
      <4>1. pick[s] = Max(s) /\ Max(s) \in D /\ g[s \ {Max(s)}] \in V
        BY <3>2, <1>3
      <4>2. g[s] = F[<<g[s \ {Max(s)}], Max(s)>>]
        BY <3>2, <4>1, <1>6
      <4>3. <<g[s \ {Max(s)}], Max(s)>> \in V \X D
        BY <4>1
      <4> HIDE DEF V, D
      <4> QED
        BY <3>2, <4>2, <4>3
    <3> QED
      BY <3>1, <3>2
  <2> HIDE DEF Value, V
  <2> QED
    BY <2>1
<1> HIDE DEF pick, F
<1> DEFINE h == CHOOSE iter : iter = [s \in SUBSET D |-> Value(iter, s)]
<1>8. h = [s \in SUBSET D |-> Value(h, s)]
  BY <1>7
<1>9. Items(text) = h[D]
  BY DEF Items, FoldLeft, MapThenFoldSet
<1> HIDE DEF h
<1>10. ASSUME NEW n \in Nat, n # 0, n <= Len(text)
       PROVE  h[1..n] = AddLine(h[1..(n - 1)], text[n])
  <2>0. n \in 1..n
    BY <1>10
  <2>4. \A k \in 1..n : k \in 1..Len(text)
    BY <1>1, <1>10
  <2>1. (1..n) \in SUBSET D /\ 1..n # {}
    BY <2>0, <2>4, <1>1
  <2>2. h[1..n] = Value(h, 1..n)
    BY <2>1, <1>8
  <2>3. Max(1..n) = n /\ (1..n) \ {n} = 1..(n - 1)
    BY <1>10, MaxOfFirst
  <2> QED
    BY <2>1, <2>2, <2>3
<1>11. h[1..0] = <<>>
  BY <1>8
<1> DEFINE typed == {n \in Nat : n <= Len(text) => h[1..n] \in Seq(WorkItems)}
<1>12. 0 \in typed
  <2>1. h[1..0] \in Seq(WorkItems)
    BY <1>11
  <2> QED
    BY <2>1
<1>13. ASSUME NEW n \in Nat, n \in typed PROVE n + 1 \in typed
  <2> SUFFICES ASSUME n + 1 <= Len(text) PROVE h[1..(n + 1)] \in Seq(WorkItems)
    OBVIOUS
  <2>1. h[1..n] \in Seq(WorkItems) /\ text[n + 1] \in Lines
    BY <1>13
  <2>2. n + 1 \in Nat /\ n + 1 # 0 /\ (n + 1) - 1 = n
    OBVIOUS
  <2>3. h[1..(n + 1)] = AddLine(h[1..((n + 1) - 1)], text[n + 1])
    BY <2>2, <1>10
  <2>4. h[1..(n + 1)] = AddLine(h[1..n], text[n + 1])
    BY <2>2, <2>3
  <2> HIDE <2>3
  <2> QED
    BY <2>1, <2>4, LineAddsItems
<1>14. \A n \in Nat : n \in typed
  <2> HIDE DEF typed
  <2> QED
    BY <1>12, <1>13, AllNumbers
<1> DEFINE read == [n \in 0..Len(text) |-> h[1..n]]
<1>15. read \in [0..Len(text) -> Seq(WorkItems)] /\ read[0] = <<>>
  BY <1>1, <1>11, <1>14
<1>16. \A i \in 1..Len(text) : read[i] = AddLine(read[i - 1], text[i])
  BY <1>1, <1>10
<1>17. Items(text) = read[Len(text)]
  BY <1>1, <1>9
<1> QED
  BY <1>15, <1>16, <1>17 DEF Reading

\* A line more is read into the items of those before.
LEMMA ItemsOneMore ==
  ASSUME NEW text \in Seq(Lines), NEW x \in Lines
  PROVE  /\ Items(text) \in Seq(WorkItems)
         /\ Items(Append(text, x)) = AddLine(Items(text), x)
<1> DEFINE more == Append(text, x)
<1>1. PICK a : Reading(text, a) /\ Items(text) = a[Len(text)]
  BY ReadingExists
<1>2. more \in Seq(Lines)
  OBVIOUS
<1>3. PICK b : Reading(more, b) /\ Items(more) = b[Len(more)]
  <2> HIDE DEF more
  <2> QED
    BY <1>2, ReadingExists
<1>4. Len(more) = Len(text) + 1 /\ more[Len(text) + 1] = x /\ \A i \in 1..Len(text) : more[i] = text[i]
  OBVIOUS
<1>5. Len(text) \in Nat
  OBVIOUS
<1> HIDE DEF more
<1> DEFINE same == {n \in Nat : n <= Len(text) => a[n] = b[n]}
<1>6. 0 \in same
  BY <1>1, <1>3 DEF Reading
<1>7. ASSUME NEW n \in Nat, n \in same PROVE n + 1 \in same
  <2> SUFFICES ASSUME n + 1 <= Len(text) PROVE a[n + 1] = b[n + 1]
    OBVIOUS
  <2>1. a[n] = b[n] /\ more[n + 1] = text[n + 1] /\ n + 1 \in 1..Len(text) /\ n + 1 \in 1..Len(more)
    BY <1>4, <1>5, <1>7
  <2>2. (n + 1) - 1 = n
    OBVIOUS
  <2> QED
    BY <1>1, <1>3, <2>1, <2>2 DEF Reading
<1>8. \A n \in Nat : n \in same
  <2> HIDE DEF same
  <2> QED
    BY <1>6, <1>7, AllNumbers
<1>9. a[Len(text)] = b[Len(text)] /\ a[Len(text)] \in Seq(WorkItems)
  BY <1>1, <1>5, <1>8 DEF Reading
<1>10. b[Len(text) + 1] = AddLine(b[Len(text)], x)
  <2>1. Len(text) + 1 \in 1..Len(more) /\ (Len(text) + 1) - 1 = Len(text)
    BY <1>4, <1>5
  <2> QED
    BY <1>3, <1>4, <2>1 DEF Reading
<1> QED
  BY <1>1, <1>3, <1>4, <1>9, <1>10 DEF more

\* A text without lines has no items.
LEMMA NoItems == Items(<<>>) = <<>>
<1> DEFINE e == <<>>
<1>1. e \in Seq(Lines) /\ Len(e) = 0
  OBVIOUS
<1> HIDE DEF e
<1>2. PICK read : Reading(e, read) /\ Items(e) = read[Len(e)]
  BY <1>1, ReadingExists
<1> QED
  BY <1>1, <1>2 DEF Reading, e

\* Notes add nothing to what is read.
LEMMA ManagedOnly ==
  ASSUME NEW text \in Seq(Lines)
  PROVE  /\ Selected(text, ManagedLines) \in Seq(Lines)
         /\ Items(Selected(text, ManagedLines)) = Items(text)
<1> DEFINE B(n) == SubSeq(text, 1, n)
           R(n) == Selected(B(n), ManagedLines)
           same == {n \in Nat : n <= Len(text) => R(n) \in Seq(Lines) /\ Items(R(n)) = Items(B(n))}
<1>1. Len(text) \in Nat /\ B(0) = <<>> /\ B(Len(text)) = text
  BY Beginnings
<1>2. 0 \in same
  <2> DEFINE e == B(0)
  <2>1. e \in Seq(Lines) /\ Len(e) = 0
    BY <1>1
  <2> HIDE DEF e
  <2>2. e \in Seq(Lines) /\ \A k \in 1..Len(e) : e[k] \notin ManagedLines
    BY <2>1
  <2>3. Selected(e, ManagedLines) = <<>>
    BY <2>2, SelectedWholly
  <2>4. R(0) = <<>> /\ B(0) = <<>>
    BY <2>3, <1>1 DEF e
  <2> HIDE DEF R, B
  <2>5. R(0) \in Seq(Lines) /\ Items(R(0)) = Items(B(0))
    <3>1. <<>> \in Seq(Lines)
      OBVIOUS
    <3> QED
      BY <2>4, <3>1
  <2> QED
    BY <2>5
<1>3. ASSUME NEW n \in Nat, n \in same PROVE n + 1 \in same
  <2> SUFFICES ASSUME n + 1 <= Len(text)
               PROVE  R(n + 1) \in Seq(Lines) /\ Items(R(n + 1)) = Items(B(n + 1))
    OBVIOUS
  <2>1. n < Len(text) /\ n \in 0..Len(text)
    BY <1>1
  <2> DEFINE p == B(n)
             q == B(n + 1)
             x == text[n + 1]
             r == R(n)
  <2>2. p \in Seq(Lines) /\ q = Append(p, x) /\ x \in Lines
    BY <2>1, Beginnings
  <2>3. r = Selected(p, ManagedLines) /\ r \in Seq(Lines) /\ Items(r) = Items(p)
    BY <1>3, <2>1
  <2>4. R(n + 1) = Selected(q, ManagedLines)
    OBVIOUS
  <2> HIDE DEF p, q, x, r, R
  <2>5. p \in Seq(Lines) /\ x \in Lines
    BY <2>2
  <2>6. Selected(Append(p, x), ManagedLines) =
          IF x \in ManagedLines THEN Append(Selected(p, ManagedLines), x) ELSE Selected(p, ManagedLines)
    BY <2>5, SelectedOneMore
  <2>7. Items(Append(p, x)) = AddLine(Items(p), x)
    BY <2>5, ItemsOneMore
  <2>8. CASE x \in ManagedLines
    <3>1. R(n + 1) = Append(r, x)
      BY <2>2, <2>3, <2>4, <2>6, <2>8
    <3>2. r \in Seq(Lines)
      BY <2>3
    <3>3. Items(Append(r, x)) = AddLine(Items(r), x) /\ Append(r, x) \in Seq(Lines)
      BY <2>5, <3>2, ItemsOneMore
    <3> QED
      BY <3>1, <3>3, <2>2, <2>3, <2>7 DEF q
  <2>9. CASE x \notin ManagedLines
    <3>1. x.kind = "note"
      BY <2>5, <2>9, LineTyped
    <3>2. AddLine(Items(p), x) = Items(p)
      BY <3>1 DEF AddLine
    <3>3. R(n + 1) = r
      BY <2>2, <2>3, <2>4, <2>6, <2>9
    <3> QED
      BY <3>2, <3>3, <2>2, <2>3, <2>7 DEF q
  <2> QED
    BY <2>8, <2>9
<1>4. \A n \in Nat : n \in same
  <2> HIDE DEF same
  <2> QED
    BY <1>2, <1>3, AllNumbers
<1>5. R(Len(text)) \in Seq(Lines) /\ Items(R(Len(text))) = Items(B(Len(text)))
  BY <1>1, <1>4
<1> HIDE DEF B
<1> QED
  BY <1>1, <1>5

\* Managed lines that end with their line break.
WholeLines == {line \in ManagedLines : line.eol = TRUE}

\* The lines of an item are whole, and are read as one.
LEMMA ItemLinesRead ==
  ASSUME NEW s \in Seq(Lines), NEW item \in WorkItems
  PROVE  /\ ItemLines(item) \in Seq(WholeLines) /\ Len(ItemLines(item)) = Len(item.details) + 1
         /\ ItemLines(item)[1].kind = "item"
         /\ Items(s \o ItemLines(item)) = Append(Items(s), item)
<1> DEFINE L == ItemLines(item)
           D == item.details
           Up(d) == [item EXCEPT !.details = SubSeq(D, 1, d)]
           B(n) == SubSeq(L, 1, n)
<1>1. D \in Seq(Details) /\ Len(D) \in Nat /\ item.id \in Int /\ item.status \in Statuses /\ item.evidence \in SUBSET Evidence
  BY DEF WorkItems
<1>2. ItemLine(item) \in WholeLines /\ ItemLine(item).kind = "item"
  BY <1>1 DEF ItemLine, WholeLines, ManagedLines
<1>3. \A d \in 1..Len(D) : DetailLine(D[d]) \in WholeLines /\ DetailLine(D[d]).kind = "detail" /\ DetailLine(D[d]).entry = D[d]
  <2> TAKE d \in 1..Len(D)
  <2>1. D[d] \in Details
    BY <1>1
  <2>2. DetailLine(D[d]) = [kind |-> "detail", id |-> 0, entry |-> D[d], eol |-> TRUE]
    BY DEF DetailLine
  <2>3. DetailLine(D[d]) \in ManagedLines
    BY <2>1, <2>2 DEF ManagedLines, Details
  <2> QED
    BY <2>2, <2>3 DEF WholeLines
<1> DEFINE T == [d \in DOMAIN D |-> DetailLine(D[d])]
<1>4. T \in Seq(WholeLines) /\ Len(T) = Len(D) /\ \A d \in 1..Len(D) : T[d] = DetailLine(D[d])
  <2>1. DOMAIN D = 1..Len(D)
    BY <1>1
  <2> QED
    BY <1>1, <1>3, <2>1
<1>5. /\ L \in Seq(WholeLines) /\ Len(L) = Len(D) + 1 /\ L[1] = ItemLine(item)
      /\ \A d \in 1..Len(D) : L[d + 1] = DetailLine(D[d])
  <2> DEFINE h == ItemLine(item)
  <2>1. L = <<h>> \o T
    BY DEF ItemLines
  <2> HIDE DEF L, T, h, D
  <2>2. h \in WholeLines
    BY <1>2 DEF h
  <2> QED
    BY <2>1, <2>2, <1>1, <1>4 DEF h
<1> HIDE DEF L, T
<1>6. \A k \in 1..Len(L) : L[k] \in Lines
  <2>1. \A k \in 1..Len(L) : L[k] \in WholeLines
    BY <1>5
  <2> QED
    BY <2>1 DEF WholeLines, Lines
<1>7. L \in Seq(Lines)
  BY <1>5, <1>6
<1> DEFINE read == {d \in Nat : d <= Len(D) => Items(s \o B(d + 1)) = Append(Items(s), Up(d))}
<1>8. 0 \in read
  <2>1. B(1) = <<ItemLine(item)>>
    <3>1. Len(L) \in Nat /\ 0 < Len(L) /\ 0 \in Nat
      BY <1>1, <1>5
    <3>2. SubSeq(L, 1, 0) = <<>> /\ SubSeq(L, 1, 0 + 1) = Append(SubSeq(L, 1, 0), L[0 + 1])
      BY <3>1, <1>7, Beginnings
    <3> DEFINE y == ItemLine(item)
    <3>3. L[0 + 1] = y
      BY <1>5
    <3> HIDE DEF y
    <3>4. Append(<<>>, y) = <<y>>
      OBVIOUS
    <3>5. SubSeq(L, 1, 0 + 1) = <<y>>
      BY <3>2, <3>3, <3>4
    <3> QED
      BY <3>5 DEF y
  <2> DEFINE x == ItemLine(item)
  <2>2. x \in Lines
    BY <1>2 DEF WholeLines, Lines
  <2>3. Items(Append(s, x)) = AddLine(Items(s), x)
    <3> HIDE DEF x
    <3> QED
      BY <2>2, ItemsOneMore
  <2>4. AddLine(Items(s), x) = Append(Items(s), [id |-> item.id, status |-> item.status, evidence |-> item.evidence, details |-> <<>>])
    BY DEF AddLine, ItemLine
  <2>5. Up(0) = [id |-> item.id, status |-> item.status, evidence |-> item.evidence, details |-> <<>>]
    <3>1. SubSeq(D, 1, 0) = <<>>
      BY <1>1
    <3> QED
      BY <3>1 DEF WorkItems
  <2>6. B(1) = <<x>>
    BY <2>1
  <2> HIDE DEF B, Up, x
  <2>8. s \o B(1) = Append(s, x)
    <3>1. s \o <<x>> = Append(s, x)
      BY <2>2
    <3> QED
      BY <2>6, <3>1
  <2>9. B(0 + 1) = B(1)
    OBVIOUS
  <2>7. Items(s \o B(0 + 1)) = Append(Items(s), Up(0))
    BY <2>3, <2>4, <2>5, <2>8, <2>9
  <2> QED
    BY <2>7
<1>9. ASSUME NEW d \in Nat, d \in read PROVE d + 1 \in read
  <2> SUFFICES ASSUME d + 1 <= Len(D) PROVE Items(s \o B((d + 1) + 1)) = Append(Items(s), Up(d + 1))
    OBVIOUS
  <2>1. d + 1 \in 1..Len(D) /\ d <= Len(D) /\ d < Len(D) /\ d + 1 \in Nat /\ d + 1 < Len(L) /\ d + 1 \in 0..Len(L)
    BY <1>1, <1>5
  <2> DEFINE p == B(d + 1)
             q == B((d + 1) + 1)
             x == L[(d + 1) + 1]
  <2>2. p \in Seq(Lines) /\ q = Append(p, x) /\ x \in Lines
    BY <2>1, <1>7, Beginnings
  <2>3. Items(s \o p) = Append(Items(s), Up(d))
    BY <1>9, <2>1
  <2>4. x.kind = "detail" /\ x.entry = D[d + 1]
    BY <1>3, <1>5, <2>1
  <2> HIDE DEF p, q, x
  <2>5. s \o p \in Seq(Lines) /\ s \o q = Append(s \o p, x)
    BY <2>2
  <2>6. Items(s \o q) = AddLine(Items(s \o p), x)
    <3> DEFINE c == s \o p
    <3>1. c \in Seq(Lines) /\ x \in Lines
      BY <2>2, <2>5
    <3> HIDE DEF c
    <3>2. Items(Append(c, x)) = AddLine(Items(c), x)
      BY <3>1, ItemsOneMore
    <3> QED
      BY <3>2, <2>5 DEF c
  <2> DEFINE a == Items(s)
             u == Up(d)
             w == Append(a, u)
  <2>7. a \in Seq(WorkItems)
    BY <2>2, ItemsOneMore
  <2>8. u \in WorkItems /\ u.details = SubSeq(D, 1, d)
    <3>1. SubSeq(D, 1, d) \in Seq(Details)
      BY <1>1, <2>1, Beginnings
    <3> QED
      BY <3>1 DEF WorkItems
  <2>9. [u EXCEPT !.details = Append(@, x.entry)] = Up(d + 1)
    <3>1. SubSeq(D, 1, d + 1) = Append(SubSeq(D, 1, d), D[d + 1])
      BY <1>1, <2>1, Beginnings
    <3> DEFINE f == SubSeq(D, 1, d)
               g == SubSeq(D, 1, d + 1)
    <3>2. g = Append(f, x.entry)
      BY <3>1, <2>4
    <3> HIDE DEF f, g
    <3>3. Up(d + 1) = [item EXCEPT !.details = g] /\ u = [item EXCEPT !.details = f]
      BY DEF f, g
    <3> HIDE DEF Up, u
    <3> QED
      BY <3>2, <3>3 DEF WorkItems
  <2> HIDE DEF a, u
  <2>10. w # <<>> /\ Front(w) = a /\ Last(w) = u
    BY <2>7, <2>8 DEF Front, Last
  <2>11. AddLine(w, x) = Append(a, [u EXCEPT !.details = Append(@, x.entry)])
    <3> HIDE DEF w
    <3> QED
      BY <2>4, <2>10 DEF AddLine
  <2> HIDE DEF Up, B
  <2>12. Items(s \o p) = w
    BY <2>3 DEF a, u
  <2> QED
    BY <2>6, <2>9, <2>11, <2>12 DEF a, q
<1>10. \A d \in Nat : d \in read
  <2> HIDE DEF read
  <2> QED
    BY <1>8, <1>9, AllNumbers
<1>11. Items(s \o B(Len(D) + 1)) = Append(Items(s), Up(Len(D)))
  <2>1. Len(D) \in read
    BY <1>1, <1>10
  <2> HIDE DEF B, Up
  <2> QED
    BY <2>1, <1>1
<1>12. B(Len(D) + 1) = L
  BY <1>5
<1>13. Up(Len(D)) = item
  <2>1. SubSeq(D, 1, Len(D)) = D
    BY <1>1
  <2> QED
    BY <2>1 DEF WorkItems
<1> HIDE DEF B, Up
<1>14. L[1].kind = "item"
  BY <1>2, <1>5
<1> QED
  BY <1>5, <1>11, <1>12, <1>13, <1>14 DEF L

\* Lines that are managed and end with their break are lines, and all of them are managed.
LEMMA WholeAreLines ==
  ASSUME NEW seq \in Seq(WholeLines)
  PROVE  /\ seq \in Seq(Lines) /\ Selected(seq, ManagedLines) = seq
         /\ \A k \in 1..Len(seq) : seq[k] \in ManagedLines /\ seq[k].eol = TRUE
<1>1. \A k \in 1..Len(seq) : seq[k] \in WholeLines
  OBVIOUS
<1>2. \A k \in 1..Len(seq) : seq[k] \in ManagedLines /\ seq[k].eol = TRUE /\ seq[k] \in Lines
  BY <1>1 DEF WholeLines, Lines
<1>3. seq \in Seq(Lines)
  BY <1>2
<1>4. Selected(seq, ManagedLines) = seq
  BY <1>2, <1>3, SelectedWholly
<1> QED
  BY <1>2, <1>3, <1>4

\* A document is read as it was written.
LEMMA EntryLinesRead ==
  ASSUME NEW items \in Seq(WorkItems)
  PROVE  /\ EntryLines(items) \in Seq(WholeLines) /\ Items(EntryLines(items)) = items
         /\ EntryLines(items) # <<>> => EntryLines(items)[1].kind = "item"
<1> DEFINE ss == [i \in DOMAIN items |-> ItemLines(items[i])]
<1>1. Len(items) \in Nat /\ DOMAIN items = 1..Len(items) /\ \A i \in 1..Len(items) : items[i] \in WorkItems
  OBVIOUS
<1>2. \A i \in 1..Len(items) : ItemLines(items[i]) \in Seq(WholeLines) /\ Len(ItemLines(items[i])) > 0 /\ ItemLines(items[i])[1].kind = "item"
  <2> TAKE i \in 1..Len(items)
  <2> DEFINE it == items[i]
             e == <<>>
  <2>1. it \in WorkItems /\ e \in Seq(Lines)
    BY <1>1
  <2>2. Len(it.details) \in Nat
    <3> HIDE DEF it
    <3> QED
      BY <2>1 DEF WorkItems
  <2> HIDE DEF it, e
  <2>3. ItemLines(it) \in Seq(WholeLines) /\ Len(ItemLines(it)) = Len(it.details) + 1 /\ ItemLines(it)[1].kind = "item"
    BY <2>1, ItemLinesRead
  <2> QED
    BY <2>2, <2>3 DEF it
<1>3. ss \in Seq(Seq(WholeLines)) /\ Len(ss) = Len(items) /\ \A i \in 1..Len(items) : ss[i] = ItemLines(items[i])
  BY <1>1, <1>2
<1>4. EntryLines(items) = FlattenSeq(ss)
  BY DEF EntryLines
<1> HIDE DEF ss
<1>5. PICK flat : Flattening(WholeLines, ss, flat) /\ FlattenSeq(ss) = flat[Len(ss)]
  BY <1>3, FlattenRecursion
<1> DEFINE Fits(n) == Items(flat[n]) = SubSeq(items, 1, n) /\ (flat[n] # <<>> => flat[n][1].kind = "item")
           read == {n \in Nat : n <= Len(items) => Fits(n)}
<1>6. 0 \in read
  <2>1. flat[0] = <<>> /\ SubSeq(items, 1, 0) = <<>>
    BY <1>5, Beginnings DEF Flattening
  <2> QED
    BY <2>1, NoItems
<1>7. ASSUME NEW n \in Nat, n \in read PROVE n + 1 \in read
  <2> SUFFICES ASSUME n + 1 <= Len(items) PROVE Fits(n + 1)
    OBVIOUS
  <2>1. n + 1 \in 1..Len(items) /\ (n + 1) - 1 = n /\ n < Len(items) /\ n \in 0..Len(items) /\ n + 1 \in 1..Len(ss)
    BY <1>1, <1>3
  <2> DEFINE f == flat[n]
             it == items[n + 1]
             g == ItemLines(it)
             p == SubSeq(items, 1, n)
  <2>2. flat[n + 1] = f \o g
    BY <1>3, <1>5, <2>1 DEF Flattening
  <2>3. f \in Seq(WholeLines)
    BY <1>3, <1>5, <2>1 DEF Flattening
  <2>4. Items(f) = p /\ (f # <<>> => f[1].kind = "item")
    BY <1>7, <2>1
  <2>5. it \in WorkItems /\ g \in Seq(WholeLines) /\ Len(g) > 0 /\ g[1].kind = "item"
    BY <1>1, <1>2, <2>1
  <2>6. SubSeq(items, 1, n + 1) = Append(p, it)
    BY <2>1, Beginnings
  <2> HIDE DEF f, p, it
  <2>7. f \in Seq(Lines)
    BY <2>3, WholeAreLines
  <2>8. Items(f \o g) = Append(Items(f), it)
    BY <2>5, <2>7, ItemLinesRead
  <2> HIDE DEF g
  <2>9. (f \o g)[1] = IF f = <<>> THEN g[1] ELSE f[1]
    BY <2>3, <2>5
  <2>10. (f \o g)[1].kind = "item"
    BY <2>4, <2>5, <2>9
  <2> QED
    BY <2>2, <2>4, <2>6, <2>8, <2>10
<1>8. \A n \in Nat : n \in read
  <2> HIDE DEF read
  <2> QED
    BY <1>6, <1>7, AllNumbers
<1>9. Fits(Len(items)) /\ flat[Len(items)] \in Seq(WholeLines)
  <2>1. Len(items) \in read
    BY <1>1, <1>8
  <2>2. Fits(Len(items))
    BY <1>1, <2>1
  <2>3. flat[Len(items)] \in Seq(WholeLines)
    BY <1>1, <1>3, <1>5 DEF Flattening
  <2> QED
    BY <2>2, <2>3
<1>10. SubSeq(items, 1, Len(items)) = items
  BY Beginnings
<1> QED
  BY <1>3, <1>4, <1>5, <1>9, <1>10

\* The lines of a file that is read as the items.
Reads(text, items) ==
  /\ text \in Seq(Lines) /\ text # <<>> /\ text[1] = NoteLine(0)
  /\ items \in Seq(WorkItems) /\ ValidItems(items)
  /\ Selected(text, ManagedLines) = EntryLines(items)

\* The managed lines of a text stand at growing places, and at no others.
LEMMA ManagedPositions ==
  ASSUME NEW text \in Seq(Lines)
  PROVE  \E pos \in [1..Len(Selected(text, ManagedLines)) -> 1..Len(text)] :
           /\ \A i, j \in DOMAIN pos : i < j => pos[i] < pos[j]
           /\ \A i \in DOMAIN pos : Selected(text, ManagedLines)[i] = text[pos[i]] /\ text[pos[i]] \in ManagedLines
           /\ \A m \in 1..Len(text) : text[m] \in ManagedLines => \E i \in DOMAIN pos : pos[i] = m
<1> DEFINE M == ManagedLines
           L == Lines
<1>1. text \in Seq(L)
  OBVIOUS
<1> HIDE DEF M, L
<1>2. \E pos \in [1..Len(Selected(text, M)) -> 1..Len(text)] :
        /\ \A i, j \in DOMAIN pos : i < j => pos[i] < pos[j]
        /\ \A i \in DOMAIN pos : Selected(text, M)[i] = text[pos[i]] /\ text[pos[i]] \in M
        /\ \A m \in 1..Len(text) : text[m] \in M => \E i \in DOMAIN pos : pos[i] = m
  BY <1>1, SelectedPositions
<1> QED
  BY <1>2, Zenon DEF M

\* A text that reads as the items parses as them.
LEMMA ReadsParse ==
  ASSUME NEW text, NEW items, Reads(text, items)
  PROVE  Parse(text) = items
<1>1. text \in Seq(Lines) /\ items \in Seq(WorkItems) /\ ValidItems(items) /\ Selected(text, ManagedLines) = EntryLines(items)
  BY DEF Reads
<1>2. Items(text) = items
  <2>1. Items(Selected(text, ManagedLines)) = Items(text)
    BY <1>1, ManagedOnly
  <2>2. Items(EntryLines(items)) = items
    BY <1>1, EntryLinesRead
  <2> QED
    BY <2>1, <2>2, <1>1
<1>3. \A k \in DOMAIN text : text[k] \in Lines
  BY <1>1
<1>4. \A k \in DOMAIN text : text[k].kind # "refused"
  BY <1>3, LineTyped
<1>5. ASSUME NEW k \in DOMAIN text, text[k].kind = "detail"
      PROVE  \E j \in 1..(k - 1) : text[j].kind = "item"
  <2> DEFINE R == Selected(text, ManagedLines)
  <2>1. PICK pos \in [1..Len(R) -> 1..Len(text)] :
           /\ \A i, j \in DOMAIN pos : i < j => pos[i] < pos[j]
           /\ \A i \in DOMAIN pos : R[i] = text[pos[i]] /\ text[pos[i]] \in ManagedLines
           /\ \A m \in 1..Len(text) : text[m] \in ManagedLines => \E i \in DOMAIN pos : pos[i] = m
    BY <1>1, ManagedPositions, Zenon
  <2>2. k \in 1..Len(text) /\ text[k] \in ManagedLines
    BY <1>1, <1>3, <1>5, LineTyped
  <2>3. PICK i \in 1..Len(R) : pos[i] = k
    BY <2>1, <2>2
  <2>4. R \in Seq(WholeLines) /\ R # <<>> /\ R[1].kind = "item"
    <3>1. R = EntryLines(items)
      BY <1>1
    <3>2. R \in Seq(WholeLines) /\ (R # <<>> => R[1].kind = "item")
      BY <1>1, <3>1, EntryLinesRead
    <3> HIDE DEF R
    <3>3. R # <<>>
      BY <2>3
    <3> QED
      BY <3>2, <3>3
  <2> HIDE DEF R
  <2>5. 1 \in 1..Len(R) /\ Len(R) \in Nat
    BY <2>3, <2>4
  <2>6. R[1] = text[pos[1]] /\ R[i] = text[k]
    BY <2>1, <2>3, <2>5
  <2>7. i # 1
    BY <2>4, <2>6, <1>5
  <2>8. pos[1] < pos[i] /\ pos[1] \in 1..Len(text)
    BY <2>1, <2>3, <2>5, <2>7
  <2>9. pos[1] \in 1..(k - 1) /\ text[pos[1]].kind = "item"
    BY <2>2, <2>3, <2>4, <2>6, <2>8, <1>1
  <2> QED
    BY <2>9
<1>6. WellFormedTodo(text)
  BY <1>4, <1>5 DEF WellFormedTodo
<1> QED
  BY <1>1, <1>2, <1>6 DEF Parse

\* A note's line is a line, not a managed one, and ends with its break.
LEMMA NoteTyped ==
  ASSUME NEW n \in Nat
  PROVE  NoteLine(n) \in Lines /\ NoteLine(n) \notin ManagedLines /\ NoteLine(n).kind = "note"
         /\ NoteLine(n).id = n /\ NoteLine(n).eol = TRUE
<1>1. NoteLine(n) = [kind |-> "note", id |-> n, entry |-> [status |-> "pending", evidence |-> {}], eol |-> TRUE]
  BY DEF NoteLine, Detail
<1>2. [status |-> "pending", evidence |-> {}] \in Details
  BY DEF Details, Statuses
<1> QED
  BY <1>1, <1>2 DEF Lines, ManagedLines

\* A file that is written anew is read as the document.
LEMMA RenderReads ==
  ASSUME NEW items \in Seq(WorkItems), ValidItems(items)
  PROVE  Reads(Render(items), items)
<1> DEFINE h == NoteLine(0)
           a == <<h>>
           b == EntryLines(items)
<1>1. h \in Lines /\ h \notin ManagedLines
  BY NoteTyped
<1>2. b \in Seq(WholeLines)
  BY EntryLinesRead
<1> HIDE DEF h, b
<1>3. b \in Seq(Lines) /\ Selected(b, ManagedLines) = b
  BY <1>2, WholeAreLines
<1>4. a \in Seq(Lines) /\ Len(a) = 1 /\ \A k \in 1..Len(a) : a[k] \notin ManagedLines
  BY <1>1
<1> HIDE DEF a
<1>5. Selected(a, ManagedLines) = <<>>
  BY <1>4, SelectedWholly
<1>6. Selected(a \o b, ManagedLines) = Selected(a, ManagedLines) \o Selected(b, ManagedLines)
  <2>1. a \in Seq(Lines) /\ b \in Seq(Lines)
    BY <1>3, <1>4
  <2> QED
    BY <2>1, SelectedConcat
<1>7. <<>> \o b = b
  BY <1>3
<1>8. a \o b \in Seq(Lines) /\ a \o b # <<>> /\ (a \o b)[1] = h
  BY <1>1, <1>3, <1>4 DEF a
<1>9. Render(items) = a \o b
  BY DEF Render, a, b, h
<1> QED
  BY <1>3, <1>5, <1>6, <1>7, <1>8, <1>9 DEF Reads, b, h

\* How many managed lines there are up to a line.
Rank(text, k) == Len(Selected(SubSeq(text, 1, k), ManagedLines))

\* The rank of a line is the number of managed lines up to it.
LEMMA RankGrows ==
  ASSUME NEW text \in Seq(Lines)
  PROVE  /\ Rank(text, 0) = 0 /\ \A k \in 0..Len(text) : Rank(text, k) \in 0..k
         /\ \A k \in Nat : k < Len(text) =>
              Rank(text, k + 1) = IF text[k + 1] \in ManagedLines THEN Rank(text, k) + 1 ELSE Rank(text, k)
<1>1. Len(text) \in Nat /\ 0 \in 0..Len(text)
  OBVIOUS
<1>2. \A k \in 0..Len(text) : Rank(text, k) \in 0..k
  BY SelectedCount DEF Rank
<1>3. Rank(text, 0) = 0
  BY <1>1, <1>2
<1>4. ASSUME NEW k \in Nat, k < Len(text)
      PROVE  Rank(text, k + 1) = IF text[k + 1] \in ManagedLines THEN Rank(text, k) + 1 ELSE Rank(text, k)
  <2> DEFINE p == SubSeq(text, 1, k)
             q == SubSeq(text, 1, k + 1)
             x == text[k + 1]
             r == Selected(p, ManagedLines)
  <2>1. k \in 0..Len(text)
    BY <1>1, <1>4
  <2>2. p \in Seq(Lines) /\ q = Append(p, x) /\ x \in Lines
    BY <1>4, <2>1, Beginnings
  <2>3. Rank(text, k) = Len(r) /\ Rank(text, k + 1) = Len(Selected(q, ManagedLines))
    BY DEF Rank
  <2> HIDE DEF p, q, x
  <2>4. Selected(Append(p, x), ManagedLines) = IF x \in ManagedLines THEN Append(r, x) ELSE r
    <3>1. p \in Seq(Lines) /\ x \in Lines
      BY <2>2
    <3> QED
      BY <3>1, SelectedOneMore
  <2>5. r \in Seq(Lines)
    BY <2>2, SelectedOnce
  <2> HIDE DEF r
  <2>6. Len(Append(r, x)) = Len(r) + 1
    BY <2>2, <2>5
  <2> QED
    BY <2>2, <2>3, <2>4, <2>6 DEF x
<1> QED
  BY <1>2, <1>3, <1>4

\* What a line is rewritten to if managed lines are whole.
LEMMA RewrittenIs ==
  ASSUME NEW line \in Lines, NEW desired \in Seq(WholeLines), NEW rank \in Nat,
         line \in ManagedLines => line.eol = TRUE /\ rank > 0
  PROVE  Rewritten(line, desired, rank) =
           IF line \notin ManagedLines THEN <<line>>
           ELSE IF rank <= Len(desired) THEN <<desired[rank]>> ELSE <<>>
<1>1. ASSUME line \in ManagedLines, rank <= Len(desired)
      PROVE  [desired[rank] EXCEPT !.eol = line.eol] = desired[rank]
  <2> DEFINE d == desired[rank]
  <2>1. d \in WholeLines
    BY <1>1
  <2>2. line.eol = TRUE
    BY <1>1
  <2> HIDE DEF d
  <2>3. [d EXCEPT !.eol = TRUE] = d
    BY <2>1 DEF WholeLines, ManagedLines
  <2> QED
    BY <2>2, <2>3 DEF d
<1> QED
  BY <1>1 DEF Rewritten

\* The beginning of a file whose lines have been rewritten up to one.
RewrittenUpTo(text, desired, n, done) ==
  /\ done \in Seq(Lines)
  /\ Selected(done, ManagedLines) =
       SubSeq(desired, 1, IF Rank(text, n) <= Len(desired) THEN Rank(text, n) ELSE Len(desired))
  /\ IF n = 0 THEN done = <<>> ELSE done # <<>> /\ done[1] = text[1]
  /\ \A k \in 1..n : text[k] \notin ManagedLines => text[k] \in ToSet(done)

\* One more line: what it adds to the managed lines and to the text's lines.
LEMMA LineSelected ==
  \A done \in Seq(Lines), y \in Lines :
    /\ Append(done, y) \in Seq(Lines) /\ done \o <<y>> = Append(done, y)
    /\ Selected(Append(done, y), ManagedLines) =
         IF y \in ManagedLines THEN Append(Selected(done, ManagedLines), y) ELSE Selected(done, ManagedLines)
    /\ ToSet(Append(done, y)) = ToSet(done) \union {y}
    /\ Append(done, y) # <<>>
    /\ IF done = <<>> THEN Append(done, y)[1] = y ELSE Append(done, y)[1] = done[1]
<1> TAKE done \in Seq(Lines), y \in Lines
<1>1. Append(done, y) \in Seq(Lines) /\ done \o <<y>> = Append(done, y) /\ Append(done, y) # <<>>
  OBVIOUS
<1>2. Selected(Append(done, y), ManagedLines) =
        IF y \in ManagedLines THEN Append(Selected(done, ManagedLines), y) ELSE Selected(done, ManagedLines)
  BY SelectedOneMore
<1>3. ToSet(Append(done, y)) = ToSet(done) \union {y}
  BY ToSetOfAppend
<1>4. IF done = <<>> THEN Append(done, y)[1] = y ELSE Append(done, y)[1] = done[1]
  OBVIOUS
<1> QED
  BY <1>1, <1>2, <1>3, <1>4

\* A line more that is kept, or rewritten to one of the document's.
LEMMA RewrittenAppends ==
  ASSUME NEW text \in Seq(Lines), NEW desired \in Seq(WholeLines), NEW n \in Nat, n < Len(text),
         text[1] \notin ManagedLines,
         NEW done, RewrittenUpTo(text, desired, n, done),
         NEW y \in Lines,
         \/ text[n + 1] \notin ManagedLines /\ y = text[n + 1]
         \/ /\ text[n + 1] \in ManagedLines /\ Rank(text, n) < Len(desired)
            /\ y = desired[Rank(text, n) + 1]
  PROVE  RewrittenUpTo(text, desired, n + 1, Append(done, y))
<1>1. n + 1 \in 1..Len(text) /\ n \in 0..Len(text) /\ Len(desired) \in Nat
      /\ \A k \in 1..(n + 1) : k = n + 1 \/ k \in 1..n
  OBVIOUS
<1>2. /\ done \in Seq(Lines)
      /\ Selected(done, ManagedLines) =
           SubSeq(desired, 1, IF Rank(text, n) <= Len(desired) THEN Rank(text, n) ELSE Len(desired))
      /\ IF n = 0 THEN done = <<>> ELSE done # <<>> /\ done[1] = text[1]
      /\ \A k \in 1..n : text[k] \notin ManagedLines => text[k] \in ToSet(done)
  BY DEF RewrittenUpTo
<1>3. Rank(text, n) \in Nat /\ Rank(text, 0) = 0
      /\ Rank(text, n + 1) = IF text[n + 1] \in ManagedLines THEN Rank(text, n) + 1 ELSE Rank(text, n)
  BY <1>1, RankGrows
<1>4. /\ Append(done, y) \in Seq(Lines) /\ Append(done, y) # <<>>
      /\ Selected(Append(done, y), ManagedLines) =
           IF y \in ManagedLines THEN Append(Selected(done, ManagedLines), y) ELSE Selected(done, ManagedLines)
      /\ ToSet(Append(done, y)) = ToSet(done) \union {y}
      /\ IF done = <<>> THEN Append(done, y)[1] = y ELSE Append(done, y)[1] = done[1]
  BY <1>2, LineSelected
<1>5. Selected(Append(done, y), ManagedLines) =
        SubSeq(desired, 1, IF Rank(text, n + 1) <= Len(desired) THEN Rank(text, n + 1) ELSE Len(desired))
  <2>1. CASE text[n + 1] \notin ManagedLines
    BY <2>1, <1>2, <1>3, <1>4
  <2>2. CASE text[n + 1] \in ManagedLines
    <3>1. Rank(text, n) < Len(desired) /\ y = desired[Rank(text, n) + 1] /\ Rank(text, n + 1) = Rank(text, n) + 1
      BY <2>2, <1>3
    <3>2. SubSeq(desired, 1, Rank(text, n) + 1) =
            Append(SubSeq(desired, 1, Rank(text, n)), desired[Rank(text, n) + 1])
          /\ desired[Rank(text, n) + 1] \in WholeLines
      BY <1>3, <3>1, Beginnings
    <3>3. y \in ManagedLines
      BY <3>1, <3>2 DEF WholeLines
    <3>4. Selected(Append(done, y), ManagedLines) = Append(SubSeq(desired, 1, Rank(text, n)), y)
      BY <1>1, <1>2, <1>3, <1>4, <3>1, <3>3
    <3>5. Rank(text, n + 1) <= Len(desired)
      BY <1>1, <1>3, <3>1
    <3> QED
      BY <3>1, <3>2, <3>4, <3>5
  <2> QED
    BY <2>1, <2>2
<1>6. Append(done, y)[1] = text[1]
  <2>1. CASE n = 0
    BY <2>1, <1>2, <1>4
  <2>2. CASE n # 0
    BY <2>2, <1>2, <1>4
  <2> QED
    BY <2>1, <2>2
<1>7. \A k \in 1..(n + 1) : text[k] \notin ManagedLines => text[k] \in ToSet(Append(done, y))
  BY <1>1, <1>2, <1>4
<1>8. n + 1 # 0
  OBVIOUS
<1> QED
  BY <1>4, <1>5, <1>6, <1>7, <1>8 DEF RewrittenUpTo

\* A line more that is left out.
LEMMA RewrittenDrops ==
  ASSUME NEW text \in Seq(Lines), NEW desired \in Seq(WholeLines), NEW n \in Nat, n < Len(text),
         text[1] \notin ManagedLines,
         NEW done, RewrittenUpTo(text, desired, n, done),
         text[n + 1] \in ManagedLines, ~ Rank(text, n) < Len(desired)
  PROVE  RewrittenUpTo(text, desired, n + 1, done)
<1>1. n + 1 \in 1..Len(text) /\ n \in 0..Len(text) /\ Len(desired) \in Nat
      /\ \A k \in 1..(n + 1) : k = n + 1 \/ k \in 1..n
  OBVIOUS
<1>2. /\ done \in Seq(Lines)
      /\ Selected(done, ManagedLines) =
           SubSeq(desired, 1, IF Rank(text, n) <= Len(desired) THEN Rank(text, n) ELSE Len(desired))
      /\ IF n = 0 THEN done = <<>> ELSE done # <<>> /\ done[1] = text[1]
      /\ \A k \in 1..n : text[k] \notin ManagedLines => text[k] \in ToSet(done)
  BY DEF RewrittenUpTo
<1>3. Rank(text, n) \in Nat /\ Rank(text, n + 1) = Rank(text, n) + 1
  BY <1>1, RankGrows
<1>4. n # 0 /\ n + 1 # 0
  OBVIOUS
<1>5. Selected(done, ManagedLines) =
        SubSeq(desired, 1, IF Rank(text, n + 1) <= Len(desired) THEN Rank(text, n + 1) ELSE Len(desired))
  <2>1. ~ Rank(text, n + 1) <= Len(desired) /\ (Rank(text, n) <= Len(desired) => Rank(text, n) = Len(desired))
    BY <1>1, <1>3
  <2> QED
    BY <1>2, <2>1
<1>6. \A k \in 1..(n + 1) : text[k] \notin ManagedLines => text[k] \in ToSet(done)
  BY <1>1, <1>2
<1> QED
  BY <1>2, <1>4, <1>5, <1>6 DEF RewrittenUpTo

\* The next line rewritten extends what the lines before it were rewritten to.
LEMMA RewrittenOneMore ==
  ASSUME NEW text \in Seq(Lines), NEW desired \in Seq(WholeLines), NEW n \in Nat, n < Len(text),
         \A k \in 1..Len(text) : text[k] \in ManagedLines => text[k].eol = TRUE,
         text[1] \notin ManagedLines,
         NEW done, RewrittenUpTo(text, desired, n, done)
  PROVE  RewrittenUpTo(text, desired, n + 1, done \o Rewritten(text[n + 1], desired, Rank(text, n + 1)))
<1>1. n + 1 \in 1..Len(text) /\ n \in 0..Len(text) /\ Len(desired) \in Nat /\ text[n + 1] \in Lines
  OBVIOUS
<1>2. done \in Seq(Lines)
  BY DEF RewrittenUpTo
<1>3. Rank(text, n) \in Nat
      /\ Rank(text, n + 1) = IF text[n + 1] \in ManagedLines THEN Rank(text, n) + 1 ELSE Rank(text, n)
  BY <1>1, RankGrows
<1>4. Rewritten(text[n + 1], desired, Rank(text, n + 1)) =
        IF text[n + 1] \notin ManagedLines THEN <<text[n + 1]>>
        ELSE IF Rank(text, n + 1) <= Len(desired) THEN <<desired[Rank(text, n + 1)]>> ELSE <<>>
  <2>1. Rank(text, n + 1) \in Nat /\ (text[n + 1] \in ManagedLines => text[n + 1].eol = TRUE /\ Rank(text, n + 1) > 0)
    BY <1>1, <1>3
  <2> QED
    BY <1>1, <2>1, RewrittenIs
<1>5. CASE text[n + 1] \notin ManagedLines
  <2>1. RewrittenUpTo(text, desired, n + 1, Append(done, text[n + 1]))
    BY <1>1, <1>5, RewrittenAppends
  <2>2. done \o <<text[n + 1]>> = Append(done, text[n + 1])
    BY <1>1, <1>2, LineSelected
  <2> QED
    BY <1>4, <1>5, <2>1, <2>2
<1>6. CASE text[n + 1] \in ManagedLines /\ Rank(text, n) < Len(desired)
  <2> DEFINE y == desired[Rank(text, n) + 1]
  <2>1. y \in WholeLines /\ Rank(text, n + 1) = Rank(text, n) + 1 /\ Rank(text, n + 1) <= Len(desired)
    BY <1>1, <1>3, <1>6
  <2>2. y \in Lines
    BY <2>1 DEF WholeLines, Lines
  <2>3. RewrittenUpTo(text, desired, n + 1, Append(done, y))
    BY <2>2, <1>6, RewrittenAppends
  <2>4. done \o <<y>> = Append(done, y)
    BY <2>2, <1>2, LineSelected
  <2>5. Rewritten(text[n + 1], desired, Rank(text, n + 1)) = <<y>>
    BY <1>4, <1>6, <2>1
  <2> HIDE DEF y
  <2> QED
    BY <2>3, <2>4, <2>5
<1>7. CASE text[n + 1] \in ManagedLines /\ ~ Rank(text, n) < Len(desired)
  <2>1. RewrittenUpTo(text, desired, n + 1, done)
    BY <1>7, RewrittenDrops
  <2>2. ~ Rank(text, n + 1) <= Len(desired)
    BY <1>1, <1>3, <1>7
  <2>3. done \o <<>> = done
    BY <1>2
  <2>4. Rewritten(text[n + 1], desired, Rank(text, n + 1)) = <<>>
    BY <1>4, <1>7, <2>2
  <2> QED
    BY <2>1, <2>3, <2>4
<1> QED
  BY <1>5, <1>6, <1>7

\* What the lines of a file are rewritten to, each by itself.
Kept(text, desired) == [k \in DOMAIN text |-> Rewritten(text[k], desired, Rank(text, k))]

\* What each line of the text is rewritten to.
LEMMA KeptTyped ==
  ASSUME NEW text \in Seq(Lines), NEW desired \in Seq(WholeLines),
         \A k \in 1..Len(text) : text[k] \in ManagedLines => text[k].eol = TRUE
  PROVE  /\ Kept(text, desired) \in Seq(Seq(Lines)) /\ Len(Kept(text, desired)) = Len(text)
         /\ \A k \in 1..Len(text) :
              /\ Kept(text, desired)[k] = Rewritten(text[k], desired, Rank(text, k))
              /\ text[k] \notin ManagedLines => Kept(text, desired)[k] = <<text[k]>>
              /\ text[k] \in ManagedLines /\ Rank(text, k) <= Len(desired) =>
                   Kept(text, desired)[k] = <<desired[Rank(text, k)]>>
                   /\ desired[Rank(text, k)] \in WholeLines
<1>1. Len(text) \in Nat /\ DOMAIN text = 1..Len(text) /\ Len(desired) \in Nat
  OBVIOUS
<1>2. \A k \in 1..Len(text) : Kept(text, desired)[k] = Rewritten(text[k], desired, Rank(text, k))
  BY <1>1 DEF Kept
<1>3. ASSUME NEW k \in 1..Len(text)
      PROVE  /\ Rewritten(text[k], desired, Rank(text, k)) \in Seq(Lines)
             /\ text[k] \notin ManagedLines => Rewritten(text[k], desired, Rank(text, k)) = <<text[k]>>
             /\ text[k] \in ManagedLines /\ Rank(text, k) <= Len(desired) =>
                  Rewritten(text[k], desired, Rank(text, k)) = <<desired[Rank(text, k)]>>
                  /\ desired[Rank(text, k)] \in WholeLines
  <2>1. text[k] \in Lines
    OBVIOUS
  <2>2. Rank(text, k) \in Nat /\ (text[k] \in ManagedLines => Rank(text, k) > 0)
    <3>1. k - 1 \in Nat /\ k - 1 < Len(text) /\ (k - 1) + 1 = k /\ k \in 0..Len(text) /\ k - 1 \in 0..Len(text)
      BY <1>1
    <3>2. Rank(text, k) \in 0..k /\ Rank(text, k - 1) \in 0..(k - 1)
      BY <3>1, RankGrows
    <3>3. Rank(text, (k - 1) + 1) =
            IF text[(k - 1) + 1] \in ManagedLines THEN Rank(text, k - 1) + 1 ELSE Rank(text, k - 1)
      BY <3>1, RankGrows
    <3> QED
      BY <3>1, <3>2, <3>3
  <2>3. Rewritten(text[k], desired, Rank(text, k)) =
          IF text[k] \notin ManagedLines THEN <<text[k]>>
          ELSE IF Rank(text, k) <= Len(desired) THEN <<desired[Rank(text, k)]>> ELSE <<>>
    BY <2>1, <2>2, RewrittenIs
  <2>4. CASE text[k] \notin ManagedLines
    BY <2>1, <2>3, <2>4
  <2>5. CASE text[k] \in ManagedLines /\ Rank(text, k) <= Len(desired)
    <3>1. Rank(text, k) \in 1..Len(desired)
      BY <1>1, <2>2, <2>5
    <3>2. desired[Rank(text, k)] \in WholeLines
      BY <3>1
    <3>3. desired[Rank(text, k)] \in Lines
      BY <3>2 DEF WholeLines, Lines
    <3>4. Rewritten(text[k], desired, Rank(text, k)) = <<desired[Rank(text, k)]>>
      BY <2>3, <2>5
    <3> QED
      BY <2>5, <3>2, <3>3, <3>4
  <2>6. CASE text[k] \in ManagedLines /\ ~ Rank(text, k) <= Len(desired)
    BY <2>3, <2>6
  <2> QED
    BY <2>4, <2>5, <2>6
<1>4. Kept(text, desired) = [k \in 1..Len(text) |-> Rewritten(text[k], desired, Rank(text, k))]
  BY <1>1 DEF Kept
<1>5. Kept(text, desired) \in [1..Len(text) -> Seq(Lines)]
  BY <1>3, <1>4
<1>6. Kept(text, desired) \in Seq(Seq(Lines)) /\ Len(Kept(text, desired)) = Len(text)
  BY <1>1, <1>5
<1> QED
  BY <1>2, <1>3, <1>6

\* The beginning of the rewritten file, and its last line.
LEMMA KeptUpTo ==
  ASSUME NEW text \in Seq(Lines), NEW desired \in Seq(WholeLines), NEW at \in 1..Len(text),
         \A k \in 1..Len(text) : text[k] \in ManagedLines => text[k].eol = TRUE,
         text[1] \notin ManagedLines
  PROVE  /\ RewrittenUpTo(text, desired, at, FlattenSeq(SubSeq(Kept(text, desired), 1, at)))
         /\ \E before \in Seq(Lines) :
              FlattenSeq(SubSeq(Kept(text, desired), 1, at)) = before \o Kept(text, desired)[at]
<1> DEFINE K == Kept(text, desired)
           ss == SubSeq(K, 1, at)
<1>1. K \in Seq(Seq(Lines)) /\ Len(K) = Len(text)
      /\ \A k \in 1..Len(text) : K[k] = Rewritten(text[k], desired, Rank(text, k))
  BY KeptTyped
<1> HIDE DEF K
<1>2. ss \in Seq(Seq(Lines)) /\ Len(ss) = at /\ at \in Nat /\ \A k \in 1..at : ss[k] = K[k]
  BY <1>1
<1> HIDE DEF ss
<1>3. PICK flat : Flattening(Lines, ss, flat) /\ FlattenSeq(ss) = flat[Len(ss)]
  BY <1>2, FlattenRecursion
<1> DEFINE done == {n \in Nat : n <= at => RewrittenUpTo(text, desired, n, flat[n])}
<1>4. 0 \in done
  <2>1. flat[0] = <<>>
    BY <1>3 DEF Flattening
  <2>2. Rank(text, 0) = 0 /\ Len(desired) \in Nat /\ SubSeq(desired, 1, 0) = <<>>
    BY RankGrows, Beginnings
  <2>3. <<>> \in Seq(Lines) /\ Selected(<<>>, ManagedLines) = <<>>
    <3> DEFINE e == <<>>
    <3>1. e \in Seq(Lines) /\ \A k \in 1..Len(e) : e[k] \notin ManagedLines
      OBVIOUS
    <3> HIDE DEF e
    <3>2. Selected(e, ManagedLines) = <<>>
      BY <3>1, SelectedWholly
    <3> QED
      BY <3>1, <3>2 DEF e
  <2>4. RewrittenUpTo(text, desired, 0, <<>>)
    <3>1. SubSeq(desired, 1, IF Rank(text, 0) <= Len(desired) THEN Rank(text, 0) ELSE Len(desired)) = <<>>
      <4>1. Rank(text, 0) <= Len(desired)
        BY <2>2
      <4> QED
        BY <2>2, <4>1
    <3>2. \A k \in 1..0 : text[k] \notin ManagedLines => text[k] \in ToSet(<<>>)
      OBVIOUS
    <3> QED
      BY <2>3, <3>1, <3>2, Zenon DEF RewrittenUpTo
  <2> QED
    BY <2>1, <2>4
<1>5. ASSUME NEW n \in Nat, n \in done PROVE n + 1 \in done
  <2> SUFFICES ASSUME n + 1 <= at PROVE RewrittenUpTo(text, desired, n + 1, flat[n + 1])
    OBVIOUS
  <2>1. n < Len(text) /\ n + 1 \in 1..at /\ n + 1 \in 1..Len(ss) /\ n + 1 \in 1..Len(text) /\ (n + 1) - 1 = n
    BY <1>2
  <2>2. RewrittenUpTo(text, desired, n, flat[n])
    BY <1>5, <2>1
  <2>3. flat[n + 1] = flat[n] \o ss[n + 1]
    BY <1>3, <2>1 DEF Flattening
  <2>4. ss[n + 1] = Rewritten(text[n + 1], desired, Rank(text, n + 1))
    BY <1>1, <1>2, <2>1
  <2> DEFINE f == flat[n]
  <2>5. RewrittenUpTo(text, desired, n, f)
    BY <2>2
  <2> HIDE DEF f, done
  <2>6. RewrittenUpTo(text, desired, n + 1, f \o Rewritten(text[n + 1], desired, Rank(text, n + 1)))
    BY <2>1, <2>5, RewrittenOneMore
  <2> QED
    BY <2>3, <2>4, <2>6 DEF f
<1>6. \A n \in Nat : n \in done
  <2> HIDE DEF done
  <2> QED
    BY <1>4, <1>5, AllNumbers
<1>7. RewrittenUpTo(text, desired, at, flat[at])
  BY <1>2, <1>6
<1>8. flat[at] = flat[at - 1] \o K[at] /\ flat[at - 1] \in Seq(Lines)
  <2>1. at \in 1..Len(ss) /\ at - 1 \in 0..Len(ss)
    BY <1>2
  <2>2. flat[at] = flat[at - 1] \o ss[at] /\ flat[at - 1] \in Seq(Lines)
    BY <1>3, <2>1 DEF Flattening
  <2> QED
    BY <1>2, <2>1, <2>2
<1>9. FlattenSeq(ss) = flat[at]
  BY <1>2, <1>3
<1> QED
  BY <1>7, <1>8, <1>9 DEF K, ss

\* Behind the last managed line nothing changes.
LEMMA KeptBehind ==
  ASSUME NEW text \in Seq(Lines), NEW desired \in Seq(WholeLines), NEW at \in 1..Len(text),
         \A k \in 1..Len(text) : text[k] \in ManagedLines => text[k].eol = TRUE,
         \A k \in (at + 1)..Len(text) : text[k] \notin ManagedLines
  PROVE  /\ FlattenSeq(SubSeq(Kept(text, desired), at + 1, Len(text))) = SubSeq(text, at + 1, Len(text))
         /\ SubSeq(text, at + 1, Len(text)) \in Seq(Lines)
         /\ Selected(SubSeq(text, at + 1, Len(text)), ManagedLines) = <<>>
         /\ \A k \in (at + 1)..Len(text) : text[k] \in ToSet(SubSeq(text, at + 1, Len(text)))
<1> DEFINE K == Kept(text, desired)
           rest == SubSeq(text, at + 1, Len(text))
           ss == SubSeq(K, at + 1, Len(text))
           L == Len(text) - at
<1>1. K \in Seq(Seq(Lines)) /\ Len(K) = Len(text)
      /\ \A k \in 1..Len(text) : text[k] \notin ManagedLines => K[k] = <<text[k]>>
  BY KeptTyped
<1> HIDE DEF K
<1>2. L \in Nat /\ at \in Nat /\ \A j \in 1..L : j + at \in (at + 1)..Len(text) /\ j + at \in 1..Len(text)
  OBVIOUS
<1>3. rest \in Seq(Lines) /\ Len(rest) = L /\ \A j \in 1..L : rest[j] = text[j + at]
  <2>1. rest \in Seq(Lines) /\ Len(rest) = L
    OBVIOUS
  <2>2. \A j \in 1..L : rest[j] = text[j + at]
    BY <1>2
  <2> QED
    BY <2>1, <2>2
<1>4. ss \in Seq(Seq(Lines)) /\ Len(ss) = L /\ \A j \in 1..L : ss[j] = K[j + at]
  <2>1. ss \in Seq(Seq(Lines)) /\ Len(ss) = L
    BY <1>1
  <2>2. \A j \in 1..L : ss[j] = K[j + at]
    BY <1>1, <1>2
  <2> QED
    BY <2>1, <2>2
<1> HIDE DEF rest, ss, L
<1>5. \A j \in 1..L : rest[j] \notin ManagedLines /\ ss[j] = <<rest[j]>>
  BY <1>1, <1>2, <1>3, <1>4
<1>6. FlattenSeq(ss) = rest
  <2>1. DOMAIN ss = 1..Len(rest) /\ \A j \in 1..Len(rest) : ss[j] = <<rest[j]>>
    BY <1>2, <1>3, <1>4, <1>5
  <2>2. rest \in Seq(Lines) /\ ss \in Seq(Seq(Lines))
    BY <1>3, <1>4
  <2> QED
    BY <2>1, <2>2, FlattenedOnes
<1>7. Selected(rest, ManagedLines) = <<>>
  <2>1. rest \in Seq(Lines) /\ \A j \in 1..Len(rest) : rest[j] \notin ManagedLines
    BY <1>3, <1>5
  <2> QED
    BY <2>1, SelectedWholly
<1>8. ASSUME NEW k \in (at + 1)..Len(text) PROVE text[k] \in ToSet(rest)
  <2>1. k - at \in 1..L /\ (k - at) + at = k
    BY DEF L
  <2>2. rest[k - at] = text[k] /\ k - at \in DOMAIN rest
    BY <1>2, <1>3, <2>1
  <2> QED
    BY <2>2 DEF ToSet
<1> QED
  BY <1>3, <1>6, <1>7, <1>8 DEF rest, ss, K

\* The managed lines of a file that is read are whole.
LEMMA ReadsWhole ==
  ASSUME NEW text, NEW old, Reads(text, old)
  PROVE  /\ text \in Seq(Lines) /\ Len(text) > 0 /\ text[1] = NoteLine(0) /\ text[1] \notin ManagedLines
         /\ \A k \in 1..Len(text) : text[k] \in ManagedLines => text[k].eol = TRUE
<1>1. text \in Seq(Lines) /\ text # <<>> /\ text[1] = NoteLine(0) /\ old \in Seq(WorkItems)
      /\ Selected(text, ManagedLines) = EntryLines(old)
  BY DEF Reads
<1>2. NoteLine(0) \notin ManagedLines
  BY NoteTyped
<1>3. ToSet(Selected(text, ManagedLines)) = ToSet(text) \intersect ManagedLines
  BY <1>1, SelectedOnce
<1>4. EntryLines(old) \in Seq(WholeLines)
  BY <1>1, EntryLinesRead
<1>5. ASSUME NEW k \in 1..Len(text), text[k] \in ManagedLines PROVE text[k].eol = TRUE
  <2> DEFINE e == EntryLines(old)
             x == text[k]
  <2>1. x \in ToSet(text)
    BY <1>1 DEF ToSet
  <2>2. x \in ToSet(e)
    BY <1>1, <1>3, <1>5, <2>1
  <2>3. e \in Seq(WholeLines)
    BY <1>4
  <2> HIDE DEF e, x
  <2>4. x \in WholeLines
    BY <2>2, <2>3 DEF ToSet
  <2> QED
    BY <2>4 DEF WholeLines, x
<1>6. Len(text) > 0
  BY <1>1
<1> QED
  BY <1>1, <1>2, <1>5, <1>6

\* The line behind which further ones are inserted.
LEMMA InsertionAt ==
  ASSUME NEW text \in Seq(Lines), Len(text) > 0, text[1] \notin ManagedLines
  PROVE  LET managed == {k \in DOMAIN text : text[k] \in ManagedLines}
             at == InsertionPlace(text, managed)
         IN  /\ at \in 1..Len(text) /\ Rank(text, at) = Cardinality(managed)
             /\ \A k \in (at + 1)..Len(text) : text[k] \notin ManagedLines
             /\ IF managed = {} THEN at = 1 ELSE text[at] \in ManagedLines
<1> DEFINE managed == {k \in DOMAIN text : text[k] \in ManagedLines}
           at == InsertionPlace(text, managed)
<1>1. Len(text) \in Nat /\ DOMAIN text = 1..Len(text) /\ text # <<>>
  OBVIOUS
<1>2. IsFiniteSet(managed) /\ managed \in SUBSET Nat /\ managed \subseteq 1..Len(text)
  <2> DEFINE I == 1..Len(text)
             D == managed
  <2>1. D \subseteq I /\ I \subseteq Nat
    BY <1>1
  <2>2. IsFiniteSet(I)
    BY <1>1, FS_Interval
  <2>3. IsFiniteSet(D)
    <3> HIDE DEF I, D
    <3> QED
      BY <2>1, <2>2, FS_Subset
  <2> QED
    BY <2>1, <2>3
<1>3. managed # {} => Max(managed) \in managed /\ \A x \in managed : x <= Max(managed)
  <2> HIDE DEF managed
  <2> QED
    BY <1>2, MaxOfUpTo
<1>4. at = IF managed # {} THEN Max(managed) ELSE 1
  BY <1>1 DEF InsertionPlace
<1>5. at \in 1..Len(text) /\ (IF managed = {} THEN at = 1 ELSE text[at] \in ManagedLines)
  <2>1. CASE managed = {}
    BY <1>1, <1>4, <2>1
  <2>2. CASE managed # {}
    <3>1. Max(managed) \in managed /\ at = Max(managed)
      BY <1>3, <1>4, <2>2
    <3>2. at \in managed
      BY <3>1
    <3> HIDE DEF at
    <3> QED
      BY <1>1, <2>2, <3>2
  <2> QED
    BY <2>1, <2>2
<1>6. ASSUME NEW k \in (at + 1)..Len(text) PROVE text[k] \notin ManagedLines
  <2>1. k \in 1..Len(text) /\ k > at
    <3> HIDE DEF at
    <3> QED
      BY <1>1, <1>5
  <2>2. SUFFICES ASSUME text[k] \in ManagedLines PROVE FALSE
    OBVIOUS
  <2>3. k \in managed
    BY <1>1, <2>1, <2>2
  <2>4. k <= Max(managed) /\ at = Max(managed)
    <3> HIDE DEF managed
    <3> QED
      BY <1>3, <1>4, <2>3
  <2> HIDE DEF at
  <2> QED
    BY <2>1, <2>4, <1>5
<1>7. Rank(text, at) = Cardinality(managed)
  <2> HIDE DEF at
  <2>1. at \in 0..Len(text)
    BY <1>1, <1>5
  <2>2. Rank(text, at) = Cardinality({k \in 1..at : text[k] \in ManagedLines})
    BY <2>1, SelectedCount DEF Rank
  <2>3. \A k \in 1..Len(text) : text[k] \in ManagedLines => k \in 1..at
    <3> SUFFICES ASSUME NEW k \in 1..Len(text), text[k] \in ManagedLines, k \notin 1..at PROVE FALSE
      OBVIOUS
    <3>1. k \in (at + 1)..Len(text)
      BY <1>1, <1>5
    <3> QED
      BY <1>6, <3>1
  <2>4. \A k \in 1..at : k \in 1..Len(text)
    BY <1>1, <1>5
  <2>5. {k \in 1..at : text[k] \in ManagedLines} = managed
    BY <1>1, <2>3, <2>4
  <2> QED
    BY <2>2, <2>5
<1> HIDE DEF at
<1>8. /\ at \in 1..Len(text) /\ Rank(text, at) = Cardinality(managed)
      /\ \A k \in (at + 1)..Len(text) : text[k] \notin ManagedLines
      /\ IF managed = {} THEN at = 1 ELSE text[at] \in ManagedLines
  BY <1>5, <1>6, <1>7
<1> QED
  BY <1>8, Zenon DEF at

\* Behind a line that ends with its break nothing is joined.
LEMMA JoinedWhole ==
  ASSUME NEW a \in Seq(Lines), NEW more, a # <<>>, more # <<>> => a[Len(a)].eol = TRUE
  PROVE  Joined(a, more) = a \o more
BY DEF Joined, Last


\* A file that is patched is read as the document, and keeps every other line.
LEMMA PatchReads ==
  ASSUME NEW text, NEW old, Reads(text, old), NEW items \in Seq(WorkItems), ValidItems(items)
  PROVE  /\ Reads(Patch(text, items), items)
         /\ \A line \in ToSet(text) : line \notin ManagedLines => line \in ToSet(Patch(text, items))
<1> DEFINE desired == EntryLines(items)
           managed == {k \in DOMAIN text : text[k] \in ManagedLines}
           m == Cardinality(managed)
           N == Len(desired)
           at == InsertionPlace(text, managed)
           K == Kept(text, desired)
           more == SubSeq(desired, m + 1, N)
           a == FlattenSeq(SubSeq(K, 1, at))
           rest == SubSeq(text, at + 1, Len(text))
           behind == FlattenSeq(SubSeq(K, at + 1, Len(text)))
<1>1. /\ text \in Seq(Lines) /\ Len(text) > 0 /\ text[1] = NoteLine(0) /\ text[1] \notin ManagedLines
      /\ \A k \in 1..Len(text) : text[k] \in ManagedLines => text[k].eol = TRUE
  BY ReadsWhole
<1>2. desired \in Seq(WholeLines)
  BY EntryLinesRead
<1>3. Patch(text, items) = Joined(a, more) \o behind
  BY DEF Patch, Kept, Rank
<1>4. /\ at \in 1..Len(text) /\ Rank(text, at) = m
      /\ \A k \in (at + 1)..Len(text) : text[k] \notin ManagedLines
      /\ IF managed = {} THEN at = 1 ELSE text[at] \in ManagedLines
  BY <1>1, InsertionAt, Zenon
<1> HIDE DEF desired, managed, m, at
<1>5. /\ RewrittenUpTo(text, desired, at, a)
      /\ \E before \in Seq(Lines) : a = before \o K[at]
  BY <1>1, <1>2, <1>4, KeptUpTo
<1>6. /\ behind = rest /\ rest \in Seq(Lines) /\ Selected(rest, ManagedLines) = <<>>
      /\ \A k \in (at + 1)..Len(text) : text[k] \in ToSet(rest)
  BY <1>1, <1>2, <1>4, KeptBehind
<1>7. /\ text[at] \notin ManagedLines => K[at] = <<text[at]>>
      /\ text[at] \in ManagedLines /\ Rank(text, at) <= N =>
           K[at] = <<desired[Rank(text, at)]>> /\ desired[Rank(text, at)] \in WholeLines
  BY <1>1, <1>2, <1>4, KeptTyped
<1> HIDE DEF K, rest, behind
<1>8. m \in Nat /\ N \in Nat /\ at \in Nat /\ at # 0
  <2>1. Rank(text, at) \in 0..at
    BY <1>1, <1>4, RankGrows
  <2> QED
    BY <1>2, <1>4, <2>1
<1>9. /\ a \in Seq(Lines) /\ a # <<>> /\ a[1] = text[1]
      /\ Selected(a, ManagedLines) = SubSeq(desired, 1, IF m <= N THEN m ELSE N)
      /\ \A k \in 1..at : text[k] \notin ManagedLines => text[k] \in ToSet(a)
  <2> HIDE DEF N, a
  <2> QED
    BY <1>4, <1>5, <1>8 DEF RewrittenUpTo, N
<1>10. more \in Seq(WholeLines) /\ (more # <<>> => m < N)
  <2>1. more \in Seq(WholeLines)
    BY <1>2, <1>8
  <2>2. ~ m < N => more = <<>>
    BY <1>2, <1>8
  <2> QED
    BY <2>1, <2>2
<1>11. SubSeq(desired, 1, IF m <= N THEN m ELSE N) \o more = desired
  <2>1. CASE m <= N
    <3>1. m \in 0..N
      BY <1>8, <2>1
    <3>2. SubSeq(desired, 1, m) \o SubSeq(desired, m + 1, Len(desired)) = desired
      BY <1>2, <3>1, TwoParts
    <3> QED
      BY <2>1, <3>2
  <2>2. CASE ~ m <= N
    <3>1. more = <<>>
      BY <1>2, <1>8, <2>2
    <3>2. SubSeq(desired, 1, N) = desired /\ desired \o <<>> = desired
      BY <1>2
    <3> HIDE DEF N, more
    <3> QED
      BY <2>2, <3>1, <3>2
  <2> QED
    BY <2>1, <2>2
<1> HIDE DEF a, more
<1>12. more # <<>> => a[Len(a)].eol = TRUE
  <2> SUFFICES ASSUME more # <<>> PROVE a[Len(a)].eol = TRUE
    OBVIOUS
  <2>1. m < N
    BY <1>10
  <2>2. PICK before \in Seq(Lines) : a = before \o K[at]
    BY <1>5
  <2>3. PICK y : K[at] = <<y>> /\ y.eol = TRUE
    <3>1. CASE managed = {}
      <4>1. at = 1 /\ K[at] = <<NoteLine(0)>>
        BY <1>1, <1>4, <1>7, <3>1
      <4>2. NoteLine(0).eol = TRUE
        BY NoteTyped
      <4> QED
        BY <4>1, <4>2
    <3>2. CASE managed # {}
      <4>1. K[at] = <<desired[m]>> /\ desired[m] \in WholeLines
        <5>1. text[at] \in ManagedLines /\ Rank(text, at) <= N
          BY <1>4, <1>8, <2>1, <3>2
        <5> QED
          BY <1>4, <1>7, <5>1
      <4>2. desired[m].eol = TRUE
        BY <4>1 DEF WholeLines
      <4> QED
        BY <4>1, <4>2
    <3> QED
      BY <3>1, <3>2
  <2>4. Len(before \o <<y>>) = Len(before) + 1 /\ (before \o <<y>>)[Len(before) + 1] = y
    OBVIOUS
  <2> QED
    BY <2>2, <2>3, <2>4
<1>13. Joined(a, more) = a \o more
  BY <1>9, <1>12, JoinedWhole
<1>14. more \in Seq(Lines) /\ Selected(more, ManagedLines) = more
  BY <1>10, WholeAreLines
<1> DEFINE front == a \o more
           all == front \o rest
<1>15. front \in Seq(Lines) /\ ToSet(front) = ToSet(a) \union ToSet(more) /\ front # <<>> /\ front[1] = a[1]
  <2>1. a \in Seq(Lines) /\ more \in Seq(Lines) /\ a # <<>>
    BY <1>9, <1>14
  <2>2. front \in Seq(Lines) /\ ToSet(front) = ToSet(a) \union ToSet(more)
    BY <2>1, ToSetOfConcat
  <2>3. front # <<>> /\ front[1] = a[1]
    BY <2>1
  <2> QED
    BY <2>2, <2>3
<1>16. Selected(front, ManagedLines) = desired
  <2>1. a \in Seq(Lines) /\ more \in Seq(Lines)
    BY <1>9, <1>14
  <2>2. Selected(a \o more, ManagedLines) = Selected(a, ManagedLines) \o Selected(more, ManagedLines)
    BY <2>1, SelectedConcat
  <2> QED
    BY <2>2, <1>9, <1>11, <1>14
<1> HIDE DEF front
<1>17. all \in Seq(Lines) /\ ToSet(all) = ToSet(front) \union ToSet(rest) /\ all # <<>> /\ all[1] = front[1]
  <2>1. front \in Seq(Lines) /\ rest \in Seq(Lines) /\ front # <<>>
    BY <1>6, <1>15
  <2>2. all \in Seq(Lines) /\ ToSet(all) = ToSet(front) \union ToSet(rest)
    BY <2>1, ToSetOfConcat
  <2>3. all # <<>> /\ all[1] = front[1]
    BY <2>1
  <2> QED
    BY <2>2, <2>3
<1>18. Selected(all, ManagedLines) = desired
  <2>1. front \in Seq(Lines) /\ rest \in Seq(Lines)
    BY <1>6, <1>15
  <2>2. Selected(front \o rest, ManagedLines) = Selected(front, ManagedLines) \o Selected(rest, ManagedLines)
    BY <2>1, SelectedConcat
  <2>3. desired \o <<>> = desired
    BY <1>2
  <2> QED
    BY <2>2, <2>3, <1>6, <1>16
<1>19. Patch(text, items) = all
  BY <1>3, <1>6, <1>13 DEF front
<1> HIDE DEF all
<1>20. Reads(all, items)
  BY <1>1, <1>9, <1>15, <1>17, <1>18 DEF Reads, desired
<1>21. ASSUME NEW line \in ToSet(text), line \notin ManagedLines PROVE line \in ToSet(all)
  <2>1. PICK k \in 1..Len(text) : line = text[k]
    BY <1>1 DEF ToSet
  <2>2. CASE k <= at
    <3>1. k \in 1..at
      BY <1>8, <2>2
    <3>2. line \in ToSet(a)
      BY <1>9, <1>21, <2>1, <3>1
    <3> QED
      BY <1>15, <1>17, <3>2
  <2>3. CASE ~ k <= at
    <3>1. k \in (at + 1)..Len(text)
      BY <1>8, <2>3
    <3> QED
      BY <1>6, <1>17, <2>1, <3>1
  <2> QED
    BY <2>2, <2>3
<1> QED
  BY <1>19, <1>20, <1>21

\* The ids of the notes among lines.
NotesAmong(text) == {line.id : line \in {l \in ToSet(text) : l.kind = "note"}}


\* Lines with another last line break, none only behind a note other than the first line:
\* the managed ones and the notes are the same.
LEMMA LastBreak ==
  ASSUME NEW text \in Seq(Lines), text # <<>>, text[1] = NoteLine(0), NEW broken \in BOOLEAN,
         \A k \in 1..Len(text) : text[k] \in ManagedLines => text[k].eol = TRUE,
         ~broken => text[Len(text)].kind = "note" /\ text[Len(text)] # NoteLine(0)
  PROVE  LET other == [text EXCEPT ![Len(text)].eol = broken]
         IN  /\ other \in Seq(Lines) /\ other # <<>> /\ other[1] = NoteLine(0)
             /\ Selected(other, ManagedLines) = Selected(text, ManagedLines)
             /\ NotesAmong(other) = NotesAmong(text)
<1> DEFINE N == Len(text)
           f == SubSeq(text, 1, N - 1)
           x == text[N]
           y == [x EXCEPT !.eol = broken]
           other == [text EXCEPT ![N].eol = broken]
<1>1. /\ text \in Seq(Lines) /\ N > 0 /\ N \in Nat /\ text[1] = NoteLine(0) /\ text[1] \notin ManagedLines
      /\ \A k \in 1..N : text[k] \in ManagedLines => text[k].eol = TRUE
  <2>1. NoteLine(0) \notin ManagedLines
    BY NoteTyped
  <2> HIDE DEF f, x, y, other
  <2> QED
    BY <2>1
<1>3. f \in Seq(Lines) /\ text = Append(f, x) /\ x \in Lines /\ Len(f) = N - 1
  <2>1. N - 1 \in Nat /\ N - 1 < N /\ N - 1 \in 0..N /\ (N - 1) + 1 = N
    BY <1>1
  <2>2. SubSeq(text, 1, (N - 1) + 1) = Append(SubSeq(text, 1, N - 1), text[(N - 1) + 1])
        /\ text[(N - 1) + 1] \in Lines /\ SubSeq(text, 1, N - 1) \in Seq(Lines)
        /\ Len(SubSeq(text, 1, N - 1)) = N - 1 /\ SubSeq(text, 1, N) = text
    BY <1>1, <2>1, Beginnings
  <2> QED
    BY <2>1, <2>2
<1>5. /\ x.kind \in {"item", "detail", "note"} /\ x.id \in Int /\ x.eol \in BOOLEAN /\ x.entry \in Details
      /\ x \in ManagedLines <=> x.kind # "note"
      /\ x = [kind |-> x.kind, id |-> x.id, eol |-> x.eol, entry |-> x.entry]
  <2> HIDE DEF x
  <2> QED
    BY <1>3, LineTyped
<1>6. y = [kind |-> x.kind, id |-> x.id, eol |-> broken, entry |-> x.entry]
  <2> HIDE DEF x
  <2> QED
    BY <1>5
<1>7. x \in ManagedLines => broken = TRUE /\ y = x
  <2>1. x \in ManagedLines => broken = TRUE /\ x.eol = TRUE
    BY <1>1, <1>5
  <2> HIDE DEF x, y
  <2> QED
    BY <2>1, <1>5, <1>6
<1>8. x.kind = "note" => y \in Lines /\ y \notin ManagedLines /\ y.kind = "note" /\ y.id = x.id
  <2>1. ASSUME x.kind = "note" PROVE x.id \in Nat
    <3> HIDE DEF x
    <3> QED
      BY <1>3, <2>1 DEF Lines, ManagedLines
  <2> HIDE DEF x, y
  <2> QED
    BY <2>1, <1>5, <1>6 DEF Lines, ManagedLines
<1>4. other = Append(f, y)
  <2> HIDE DEF f, x, y
  <2>1. other = [text EXCEPT ![N] = y]
    BY DEF x, y
  <2>2. text = Append(f, x) /\ N = Len(f) + 1
    BY <1>1, <1>3
  <2>4. y \in Lines
    BY <1>3, <1>5, <1>7, <1>8
  <2>3. Append(f, y) = [Append(f, x) EXCEPT ![Len(f) + 1] = y]
    BY <1>3, <2>4, LastReplaced
  <2> HIDE DEF other
  <2> QED
    BY <2>1, <2>2, <2>3
<1>9. N = 1 => y = x
  <2> SUFFICES ASSUME N = 1 PROVE y = x
    OBVIOUS
  <2>1. x = NoteLine(0)
    BY <1>1
  <2>2. NoteLine(0).eol = TRUE /\ broken = TRUE
    BY <2>1, NoteTyped
  <2> HIDE DEF x, y
  <2> QED
    BY <2>1, <2>2, <1>5, <1>6
<1> HIDE DEF f, x, y, other
<1>10. y \in Lines /\ (y \in ManagedLines <=> x \in ManagedLines) /\ (x \in ManagedLines => y = x)
       /\ y.kind = x.kind /\ y.id = x.id
  BY <1>3, <1>5, <1>7, <1>8
<1>11. /\ other \in Seq(Lines) /\ other # <<>>
       /\ Selected(other, ManagedLines) = IF y \in ManagedLines THEN Append(Selected(f, ManagedLines), y) ELSE Selected(f, ManagedLines)
       /\ ToSet(other) = ToSet(f) \union {y}
       /\ IF f = <<>> THEN other[1] = y ELSE other[1] = f[1]
  BY <1>3, <1>4, <1>10, LineSelected
<1>12. /\ Selected(text, ManagedLines) = IF x \in ManagedLines THEN Append(Selected(f, ManagedLines), x) ELSE Selected(f, ManagedLines)
       /\ ToSet(text) = ToSet(f) \union {x}
       /\ IF f = <<>> THEN text[1] = x ELSE text[1] = f[1]
  BY <1>3, LineSelected
<1>13. Selected(other, ManagedLines) = Selected(text, ManagedLines)
  BY <1>10, <1>11, <1>12
<1>14. other[1] = NoteLine(0)
  <2>1. f = <<>> => N = 1
    BY <1>1, <1>3
  <2> QED
    BY <2>1, <1>1, <1>9, <1>11, <1>12
<1>15. NotesAmong(other) = NotesAmong(text)
  BY <1>10, <1>11, <1>12 DEF NotesAmong
<1> QED
  BY <1>11, <1>13, <1>14, <1>15 DEF other

\* So the file reads as before.
LEMMA LastBreakReads ==
  ASSUME NEW text, NEW items, Reads(text, items), NEW broken \in BOOLEAN,
         ~broken => text[Len(text)].kind = "note" /\ text[Len(text)] # NoteLine(0)
  PROVE  LET other == [text EXCEPT ![Len(text)].eol = broken]
         IN  Reads(other, items) /\ NotesAmong(other) = NotesAmong(text)
<1> DEFINE other == [text EXCEPT ![Len(text)].eol = broken]
<1>1. /\ text \in Seq(Lines) /\ text # <<>> /\ text[1] = NoteLine(0)
      /\ items \in Seq(WorkItems) /\ ValidItems(items) /\ Selected(text, ManagedLines) = EntryLines(items)
  BY DEF Reads
<1>2. \A k \in 1..Len(text) : text[k] \in ManagedLines => text[k].eol = TRUE
  BY ReadsWhole
<1>3. /\ other \in Seq(Lines) /\ other # <<>> /\ other[1] = NoteLine(0)
      /\ Selected(other, ManagedLines) = Selected(text, ManagedLines)
      /\ NotesAmong(other) = NotesAmong(text)
  BY <1>1, <1>2, LastBreak
<1> HIDE DEF other
<1> QED
  BY <1>1, <1>3 DEF Reads, other

\* The file with one more note below one of its lines.
LEMMA EditReads ==
  ASSUME NEW text, NEW items, Reads(text, items), NEW k \in DOMAIN text, NEW n \in Nat
  PROVE  Reads(WithNote(text, k, n), items) /\ NotesAmong(WithNote(text, k, n)) = NotesAmong(text) \union {n}
<1> DEFINE N == Len(text)
           u == SubSeq(text, 1, k)
           v == SubSeq(text, k + 1, N)
           w == [u EXCEPT ![Len(u)].eol = TRUE]
           x == NoteLine(n)
           z == Append(w, x)
<1>1. /\ text \in Seq(Lines) /\ N > 0 /\ N \in Nat /\ text[1] = NoteLine(0) /\ k \in 1..N
      /\ \A m \in 1..N : text[m] \in ManagedLines => text[m].eol = TRUE
  <2>1. /\ text \in Seq(Lines) /\ Len(text) > 0 /\ text[1] = NoteLine(0)
        /\ \A m \in 1..Len(text) : text[m] \in ManagedLines => text[m].eol = TRUE
    BY ReadsWhole
  <2> HIDE DEF u, v, w, x, z
  <2> QED
    BY <2>1
<1>2. items \in Seq(WorkItems) /\ ValidItems(items) /\ Selected(text, ManagedLines) = EntryLines(items)
  BY DEF Reads
<1>3. /\ u \in Seq(Lines) /\ Len(u) = k /\ v \in Seq(Lines) /\ u # <<>> /\ u[1] = NoteLine(0)
      /\ \A m \in 1..Len(u) : u[m] = text[m]
  <2> HIDE DEF w, x, z
  <2> QED
    BY <1>1
<1>4. text = u \o v
  <2>1. k \in 0..N
    BY <1>1
  <2> QED
    BY <1>1, <2>1, TwoParts
<1>5. WithNote(text, k, n) = z \o v
  BY <1>3 DEF WithNote
<1>6. x \in Lines /\ x \notin ManagedLines /\ x.kind = "note" /\ x.id = n
  BY NoteTyped
<1> HIDE DEF u, v, x
<1>7. \A m \in 1..Len(u) : u[m] \in ManagedLines => u[m].eol = TRUE
  BY <1>1, <1>3
<1>8. /\ w \in Seq(Lines) /\ w # <<>> /\ w[1] = NoteLine(0)
      /\ Selected(w, ManagedLines) = Selected(u, ManagedLines)
      /\ NotesAmong(w) = NotesAmong(u)
  BY <1>3, <1>7, LastBreak
<1> HIDE DEF w
<1>9. /\ z \in Seq(Lines) /\ z # <<>> /\ z[1] = NoteLine(0)
      /\ Selected(z, ManagedLines) = Selected(u, ManagedLines)
      /\ ToSet(z) = ToSet(w) \union {x}
  BY <1>6, <1>8, LineSelected
<1> HIDE DEF z
<1>10. /\ Selected(z \o v, ManagedLines) = Selected(z, ManagedLines) \o Selected(v, ManagedLines)
       /\ Selected(u \o v, ManagedLines) = Selected(u, ManagedLines) \o Selected(v, ManagedLines)
  <2>1. u \in Seq(Lines) /\ v \in Seq(Lines) /\ z \in Seq(Lines)
    BY <1>3, <1>9
  <2>2. Selected(z \o v, ManagedLines) = Selected(z, ManagedLines) \o Selected(v, ManagedLines)
    BY <2>1, SelectedConcat
  <2>3. Selected(u \o v, ManagedLines) = Selected(u, ManagedLines) \o Selected(v, ManagedLines)
    BY <2>1, SelectedConcat
  <2> QED
    BY <2>2, <2>3
<1>11. z \o v \in Seq(Lines) /\ z \o v # <<>> /\ (z \o v)[1] = z[1]
  BY <1>3, <1>9
<1>12. ToSet(z \o v) = ToSet(z) \union ToSet(v) /\ ToSet(u \o v) = ToSet(u) \union ToSet(v)
  BY <1>3, <1>9, ToSetOfConcat
<1>13. Reads(z \o v, items)
  BY <1>2, <1>4, <1>9, <1>10, <1>11 DEF Reads
<1>14. NotesAmong(z \o v) = NotesAmong(text) \union {n}
  <2>1. NotesAmong(z \o v) = NotesAmong(w) \union {n} \union NotesAmong(v)
    BY <1>6, <1>9, <1>12 DEF NotesAmong
  <2>2. NotesAmong(u \o v) = NotesAmong(u) \union NotesAmong(v)
    BY <1>12 DEF NotesAmong
  <2> QED
    BY <1>4, <1>8, <2>1, <2>2
<1> QED
  BY <1>5, <1>13, <1>14

\* Patching keeps the ids of the notes; a file written anew has one note, the empty line.
LEMMA PatchKeepsNotes ==
  ASSUME NEW text, NEW old, Reads(text, old), NEW items \in Seq(WorkItems), ValidItems(items)
  PROVE  NotesAmong(text) \subseteq NotesAmong(Patch(text, items))
<1>1. \A line \in ToSet(text) : line \notin ManagedLines => line \in ToSet(Patch(text, items))
  BY PatchReads
<1>2. \A line \in ToSet(text) : line.kind = "note" => line \notin ManagedLines
  BY DEF ManagedLines
<1> QED
  BY <1>1, <1>2 DEF NotesAmong

\* What a ledger shows or commits, and what the file holds.
Documents == {NoDocument} \union {d \in [rev : Nat, items : Seq(WorkItems)] : ValidItems(d.items)}
Files == {NoSource} \union {s \in [rev : Nat, lines : Seq(Lines)] : Reads(s.lines, Parse(s.lines))}

LedgerTypes ==
  /\ source \in Files /\ ready \in [Callers -> Files]
  /\ glimpse \in [Ledgers -> Files] /\ observed \in [Ledgers -> Files] /\ lastInternal \in [Ledgers -> Files]
  /\ current \in [Ledgers -> Documents]
  /\ next \in [Callers -> Documents] /\ basis \in [Callers -> Documents]
  /\ todoPc \in [Callers -> TodoSteps] /\ writer \in Callers \union {NoWriter}
  /\ kept \subseteq EditorNotes

\* A document of an earlier revision than the file's, or the file's own.
Settled(d, src) == d.rev <= src.rev /\ (d.rev = src.rev => d = Document(src))

\* Where an operation stands: what it commits follows what it was computed from,
\* and what it is about to write is that, with every note that must be kept.
Standing(c) ==
  /\ todoPc[c] = "write" <=> writer = c
  /\ todoPc[c] # "idle" => next[c] # NoDocument /\ next[c].rev = basis[c].rev + 1
  /\ todoPc[c] = "write" =>
       /\ ready[c] # NoSource /\ Document(ready[c]) = next[c]
       /\ source.rev = basis[c].rev /\ kept \subseteq NoteIds(ready[c])
  /\ Settled(basis[c], source) /\ (todoPc[c] = "settle" => Settled(next[c], source))
  /\ next[c].rev < changes

Showing(l) == Settled(current[l], source) /\ Settled(Document(glimpse[l]), source)

\* The inductive invariant.  The file, and every document a ledger shows, has computed from or has
\* just written, are of one history: a revision stands for one document.
LedgerInv ==
  /\ LedgerTypes
  /\ \A c \in Callers : Standing(c)
  /\ \A l \in Ledgers : Showing(l)
  /\ changes \in 0..MaxChanges /\ source.rev < changes
  /\ kept \subseteq NoteIds(source)
  /\ overwrote = FALSE

\* A document without items is valid.
LEMMA NothingValid == <<>> \in Seq(WorkItems) /\ ValidItems(<<>>)
<1> DEFINE none == <<>>
<1>1. none \in Seq(WorkItems) /\ Len(none) = 0 /\ DOMAIN none = {}
  OBVIOUS
<1> HIDE DEF none
<1>2. Active(none) = {} /\ ActiveDetails(none) = {}
  BY <1>1 DEF Active, ActiveDetails
<1>3. ValidItems(none)
  BY <1>1, <1>2, FS_EmptySet, TodoLimits DEF ValidItems
<1> QED
  BY <1>1, <1>3 DEF none

\* The fields of a document; the revision tells whether there is one.
LEMMA DocumentTyped ==
  ASSUME NEW d \in Documents
  PROVE  /\ d.rev \in Int /\ d.rev >= -1 /\ d.items \in Seq(WorkItems) /\ ValidItems(d.items)
         /\ d = [rev |-> d.rev, items |-> d.items] /\ (d.rev = -1 <=> d = NoDocument)
<1>1. CASE d = NoDocument
  BY <1>1, NothingValid DEF NoDocument
<1>2. CASE d # NoDocument
  <2>1. d \in [rev : Nat, items : Seq(WorkItems)] /\ ValidItems(d.items)
    BY <1>2 DEF Documents
  <2> QED
    BY <2>1 DEF NoDocument
<1> QED
  BY <1>1, <1>2

\* The fields of the file, and of the document that is read from it.
LEMMA FileTyped ==
  ASSUME NEW src \in Files
  PROVE  /\ src.rev \in Int /\ src.rev >= -1 /\ (src.rev = -1 <=> src = NoSource)
         /\ Document(src) \in Documents /\ Document(src).rev = src.rev
         /\ src # NoSource => src.rev \in Nat /\ Reads(src.lines, Parse(src.lines))
                              /\ Document(src) = [rev |-> src.rev, items |-> Parse(src.lines)]
                              /\ src = [rev |-> src.rev, lines |-> src.lines]
<1>1. CASE src = NoSource
  <2>1. Document(src) = NoDocument
    BY <1>1 DEF Document
  <2> QED
    BY <1>1, <2>1 DEF NoSource, NoDocument, Documents
<1>2. CASE src # NoSource
  <2>1. src \in [rev : Nat, lines : Seq(Lines)] /\ Reads(src.lines, Parse(src.lines))
    BY <1>2 DEF Files
  <2> DEFINE p == Parse(src.lines)
  <2>2. p \in Seq(WorkItems) /\ ValidItems(p)
    BY <2>1 DEF Reads
  <2>3. Document(src) = [rev |-> src.rev, items |-> p]
    BY <1>2 DEF Document
  <2>4. src.rev \in Nat /\ src = [rev |-> src.rev, lines |-> src.lines]
    BY <2>1
  <2> HIDE DEF p
  <2>5. Document(src) \in Documents /\ Document(src).rev = src.rev
    BY <2>2, <2>3, <2>4 DEF Documents
  <2>6. src.rev # -1
    BY <2>4
  <2> QED
    BY <1>2, <2>1, <2>3, <2>4, <2>5, <2>6 DEF p
<1> QED
  BY <1>1, <1>2

\* What was settled stays so while the file goes on.
LEMMA SettledStays ==
  ASSUME NEW src \in Files, NEW new \in Files, NEW d \in Documents, Settled(d, src)
  PROVE  /\ new.rev > src.rev => Settled(d, new)
         /\ Document(new) = Document(src) => Settled(d, new)
<1>1. src.rev \in Int /\ new.rev \in Int /\ d.rev \in Int /\ Document(src).rev = src.rev /\ Document(new).rev = new.rev
  BY FileTyped, DocumentTyped
<1> QED
  BY <1>1 DEF Settled

\* The file's own document, and none, say nothing that the file contradicts.
LEMMA SettledItself ==
  ASSUME NEW src \in Files
  PROVE  Settled(Document(src), src) /\ Settled(NoDocument, src) /\ NoDocument \in Documents
<1>1. src.rev \in Int /\ src.rev >= -1 /\ (src.rev = -1 <=> src = NoSource) /\ Document(src).rev = src.rev
  BY FileTyped
<1>2. NoDocument.rev = -1 /\ NoDocument \in Documents
  BY DEF NoDocument, Documents
<1>3. src = NoSource => Document(src) = NoDocument
  BY DEF Document
<1> QED
  BY <1>1, <1>2, <1>3 DEF Settled

\* A file made of lines that read as a document.
LEMMA FileOf ==
  ASSUME NEW rev \in Nat, NEW text, NEW items, Reads(text, items)
  PROVE  LET src == [rev |-> rev, lines |-> text]
         IN  /\ src \in Files /\ src # NoSource
             /\ Document(src) = [rev |-> rev, items |-> items]
<1> DEFINE src == [rev |-> rev, lines |-> text]
<1>1. Parse(text) = items
  BY ReadsParse
<1>2. text \in Seq(Lines)
  BY DEF Reads
<1>3. src # NoSource
  <2>1. src.rev = rev /\ NoSource.rev = -1
    BY DEF NoSource
  <2> QED
    BY <2>1
<1>4. src \in Files
  BY <1>1, <1>2 DEF Files
<1>5. Document(src) = [rev |-> rev, items |-> items]
  BY <1>1, <1>3 DEF Document
<1> QED
  BY <1>3, <1>4, <1>5

\* The file, changed by what is ready or by the editor, as the invariant needs it:
\* it is a file, of a later revision, or it shows the same document.
GoesOn(src, new) == new \in Files /\ (new.rev > src.rev \/ Document(new) = Document(src))

\* What the file did not contradict, it does not contradict after a later write.
LEMMA SettledGoesOn ==
  ASSUME NEW src \in Files, NEW new, GoesOn(src, new), NEW d \in Documents, Settled(d, src)
  PROVE  Settled(d, new)
BY SettledStays DEF GoesOn

\* No caller is the writer that stands for none.
LEMMA NoWriterIsNone == \A c \in Callers : NoWriter # c
BY LedgerAssumption DEF NoWriter

\* An operation that is not at its write is left where it is by any step of the others.
LEMMA OtherStands ==
  ASSUME LedgerInv, NEW c \in Callers,
         todoPc'[c] = todoPc[c], next'[c] = next[c], basis'[c] = basis[c],
         writer' = c <=> writer = c, GoesOn(source, source'), changes' \in Int, changes' >= changes,
         todoPc[c] = "write" =>
           ready'[c] = ready[c] /\ source'.rev = source.rev /\ kept' \subseteq NoteIds(ready[c])
  PROVE  Standing(c)'
<1>1. LedgerTypes /\ Standing(c) /\ changes \in Int
  BY DEF LedgerInv
<1>2. source \in Files /\ basis[c] \in Documents /\ next[c] \in Documents
  BY <1>1 DEF LedgerTypes
<1>3. next[c].rev \in Int
  BY <1>2, DocumentTyped
<1>4. Settled(basis[c], source')
  BY <1>1, <1>2, SettledGoesOn DEF Standing
<1>5. todoPc[c] = "settle" => Settled(next[c], source')
  BY <1>1, <1>2, SettledGoesOn DEF Standing
<1>6. next[c].rev < changes'
  BY <1>1, <1>3 DEF Standing
<1> QED
  BY <1>1, <1>4, <1>5, <1>6 DEF Standing

\* An operation that has ended.
LEMMA EndedStands ==
  ASSUME NEW c \in Callers, todoPc'[c] = "idle", next'[c] = NoDocument, basis'[c] = NoDocument,
         writer' # c, source' \in Files, changes' \in Nat
  PROVE  Standing(c)'
<1>1. Settled(NoDocument, source')
  BY SettledItself
<1>2. NoDocument.rev < changes'
  BY DEF NoDocument
<1> QED
  BY <1>1, <1>2 DEF Standing

\* What a ledger shows stays settled.
LEMMA StaysShown ==
  ASSUME LedgerInv, NEW l \in Ledgers, GoesOn(source, source'),
         current'[l] = current[l] \/ (current'[l] \in Documents /\ Settled(current'[l], source')),
         glimpse'[l] \in {glimpse[l], NoSource, source'}
  PROVE  Showing(l)'
<1>1. LedgerTypes /\ Showing(l) /\ source \in Files /\ source' \in Files
  BY DEF LedgerInv, LedgerTypes, GoesOn
<1>2. Settled(current'[l], source')
  <2>1. current[l] \in Documents /\ Settled(current[l], source)
    BY <1>1 DEF LedgerTypes, Showing
  <2> QED
    BY <1>1, <2>1, SettledGoesOn
<1>3. Settled(Document(glimpse'[l]), source')
  <2>1. CASE glimpse'[l] = glimpse[l]
    <3>1. glimpse[l] \in Files /\ Settled(Document(glimpse[l]), source)
      BY <1>1 DEF LedgerTypes, Showing
    <3>2. Document(glimpse[l]) \in Documents
      BY <3>1, FileTyped
    <3>3. Settled(Document(glimpse[l]), source')
      BY <1>1, <3>1, <3>2, SettledGoesOn
    <3> QED
      BY <2>1, <3>3
  <2>2. CASE glimpse'[l] = NoSource
    <3>1. Document(NoSource) = NoDocument
      BY DEF Document
    <3> QED
      BY <2>2, <3>1, <1>1, SettledItself
  <2>3. CASE glimpse'[l] = source'
    BY <2>3, <1>1, SettledItself
  <2> QED
    BY <2>1, <2>2, <2>3
<1>4. (Document(glimpse[l]))' = Document(glimpse'[l])
  BY DEF Document, NoDocument, NoSource
<1> QED
  BY <1>2, <1>3, <1>4 DEF Showing, Settled

\* An operation begins.
LEMMA CommitKeeps ==
  ASSUME LedgerInv, NEW c \in Callers, NEW items \in Seq(WorkItems), MayCommit(c), Commit(c, items)
  PROVE  LedgerInv'
<1> DEFINE l == LedgerOf[c]
           d == current[l]
           new == [rev |-> d.rev + 1, items |-> items]
<1>1. LedgerTypes /\ l \in Ledgers /\ Showing(l) /\ Standing(c) /\ changes \in 0..MaxChanges /\ MaxChanges \in Nat
      /\ source.rev < changes
  BY LedgerAssumption DEF LedgerInv, Ledgers
<1>2. /\ changes' = changes + 1 /\ changes < MaxChanges /\ todoPc[c] = "idle"
      /\ todoPc' = [todoPc EXCEPT ![c] = "lock"] /\ ValidItems(items)
      /\ basis' = [basis EXCEPT ![c] = d] /\ next' = [next EXCEPT ![c] = new]
      /\ UNCHANGED <<source, current, ready, writer, lastInternal, observed, glimpse, overwrote, kept>>
  BY DEF MayCommit, Commit, watchVars
<1>3. d \in Documents /\ source \in Files /\ Settled(d, source)
  BY <1>1 DEF LedgerTypes, Showing
<1>4. d.rev \in Int /\ d.rev >= -1 /\ source.rev \in Int /\ d.rev <= source.rev
  BY <1>3, DocumentTyped, FileTyped DEF Settled
<1> HIDE DEF d
<1>5. new \in Documents /\ new # NoDocument /\ new.rev = d.rev + 1 /\ new.rev < changes + 1
  <2>1. new.rev \in Nat
    BY <1>4
  <2>2. new \in Documents
    BY <1>2, <2>1 DEF Documents
  <2>3. new # NoDocument
    BY <2>1 DEF NoDocument
  <2> QED
    BY <1>1, <1>4, <2>2, <2>3
<1> HIDE DEF new
<1>6. LedgerTypes'
  BY <1>1, <1>2, <1>3, <1>5 DEF LedgerTypes, TodoSteps
<1>7. GoesOn(source, source')
  BY <1>2, <1>3 DEF GoesOn
<1>8. ASSUME NEW k \in Callers PROVE Standing(k)'
  <2>1. CASE k = c
    <3>1. todoPc'[c] = "lock" /\ next'[c] = new /\ basis'[c] = d
      BY <1>1, <1>2 DEF LedgerTypes
    <3>2. writer' # c
      BY <1>1, <1>2 DEF Standing
    <3>3. Settled(basis'[c], source')
      BY <1>2, <1>3, <3>1
    <3>4. next'[c].rev < changes'
      BY <1>2, <1>5, <3>1
    <3> QED
      BY <2>1, <1>5, <3>1, <3>2, <3>3, <3>4 DEF Standing
  <2>2. CASE k # c
    <3>1. todoPc'[k] = todoPc[k] /\ next'[k] = next[k] /\ basis'[k] = basis[k]
      BY <1>1, <1>2, <2>2 DEF LedgerTypes
    <3>2. todoPc[k] = "write" => ready'[k] = ready[k] /\ source'.rev = source.rev /\ kept' \subseteq NoteIds(ready[k])
      BY <1>2 DEF LedgerInv, Standing
    <3>3. changes' \in Int /\ changes' >= changes
      BY <1>1, <1>2
    <3> QED
      BY <1>2, <1>7, <3>1, <3>2, <3>3, OtherStands
  <2> QED
    BY <2>1, <2>2
<1>9. ASSUME NEW k \in Ledgers PROVE Showing(k)'
  BY <1>2, <1>7, StaysShown
<1>10. changes' \in 0..MaxChanges /\ source'.rev < changes'
  BY <1>1, <1>2, <1>4
<1>11. kept' \subseteq NoteIds(source') /\ overwrote' = FALSE
  BY <1>2 DEF LedgerInv
<1>12. (kept \subseteq NoteIds(source))'
  BY <1>11 DEF NoteIds
<1> QED
  BY <1>6, <1>8, <1>9, <1>10, <1>11, <1>12 DEF LedgerInv

\* With the lock, the source is compared and what will be written is made.
LEMMA ReadSourceKeeps ==
  ASSUME LedgerInv, NEW c \in Callers, ReadSource(c)
  PROVE  LedgerInv'
<1>1. LedgerTypes /\ Standing(c) /\ changes \in 0..MaxChanges /\ MaxChanges \in Nat /\ source.rev < changes
      /\ kept \subseteq NoteIds(source)
  BY LedgerAssumption DEF LedgerInv
<1>2. /\ writer = NoWriter /\ todoPc[c] = "lock"
      /\ UNCHANGED <<source, current, next, basis, lastInternal, observed, glimpse, changes, overwrote, kept>>
  BY DEF ReadSource, TodoStep, watchVars
<1>3. source \in Files /\ next[c] \in Documents /\ next[c] # NoDocument
  BY <1>1, <1>2 DEF LedgerTypes, Standing
<1>4. GoesOn(source, source')
  BY <1>2, <1>3 DEF GoesOn
<1>5. \A k \in Callers : todoPc[k] # "write" /\ NoWriter # k
  BY <1>2, NoWriterIsNone DEF LedgerInv, Standing
<1>6. next[c].rev = basis[c].rev + 1 /\ Settled(basis[c], source) /\ next[c].rev < changes
  BY <1>1, <1>2 DEF Standing
<1>7. \A l \in Ledgers : Showing(l)'
  BY <1>2, <1>4, StaysShown
<1>8. (kept \subseteq NoteIds(source))' /\ changes' \in 0..MaxChanges /\ source'.rev < changes' /\ overwrote' = FALSE
  BY <1>1, <1>2 DEF LedgerInv, NoteIds
<1>9. changes' \in Int /\ changes' >= changes
  BY <1>1, <1>2
<1>10. CASE HasExpectedRevision(source, next[c]) /\ Parse(source.lines) # Unparsable
  <2> DEFINE text == IF source = NoSource THEN Render(next[c].items) ELSE Patch(source.lines, next[c].items)
             new == [rev |-> next[c].rev, lines |-> text]
  <2>1. todoPc' = [todoPc EXCEPT ![c] = "write"] /\ writer' = c /\ ready' = [ready EXCEPT ![c] = new]
    BY <1>10 DEF ReadSource, TodoStep
  <2>2. /\ next[c].rev \in Nat /\ next[c].items \in Seq(WorkItems) /\ ValidItems(next[c].items)
        /\ next[c] = [rev |-> next[c].rev, items |-> next[c].items]
    <3>1. /\ next[c].rev \in Int /\ next[c].rev >= -1 /\ next[c].rev # -1
          /\ next[c].items \in Seq(WorkItems) /\ ValidItems(next[c].items)
          /\ next[c] = [rev |-> next[c].rev, items |-> next[c].items]
      BY <1>3, DocumentTyped
    <3> QED
      BY <3>1
  <2>3. Reads(text, next[c].items) /\ (source # NoSource => NotesAmong(source.lines) \subseteq NotesAmong(text))
    <3>1. CASE source = NoSource
      BY <2>2, <3>1, RenderReads
    <3>2. CASE source # NoSource
      <4>1. Reads(source.lines, Parse(source.lines))
        BY <1>3, <3>2, FileTyped
      <4>2. Reads(Patch(source.lines, next[c].items), next[c].items)
        BY <2>2, <4>1, PatchReads
      <4>3. NotesAmong(source.lines) \subseteq NotesAmong(Patch(source.lines, next[c].items))
        BY <2>2, <4>1, PatchKeepsNotes
      <4> QED
        BY <3>2, <4>2, <4>3
    <3> QED
      BY <3>1, <3>2
  <2> HIDE DEF text
  <2>4. new \in Files /\ new # NoSource /\ Document(new) = next[c]
    <3>1. new \in Files /\ new # NoSource /\ Document(new) = [rev |-> next[c].rev, items |-> next[c].items]
      BY <2>2, <2>3, FileOf
    <3> QED
      BY <2>2, <3>1
  <2>5. kept \subseteq NoteIds(new)
    <3>1. NoteIds(source) = NotesAmong(source.lines) /\ NoteIds(new) = NotesAmong(text)
      BY DEF NoteIds, NotesAmong
    <3>2. CASE source = NoSource
      <4>1. ToSet(<<>>) = {}
        BY DEF ToSet
      <4>2. NoteIds(source) = {}
        BY <3>2, <4>1 DEF NoteIds, NoSource
      <4> QED
        BY <4>2, <1>1
    <3>3. CASE source # NoSource
      BY <3>1, <3>3, <2>3, <1>1
    <3> QED
      BY <3>2, <3>3
  <2>6. source.rev = basis[c].rev
    <3>1. source.rev \in Int /\ next[c].rev \in Int /\ source.rev = next[c].rev - 1
      BY <1>3, <1>10, <2>2, FileTyped DEF HasExpectedRevision
    <3>2. basis[c].rev \in Int
      BY <1>1, DocumentTyped DEF LedgerTypes
    <3> QED
      BY <1>6, <3>1, <3>2
  <2> HIDE DEF new
  <2>7. LedgerTypes'
    BY <1>1, <1>2, <2>1, <2>4 DEF LedgerTypes, TodoSteps
  <2>8. ASSUME NEW k \in Callers PROVE Standing(k)'
    <3>1. CASE k = c
      <4>1. todoPc'[c] = "write" /\ ready'[c] = new /\ next'[c] = next[c] /\ basis'[c] = basis[c]
        BY <1>1, <1>2, <2>1 DEF LedgerTypes
      <4>2. (Document(ready[c]))' = next'[c] /\ (kept \subseteq NoteIds(ready[c]))'
        <5>1. Document(ready'[c]) = next'[c] /\ kept' \subseteq NoteIds(ready'[c])
          BY <1>2, <2>4, <2>5, <4>1
        <5> QED
          BY <5>1 DEF Document, NoteIds, NoSource, NoDocument
      <4>3. Settled(basis[c], source') /\ next'[c].rev < changes' /\ source'.rev = basis'[c].rev
        BY <1>2, <1>6, <2>6, <4>1
      <4> QED
        BY <3>1, <1>2, <1>3, <1>6, <2>1, <2>4, <4>1, <4>2, <4>3 DEF Standing
    <3>2. CASE k # c
      <4>1. todoPc'[k] = todoPc[k] /\ next'[k] = next[k] /\ basis'[k] = basis[k]
        BY <1>1, <1>2, <2>1, <3>2 DEF LedgerTypes
      <4>2. writer' = k <=> writer = k
        BY <1>2, <1>5, <2>1, <3>2
      <4> QED
        BY <1>4, <1>5, <1>9, <4>1, <4>2, OtherStands
    <3> QED
      BY <3>1, <3>2
  <2> QED
    BY <1>7, <1>8, <2>7, <2>8 DEF LedgerInv
<1>11. CASE ~(HasExpectedRevision(source, next[c]) /\ Parse(source.lines) # Unparsable)
  <2>1. todoPc' = [todoPc EXCEPT ![c] = "reread"] /\ writer' = writer /\ ready' = ready
    BY <1>11 DEF ReadSource, TodoStep
  <2>2. LedgerTypes'
    BY <1>1, <1>2, <2>1 DEF LedgerTypes, TodoSteps
  <2>3. ASSUME NEW k \in Callers PROVE Standing(k)'
    <3>1. CASE k = c
      <4>1. todoPc'[c] = "reread" /\ next'[c] = next[c] /\ basis'[c] = basis[c]
        BY <1>1, <1>2, <2>1 DEF LedgerTypes
      <4>2. Settled(basis[c], source') /\ next'[c].rev < changes' /\ writer' # c
        BY <1>2, <1>5, <1>6, <2>1
      <4> QED
        BY <3>1, <1>2, <1>3, <1>6, <2>1, <4>1, <4>2 DEF Standing
    <3>2. CASE k # c
      <4>1. todoPc'[k] = todoPc[k] /\ next'[k] = next[k] /\ basis'[k] = basis[k]
        BY <1>1, <1>2, <2>1, <3>2 DEF LedgerTypes
      <4>2. writer' = k <=> writer = k
        BY <2>1
      <4> QED
        BY <1>4, <1>5, <1>9, <4>1, <4>2, OtherStands
    <3> QED
      BY <3>1, <3>2
  <2> QED
    BY <1>7, <1>8, <2>2, <2>3 DEF LedgerInv
<1> QED
  BY <1>10, <1>11

\* What a rename does to the file, and to the operations that are not writing.
LEMMA ReplaceEffect ==
  ASSUME LedgerInv, NEW c \in Callers, todoPc[c] = "write", Replace(c)
  PROVE  /\ ready[c] \in Files /\ source' = ready[c] /\ GoesOn(source, source') /\ source'.rev < changes
         /\ Document(source') = next[c] /\ source'.rev = next[c].rev
         /\ overwrote' = FALSE /\ writer' = NoWriter /\ ready' = [ready EXCEPT ![c] = NoSource]
         /\ kept \subseteq NoteIds(source')
         /\ \A k \in Callers \ {c} : todoPc[k] # "write" /\ writer # k /\ writer' # k
         /\ writer' # c
<1>1. LedgerTypes /\ Standing(c) /\ overwrote = FALSE
  BY DEF LedgerInv
<1>2. /\ writer = c /\ ready[c] # NoSource /\ Document(ready[c]) = next[c] /\ source.rev = basis[c].rev
      /\ next[c].rev = basis[c].rev + 1 /\ Settled(basis[c], source) /\ next[c].rev < changes
      /\ kept \subseteq NoteIds(ready[c])
  BY <1>1 DEF Standing
<1>3. source' = ready[c] /\ writer' = NoWriter /\ ready' = [ready EXCEPT ![c] = NoSource]
      /\ overwrote' = (overwrote \/ (source # NoSource /\ Document(source) # basis[c]))
  BY DEF Replace
<1>4. source \in Files /\ ready[c] \in Files /\ basis[c] \in Documents
  BY <1>1 DEF LedgerTypes
<1>5. ready[c].rev = next[c].rev /\ source.rev \in Int /\ basis[c].rev \in Int
  BY <1>2, <1>4, FileTyped, DocumentTyped
<1>6. Document(source) = basis[c]
  BY <1>2, <1>5 DEF Settled
<1>7. GoesOn(source, ready[c])
  BY <1>2, <1>4, <1>5 DEF GoesOn
<1>8. \A k \in Callers \ {c} : todoPc[k] # "write" /\ writer # k
  BY <1>2 DEF LedgerInv, Standing
<1> QED
  BY <1>1, <1>2, <1>3, <1>4, <1>5, <1>6, <1>7, <1>8, NoWriterIsNone

\* The rename keeps the invariant.
LEMMA WriteKeeps ==
  ASSUME LedgerInv, NEW c \in Callers, WriteTodo(c)
  PROVE  LedgerInv'
<1>1. LedgerTypes /\ Standing(c) /\ changes \in 0..MaxChanges /\ MaxChanges \in Nat
  BY LedgerAssumption DEF LedgerInv
<1>2. /\ todoPc[c] = "write" /\ todoPc' = [todoPc EXCEPT ![c] = "settle"] /\ Replace(c)
      /\ lastInternal' = [lastInternal EXCEPT ![LedgerOf[c]] = ready[c]]
      /\ UNCHANGED <<current, next, basis, observed, glimpse, changes, kept>>
  BY DEF WriteTodo, TodoStep
<1>3. /\ ready[c] \in Files /\ source' = ready[c] /\ GoesOn(source, source') /\ source'.rev < changes
      /\ Document(source') = next[c] /\ source'.rev = next[c].rev
      /\ overwrote' = FALSE /\ writer' = NoWriter /\ ready' = [ready EXCEPT ![c] = NoSource]
      /\ kept \subseteq NoteIds(source')
      /\ \A k \in Callers \ {c} : todoPc[k] # "write" /\ writer # k /\ writer' # k
      /\ writer' # c
  BY <1>2, ReplaceEffect
<1>4. LedgerTypes'
  <2>1. NoSource \in Files /\ "settle" \in TodoSteps
    BY DEF Files, TodoSteps
  <2> QED
    BY <1>1, <1>2, <1>3, <2>1 DEF LedgerTypes
<1>5. ASSUME NEW k \in Callers PROVE Standing(k)'
  <2>1. CASE k = c
    <3>1. todoPc'[c] = "settle" /\ next'[c] = next[c] /\ basis'[c] = basis[c]
      BY <1>1, <1>2 DEF LedgerTypes
    <3>2. source \in Files /\ basis[c] \in Documents /\ Settled(basis[c], source) /\ source' \in Files
      BY <1>1, <1>3 DEF LedgerTypes, Standing
    <3>3. Settled(basis[c], source')
      BY <1>3, <3>2, SettledGoesOn
    <3>4. Settled(next[c], source')
      BY <1>3, <3>2, SettledItself
    <3>5. next[c] # NoDocument /\ next[c].rev = basis[c].rev + 1 /\ next[c].rev < changes
      BY <1>1, <1>2 DEF Standing
    <3> QED
      BY <2>1, <1>2, <1>3, <3>1, <3>3, <3>4, <3>5 DEF Standing
  <2>2. CASE k # c
    <3>1. todoPc'[k] = todoPc[k] /\ next'[k] = next[k] /\ basis'[k] = basis[k]
      BY <1>1, <1>2, <2>2 DEF LedgerTypes
    <3>2. (writer' = k <=> writer = k) /\ todoPc[k] # "write"
      BY <1>3, <2>2
    <3>3. changes' \in Int /\ changes' >= changes
      BY <1>1, <1>2
    <3> QED
      BY <1>3, <3>1, <3>2, <3>3, OtherStands
  <2> QED
    BY <2>1, <2>2
<1>6. \A l \in Ledgers : Showing(l)'
  BY <1>2, <1>3, StaysShown
<1>7. (kept \subseteq NoteIds(source))' /\ changes' \in 0..MaxChanges /\ source'.rev < changes'
  <2>1. kept' \subseteq NoteIds(source')
    BY <1>2, <1>3
  <2> QED
    BY <1>1, <1>2, <1>3, <2>1 DEF NoteIds
<1> QED
  BY <1>3, <1>4, <1>5, <1>6, <1>7 DEF LedgerInv

\* An operation ends, whether it has written or not: it shows what it may.
LEMMA EndKeeps ==
  ASSUME LedgerInv, NEW c \in Callers, todoPc' = [todoPc EXCEPT ![c] = "idle"], Done(c),
         writer' # c, \A k \in Callers \ {c} : writer' = k <=> writer = k,
         \A k \in Callers \ {c} : todoPc[k] = "write" => ready'[k] = ready[k] /\ UNCHANGED source,
         ready' \in [Callers -> Files], writer' \in Callers \union {NoWriter},
         GoesOn(source, source'), source'.rev < changes, kept \subseteq NoteIds(source'),
         overwrote' = FALSE, UNCHANGED <<watchVars, changes, kept>>,
         NEW d \in Documents, Settled(d, source'),
         current' = current \/ current' = [current EXCEPT ![LedgerOf[c]] = d]
  PROVE  LedgerInv'
<1>1. LedgerTypes /\ changes \in 0..MaxChanges /\ MaxChanges \in Nat /\ LedgerOf[c] \in Ledgers
  BY LedgerAssumption DEF LedgerInv, Ledgers
<1>2. /\ next' = [next EXCEPT ![c] = NoDocument] /\ basis' = [basis EXCEPT ![c] = NoDocument]
      /\ UNCHANGED <<lastInternal, observed, glimpse>>
  BY DEF Done, watchVars
<1>3. source' \in Files
  BY DEF GoesOn
<1>4. LedgerTypes'
  <2>1. NoDocument \in Documents /\ "idle" \in TodoSteps
    BY DEF Documents, TodoSteps
  <2> QED
    BY <1>1, <1>2, <1>3, <2>1 DEF LedgerTypes
<1>5. ASSUME NEW k \in Callers PROVE Standing(k)'
  <2>1. CASE k = c
    <3>1. todoPc'[c] = "idle" /\ next'[c] = NoDocument /\ basis'[c] = NoDocument
      BY <1>1, <1>2 DEF LedgerTypes
    <3>2. changes' \in Nat
      BY <1>1
    <3> QED
      BY <2>1, <1>3, <3>1, <3>2, EndedStands
  <2>2. CASE k # c
    <3>1. todoPc'[k] = todoPc[k] /\ next'[k] = next[k] /\ basis'[k] = basis[k]
      BY <1>1, <1>2, <2>2 DEF LedgerTypes
    <3>2. changes' \in Int /\ changes' >= changes
      BY <1>1
    <3>3. todoPc[k] = "write" => ready'[k] = ready[k] /\ source'.rev = source.rev /\ kept' \subseteq NoteIds(ready[k])
      <4>1. todoPc[k] = "write" => kept \subseteq NoteIds(ready[k])
        BY DEF LedgerInv, Standing
      <4> QED
        BY <2>2, <4>1
    <3> QED
      BY <2>2, <3>1, <3>2, <3>3, OtherStands
  <2> QED
    BY <2>1, <2>2
<1>6. ASSUME NEW l \in Ledgers PROVE Showing(l)'
  <2>1. current'[l] = current[l] \/ (current'[l] \in Documents /\ Settled(current'[l], source'))
    BY <1>1 DEF LedgerTypes
  <2> QED
    BY <1>2, <2>1, StaysShown
<1>7. (kept \subseteq NoteIds(source))' /\ changes' \in 0..MaxChanges /\ source'.rev < changes'
  BY <1>1 DEF NoteIds
<1> QED
  BY <1>4, <1>5, <1>6, <1>7 DEF LedgerInv

\* So does the end of a commit that succeeded,
LEMMA SettleKeeps ==
  ASSUME LedgerInv, NEW c \in Callers, SettleTodo(c)
  PROVE  LedgerInv'
<1>1. LedgerTypes /\ Standing(c) /\ source.rev < changes /\ kept \subseteq NoteIds(source) /\ overwrote = FALSE
  BY DEF LedgerInv
<1>2. /\ todoPc[c] = "settle" /\ todoPc' = [todoPc EXCEPT ![c] = "idle"] /\ Done(c)
      /\ current' = [current EXCEPT ![LedgerOf[c]] = next[c]]
      /\ UNCHANGED <<source, ready, writer, watchVars, changes, overwrote, kept>>
  BY DEF SettleTodo, TodoStep
<1>3. next[c] \in Documents /\ Settled(next[c], source') /\ writer' # c /\ source \in Files
      /\ ready' \in [Callers -> Files] /\ writer' \in Callers \union {NoWriter}
  BY <1>1, <1>2 DEF LedgerTypes, Standing
<1>4. GoesOn(source, source') /\ kept \subseteq NoteIds(source') /\ source'.rev < changes /\ overwrote' = FALSE
  BY <1>1, <1>2, <1>3 DEF GoesOn
<1> QED
  BY <1>2, <1>3, <1>4, EndKeeps

\* the end of one that met a conflict,
LEMMA RereadKeeps ==
  ASSUME LedgerInv, NEW c \in Callers, Reread(c)
  PROVE  LedgerInv'
<1> DEFINE d == IF Document(source).items = Unparsable THEN NoDocument ELSE Document(source)
<1>1. LedgerTypes /\ Standing(c) /\ source.rev < changes /\ kept \subseteq NoteIds(source) /\ overwrote = FALSE
  BY DEF LedgerInv
<1>2. /\ todoPc[c] = "reread" /\ todoPc' = [todoPc EXCEPT ![c] = "idle"] /\ Done(c)
      /\ current' = [current EXCEPT ![LedgerOf[c]] = d]
      /\ UNCHANGED <<source, ready, writer, watchVars, changes, overwrote, kept>>
  BY DEF Reread, TodoStep
<1>3. source \in Files /\ writer' # c /\ ready' \in [Callers -> Files] /\ writer' \in Callers \union {NoWriter}
  BY <1>1, <1>2 DEF LedgerTypes, Standing
<1>4. d \in Documents /\ Settled(d, source')
  <2>1. Document(source) \in Documents /\ NoDocument \in Documents
        /\ Settled(Document(source), source) /\ Settled(NoDocument, source)
    BY <1>3, FileTyped, SettledItself
  <2> QED
    BY <1>2, <2>1
<1> HIDE DEF d
<1>5. GoesOn(source, source') /\ kept \subseteq NoteIds(source') /\ source'.rev < changes /\ overwrote' = FALSE
  BY <1>1, <1>2, <1>3 DEF GoesOn
<1> QED
  BY <1>2, <1>3, <1>4, <1>5, EndKeeps

\* and a failure at the lock, before the rename or behind it.
LEMMA FailKeeps ==
  ASSUME LedgerInv, NEW c \in Callers, FailTodo(c)
  PROVE  LedgerInv'
<1>1. LedgerTypes /\ Standing(c) /\ source.rev < changes /\ kept \subseteq NoteIds(source) /\ overwrote = FALSE
  BY DEF LedgerInv
<1>2. /\ Done(c) /\ UNCHANGED <<current, watchVars, changes, kept>>
  BY DEF FailTodo
<1>3. source \in Files /\ ready \in [Callers -> Files] /\ writer \in Callers \union {NoWriter} /\ NoSource \in Files
  BY <1>1 DEF LedgerTypes, Files
<1>4. ASSUME source' \in Files PROVE NoDocument \in Documents /\ Settled(NoDocument, source')
  BY <1>4, SettledItself
<1>5. CASE TodoStep(c, "lock", "idle") /\ UNCHANGED <<source, ready, writer, overwrote>>
  <2>1. todoPc[c] = "lock" /\ todoPc' = [todoPc EXCEPT ![c] = "idle"] /\ writer' # c
    BY <1>1, <1>5 DEF TodoStep, Standing
  <2>2. GoesOn(source, source') /\ kept \subseteq NoteIds(source') /\ source'.rev < changes /\ overwrote' = FALSE
    BY <1>1, <1>3, <1>5 DEF GoesOn
  <2> QED
    BY <1>2, <1>3, <1>4, <1>5, <2>1, <2>2, EndKeeps
<1>6. CASE /\ TodoStep(c, "write", "idle") /\ writer' = NoWriter /\ ready' = [ready EXCEPT ![c] = NoSource]
           /\ UNCHANGED <<source, overwrote>>
  <2>1. todoPc[c] = "write" /\ todoPc' = [todoPc EXCEPT ![c] = "idle"] /\ writer = c
    BY <1>1, <1>6 DEF TodoStep, Standing
  <2>2. GoesOn(source, source') /\ kept \subseteq NoteIds(source') /\ source'.rev < changes /\ overwrote' = FALSE
    BY <1>1, <1>3, <1>6 DEF GoesOn
  <2>3. writer' # c /\ \A k \in Callers \ {c} : (writer' = k <=> writer = k)
    BY <1>6, <2>1, NoWriterIsNone
  <2>4. \A k \in Callers \ {c} : todoPc[k] = "write" => ready'[k] = ready[k] /\ UNCHANGED source
    BY <1>3, <1>6
  <2>5. ready' \in [Callers -> Files] /\ writer' \in Callers \union {NoWriter}
    BY <1>3, <1>6
  <2> QED
    BY <1>2, <1>3, <1>4, <1>6, <2>1, <2>2, <2>3, <2>4, <2>5, EndKeeps
<1>7. CASE TodoStep(c, "write", "idle") /\ Replace(c)
  <2>1. todoPc[c] = "write" /\ todoPc' = [todoPc EXCEPT ![c] = "idle"]
    BY <1>7 DEF TodoStep
  <2>2. /\ ready[c] \in Files /\ source' = ready[c] /\ GoesOn(source, source') /\ source'.rev < changes
        /\ overwrote' = FALSE /\ writer' = NoWriter /\ ready' = [ready EXCEPT ![c] = NoSource]
        /\ kept \subseteq NoteIds(source')
        /\ \A k \in Callers \ {c} : todoPc[k] # "write" /\ writer # k /\ writer' # k
        /\ writer' # c
    BY <1>7, <2>1, ReplaceEffect
  <2>3. ready' \in [Callers -> Files] /\ writer' \in Callers \union {NoWriter}
    BY <1>3, <2>2
  <2> QED
    BY <1>2, <1>4, <2>1, <2>2, <2>3, EndKeeps
<1> QED
  BY <1>5, <1>6, <1>7 DEF FailTodo

\* The watch changes what its ledger shows, and nothing of what is under way.
LEMMA WatchKeeps ==
  ASSUME LedgerInv, NEW l \in Ledgers, WatchRead(l) \/ WatchDeliver(l)
  PROVE  LedgerInv'
<1>1. LedgerTypes /\ Showing(l) /\ source.rev < changes /\ kept \subseteq NoteIds(source) /\ overwrote = FALSE
      /\ changes \in 0..MaxChanges /\ MaxChanges \in Nat
  BY LedgerAssumption DEF LedgerInv
<1>2. UNCHANGED <<source, todoPc, next, basis, ready, writer, changes, overwrote, kept>>
  BY DEF WatchRead, WatchDeliver
<1>3. source \in Files /\ glimpse[l] \in Files /\ NoSource \in Files /\ Document(glimpse[l]) \in Documents
  BY <1>1, FileTyped DEF LedgerTypes, Files
<1>4. /\ current' = current \/ current' = [current EXCEPT ![l] = Document(glimpse[l])]
      /\ glimpse' = [glimpse EXCEPT ![l] = source] \/ glimpse' = [glimpse EXCEPT ![l] = NoSource]
      /\ observed' = observed \/ observed' = [observed EXCEPT ![l] = glimpse[l]]
      /\ lastInternal' = lastInternal \/ lastInternal' = [lastInternal EXCEPT ![l] = NoSource]
  BY DEF WatchRead, WatchDeliver
<1>5. LedgerTypes'
  BY <1>1, <1>2, <1>3, <1>4 DEF LedgerTypes
<1>6. GoesOn(source, source')
  BY <1>2, <1>3 DEF GoesOn
<1>7. ASSUME NEW k \in Callers PROVE Standing(k)'
  <2>1. changes' \in Int /\ changes' >= changes
    BY <1>1, <1>2
  <2>2. todoPc[k] = "write" => ready'[k] = ready[k] /\ source'.rev = source.rev /\ kept' \subseteq NoteIds(ready[k])
    BY <1>2 DEF LedgerInv, Standing
  <2> QED
    BY <1>2, <1>6, <2>1, <2>2, OtherStands
<1>8. ASSUME NEW m \in Ledgers PROVE Showing(m)'
  <2>1. current'[m] = current[m] \/ (current'[m] \in Documents /\ Settled(current'[m], source'))
    BY <1>1, <1>2, <1>3, <1>4 DEF LedgerTypes, Showing
  <2>2. glimpse'[m] \in {glimpse[m], NoSource, source'}
    BY <1>1, <1>2, <1>4 DEF LedgerTypes
  <2> QED
    BY <1>6, <2>1, <2>2, StaysShown
<1>9. (kept \subseteq NoteIds(source))' /\ changes' \in 0..MaxChanges /\ source'.rev < changes' /\ overwrote' = FALSE
  BY <1>1, <1>2 DEF NoteIds
<1> QED
  BY <1>5, <1>7, <1>8, <1>9 DEF LedgerInv

\* The editor leaves the managed lines alone.
LEMMA EditorKeeps ==
  ASSUME LedgerInv, NEW text, source # NoSource, Reads(text, Parse(source.lines)), EditorSaves(text),
         kept' \subseteq NotesAmong(text), kept' \subseteq EditorNotes,
         writer # NoWriter => kept' = kept
  PROVE  LedgerInv'
<1>1. LedgerTypes /\ source.rev < changes /\ overwrote = FALSE /\ changes \in 0..MaxChanges /\ MaxChanges \in Nat
  BY LedgerAssumption DEF LedgerInv
<1>2. /\ source' = [source EXCEPT !.lines = text]
      /\ UNCHANGED <<current, todoPc, next, basis, ready, writer, lastInternal, observed, glimpse, changes, overwrote>>
  BY DEF EditorSaves, watchVars
<1>3. /\ source \in Files /\ source.rev \in Nat /\ source = [rev |-> source.rev, lines |-> source.lines]
      /\ Document(source) = [rev |-> source.rev, items |-> Parse(source.lines)]
  BY <1>1, FileTyped DEF LedgerTypes
<1>4. source' = [rev |-> source.rev, lines |-> text]
  BY <1>2, <1>3
<1>5. source' \in Files /\ Document(source') = Document(source) /\ source'.rev = source.rev /\ source'.lines = text
  <2>1. [rev |-> source.rev, lines |-> text] \in Files
        /\ Document([rev |-> source.rev, lines |-> text]) = [rev |-> source.rev, items |-> Parse(source.lines)]
    BY <1>3, FileOf
  <2> QED
    BY <2>1, <1>3, <1>4
<1>6. GoesOn(source, source')
  BY <1>5 DEF GoesOn
<1>7. LedgerTypes'
  BY <1>1, <1>2, <1>5 DEF LedgerTypes
<1>8. ASSUME NEW k \in Callers PROVE Standing(k)'
  <2>1. changes' \in Int /\ changes' >= changes
    BY <1>1, <1>2
  <2>2. todoPc[k] = "write" => ready'[k] = ready[k] /\ source'.rev = source.rev /\ kept' \subseteq NoteIds(ready[k])
    <3> SUFFICES ASSUME todoPc[k] = "write" PROVE kept' \subseteq NoteIds(ready[k])
      BY <1>2, <1>5
    <3>1. writer = k /\ kept \subseteq NoteIds(ready[k])
      BY DEF LedgerInv, Standing
    <3> QED
      BY <3>1, NoWriterIsNone
  <2> QED
    BY <1>2, <1>6, <2>1, <2>2, OtherStands
<1>9. \A l \in Ledgers : Showing(l)'
  BY <1>2, <1>6, StaysShown
<1>10. (kept \subseteq NoteIds(source))' /\ changes' \in 0..MaxChanges /\ source'.rev < changes' /\ overwrote' = FALSE
  <2>1. kept' \subseteq NoteIds(source')
    BY <1>5 DEF NoteIds, NotesAmong
  <2> QED
    BY <1>1, <1>2, <1>5, <2>1 DEF NoteIds
<1> QED
  BY <1>7, <1>8, <1>9, <1>10 DEF LedgerInv

\* A file that exists reads as a valid document and has the notes that are to be kept.
LEMMA SourceRead ==
  ASSUME LedgerInv, source # NoSource
  PROVE  /\ Reads(source.lines, Parse(source.lines)) /\ kept \subseteq NotesAmong(source.lines)
         /\ kept \subseteq EditorNotes
<1>1. source \in Files /\ kept \subseteq NoteIds(source) /\ kept \subseteq EditorNotes
  BY DEF LedgerInv, LedgerTypes
<1> QED
  BY <1>1, FileTyped DEF NoteIds, NotesAmong

\* A further note of the editor keeps the invariant.
LEMMA EditKeeps ==
  ASSUME LedgerInv, NEW n \in EditorNotes, Edit(n)
  PROVE  LedgerInv'
<1>1. PICK k \in DOMAIN source.lines : EditorSaves(WithNote(source.lines, k, n))
  BY DEF Edit
<1> DEFINE text == WithNote(source.lines, k, n)
<1>2. source # NoSource /\ EditorSaves(text) /\ kept' = IF writer = NoWriter THEN kept \union {n} ELSE kept
  BY <1>1 DEF Edit, EditorSaves
<1>3. Reads(source.lines, Parse(source.lines)) /\ kept \subseteq NotesAmong(source.lines) /\ kept \subseteq EditorNotes
  BY <1>2, SourceRead
<1>4. n \in Nat
  BY LedgerAssumption
<1>5. Reads(text, Parse(source.lines)) /\ NotesAmong(text) = NotesAmong(source.lines) \union {n}
  BY <1>3, <1>4, EditReads
<1> HIDE DEF text
<1> QED
  BY <1>2, <1>3, <1>5, EditorKeeps

\* So does the break it takes from a note at the end: nothing managed stands behind it.
LEMMA DropKeeps ==
  ASSUME LedgerInv, Unended \subseteq {"note"}, DropBreak
  PROVE  LedgerInv'
<1> DEFINE text == [source.lines EXCEPT ![Len(source.lines)].eol = FALSE]
           x == source.lines[Len(source.lines)]
<1>1. /\ source # NoSource /\ EditorSaves(text) /\ kept' = kept
      /\ x.kind = "note" /\ x # NoteLine(0)
  BY DEF DropBreak, Last
<1>2. Reads(source.lines, Parse(source.lines)) /\ kept \subseteq NotesAmong(source.lines) /\ kept \subseteq EditorNotes
  BY <1>1, SourceRead
<1>3. Reads(text, Parse(source.lines)) /\ NotesAmong(text) = NotesAmong(source.lines)
  BY <1>1, <1>2, LastBreakReads
<1> HIDE DEF text
<1> QED
  BY <1>1, <1>2, <1>3, EditorKeeps

\* The native plan makes items.
LEMMA PlanTyped ==
  ASSUME NEW plan \in Plans
  PROVE  FromPlan(plan) \in Seq(WorkItems)
<1> DEFINE n == IF Len(plan) < ItemLimit THEN Len(plan) ELSE ItemLimit
<1>1. plan \in Seq({"pending", "running", "completed", "failed", "cancelled"})
  BY LedgerAssumption
<1>2. n \in Nat
  BY <1>1, TodoLimits
<1>3. ASSUME NEW i \in 1..n PROVE NativeItem(i, PlanStatus(plan, i)) \in WorkItems
  <2> DEFINE s == PlanStatus(plan, i)
             one == <<Detail(s)>>
  <2>1. TodoStatus(plan[i]) \in Statuses
    BY DEF TodoStatus, Statuses
  <2>2. s \in Statuses
    BY <2>1 DEF PlanStatus, Statuses
  <2> HIDE DEF s
  <2>3. Detail(s) \in Details
    BY <2>2 DEF Detail, Details
  <2>4. one \in Seq(Details)
    BY <2>3
  <2>5. -i \in Int
    BY <1>2
  <2>6. NativeItem(i, s) = [id |-> -i, status |-> s, evidence |-> {}, details |-> one]
    BY DEF NativeItem, Item
  <2> HIDE DEF one
  <2>7. NativeItem(i, s) \in WorkItems
    BY <2>2, <2>4, <2>5, <2>6 DEF WorkItems
  <2> QED
    BY <2>7 DEF s
<1>4. FromPlan(plan) = [i \in 1..n |-> NativeItem(i, PlanStatus(plan, i))]
  BY DEF FromPlan
<1> HIDE DEF n
<1> QED
  BY <1>2, <1>3, <1>4

\* The invariant holds of the ledgers before any Todo exists.
LEMMA LedgerStarts == TodoInit => LedgerInv
<1> SUFFICES ASSUME TodoInit PROVE LedgerInv
  OBVIOUS
<1>1. NoSource \in Files /\ NoDocument \in Documents /\ "idle" \in TodoSteps
  BY DEF Files, Documents, TodoSteps
<1>2. LedgerTypes
  BY <1>1 DEF TodoInit, LedgerTypes
<1>3. Settled(NoDocument, NoSource) /\ Document(NoSource) = NoDocument /\ NoDocument.rev = -1 /\ NoSource.rev = -1
  BY <1>1, SettledItself DEF Document, NoDocument, NoSource
<1>4. \A c \in Callers : Standing(c)
  BY <1>3, NoWriterIsNone DEF TodoInit, Standing
<1>5. \A l \in Ledgers : Showing(l)
  BY <1>3 DEF TodoInit, Showing
<1>6. changes \in 0..MaxChanges /\ source.rev < changes
  BY <1>3, LedgerAssumption DEF TodoInit
<1> QED
  BY <1>2, <1>4, <1>5, <1>6 DEF TodoInit, LedgerInv

\* Every step keeps it.
LEMMA LedgerStep ==
  ASSUME LedgerInv, Unended \subseteq {"note"}, [TodoNext]_todoVars
  PROVE  LedgerInv'
<1>1. \A c \in Callers : /\ current[LedgerOf[c]].items \in Seq(WorkItems) /\ ValidItems(current[LedgerOf[c]].items)
  <2> TAKE c \in Callers
  <2>1. current[LedgerOf[c]] \in Documents
    BY LedgerAssumption DEF LedgerInv, LedgerTypes, Ledgers
  <2> QED
    BY <2>1, DocumentTyped
<1>2. ASSUME NEW c \in Callers, CreateTodo(c) PROVE LedgerInv'
  <2>1. PICK n \in 1..ItemLimit : \E items \in Created(current[LedgerOf[c]].items, n) : Commit(c, items)
    BY <1>2 DEF CreateTodo
  <2>2. PICK items \in Created(current[LedgerOf[c]].items, n) : Commit(c, items)
    BY <2>1
  <2>3. items \in Seq(WorkItems)
    BY <1>1, CreateFollows DEF Follows
  <2>4. MayCommit(c)
    BY <1>2 DEF CreateTodo
  <2> QED
    BY <2>2, <2>3, <2>4, CommitKeeps
<1>3. ASSUME NEW c \in Callers, ChangeTodo(c) PROVE LedgerInv'
  <2>1. PICK items \in Changed(current[LedgerOf[c]].items) : Commit(c, items)
    BY <1>3 DEF ChangeTodo
  <2>2. items \in Seq(WorkItems)
    BY <1>1, CommandsFollow DEF Follows
  <2>3. MayCommit(c)
    BY <1>3 DEF ChangeTodo
  <2> QED
    BY <2>1, <2>2, <2>3, CommitKeeps
<1>4. ASSUME NEW c \in Callers, SyncNativePlan(c) PROVE LedgerInv'
  <2>1. PICK plan \in Plans : Commit(c, FromPlan(plan))
    BY <1>4 DEF SyncNativePlan
  <2>2. FromPlan(plan) \in Seq(WorkItems)
    BY PlanTyped
  <2>3. MayCommit(c)
    BY <1>4 DEF SyncNativePlan
  <2> QED
    BY <2>1, <2>2, <2>3, CommitKeeps
<1>5. ASSUME NEW c \in Callers, ReadSource(c) \/ WriteTodo(c) \/ SettleTodo(c) \/ Reread(c) \/ FailTodo(c)
      PROVE  LedgerInv'
  BY <1>5, ReadSourceKeeps, WriteKeeps, SettleKeeps, RereadKeeps, FailKeeps
<1>6. ASSUME NEW l \in Watching, WatchRead(l) \/ WatchDeliver(l) PROVE LedgerInv'
  <2>1. l \in Ledgers
    BY LedgerAssumption DEF Ledgers
  <2> QED
    BY <1>6, <2>1, WatchKeeps
<1>7. ASSUME NEW n \in EditorNotes, Edit(n) PROVE LedgerInv'
  BY <1>7, EditKeeps
<1>8. ASSUME DropBreak PROVE LedgerInv'
  BY <1>8, DropKeeps
<1>9. ASSUME UNCHANGED todoVars PROVE LedgerInv'
  <2>1. UNCHANGED <<source, current, todoPc, next, basis, ready, writer, lastInternal, observed, glimpse,
                    changes, overwrote, kept>>
    BY <1>9 DEF todoVars
  <2> QED
    BY <2>1 DEF LedgerInv, LedgerTypes, Standing, Showing, Settled, Document, NoteIds, NoDocument, NoSource
<1> QED
  BY <1>2, <1>3, <1>4, <1>5, <1>6, <1>7, <1>8, <1>9 DEF TodoNext

\* It holds of every behaviour in which no managed line loses its break.
LEMMA LedgerInductive ==
  ASSUME Unended \subseteq {"note"}
  PROVE  TodoSpec => []LedgerInv
<1>1. LedgerInv /\ [TodoNext]_todoVars => LedgerInv'
  BY LedgerStep
<1> QED
  BY <1>1, LedgerStarts, PTL DEF TodoSpec

\* What the invariant says of overwrites, of what is written, of notes and of types.
LEMMA LedgerMeans == LedgerInv => NoUpdateOverwritten /\ WrittenReadsBack /\ NotesKept /\ TodoTypeOK
<1> SUFFICES ASSUME LedgerInv PROVE NoUpdateOverwritten /\ WrittenReadsBack /\ NotesKept /\ TodoTypeOK
  OBVIOUS
<1>1. LedgerTypes /\ (\A c \in Callers : Standing(c)) /\ (\A l \in Ledgers : Showing(l)) /\ source.rev < changes
      /\ changes \in 0..MaxChanges /\ MaxChanges \in Nat
  BY LedgerAssumption DEF LedgerInv
<1>2. NoUpdateOverwritten /\ NotesKept
  BY DEF LedgerInv, NoUpdateOverwritten, NotesKept
<1>3. WrittenReadsBack
  BY <1>1 DEF WrittenReadsBack, Standing
<1>4. source.rev \in Int /\ source.rev >= -1 /\ source.rev \in -1..MaxChanges
  <2>1. source.rev \in Int /\ source.rev >= -1
    BY <1>1, FileTyped DEF LedgerTypes
  <2> QED
    BY <1>1, <2>1
<1>5. ASSUME NEW l \in Ledgers PROVE current[l].rev \in -1..MaxChanges /\ ValidItems(current[l].items)
  <2>1. current[l] \in Documents /\ current[l].rev <= source.rev
    BY <1>1 DEF LedgerTypes, Showing, Settled
  <2>2. current[l].rev \in Int /\ current[l].rev >= -1 /\ ValidItems(current[l].items)
    BY <2>1, DocumentTyped
  <2> QED
    BY <1>1, <1>4, <2>1, <2>2
<1>6. \A c \in Callers : ValidItems(next[c].items)
  BY <1>1, DocumentTyped DEF LedgerTypes
<1>7. writer # NoWriter <=> \E c \in Callers : todoPc[c] = "write"
  BY <1>1, NoWriterIsNone DEF LedgerTypes, Standing
<1>8. TodoTypeOK
  BY <1>1, <1>4, <1>5, <1>6, <1>7 DEF TodoTypeOK, LedgerTypes
<1> QED
  BY <1>2, <1>3, <1>8

\* For any ledgers, callers, plans, notes and faults, if the editor leaves no item or detail without
\* its line break: a write replaces only the document it was computed from (todo-store.ts
\* compareAndSwap, todo-ledger.ts commit), although both only compare revisions.
THEOREM NoUpdateIsLost ==
  ASSUME Unended \subseteq {"note"}
  PROVE  TodoSpec => []NoUpdateOverwritten
<1>1. LedgerInv => NoUpdateOverwritten
  BY LedgerMeans
<1> QED
  BY <1>1, LedgerInductive, PTL

\* Under the same condition what is about to be written reads as the document that is committed,
\* wherever the editor's lines stand, and has every one of them (patchTodoMarkdown, parseTodoMarkdown).
THEOREM WritesReadBack ==
  ASSUME Unended \subseteq {"note"}
  PROVE  TodoSpec => []WrittenReadsBack
<1>1. LedgerInv => WrittenReadsBack
  BY LedgerMeans
<1> QED
  BY <1>1, LedgerInductive, PTL

\* Under the same condition no note of the editor is lost but one saved between a write's read and
\* its rename (patchTodoMarkdown keeps every other line).
THEOREM EditorNotesAreKept ==
  ASSUME Unended \subseteq {"note"}
  PROVE  TodoSpec => []NotesKept
<1>1. LedgerInv => NotesKept
  BY LedgerMeans
<1> QED
  BY <1>1, LedgerInductive, PTL

\* Under the same condition every ledger shows a valid document of a revision that was committed,
\* and the lock is held exactly while one operation writes.
THEOREM LedgerIsTyped ==
  ASSUME Unended \subseteq {"note"}
  PROVE  TodoSpec => []TodoTypeOK
<1>1. LedgerInv => TodoTypeOK
  BY LedgerMeans
<1> QED
  BY <1>1, LedgerInductive, PTL

-----------------------------------------------------------------------------
(* The lease.                                                              *)

Owning == {"created", "held", "release", "remove"}

\* A process that is further than open has the lock of its token; nobody else has.
LockFitsLease ==
  \A p \in Processes : lease[p] \in Owning <=> LockExists /\ lock.token = token[p]

\* A token is of one acquisition.
TokensFit ==
  /\ \A p \in Processes : token[p] <= tokens /\ lock.token <= tokens
  /\ \A p \in Processes : p \in running <=> lease[p] # "none"
  /\ \A p \in Processes : token[p] = NoToken <=> lease[p] = "none"
  /\ \A p, q \in Processes : token[p] = token[q] /\ token[p] # NoToken => p = q
  /\ \A p \in Processes : LockExists /\ lock.token = token[p] => p = lock.pid

LeaseInv == LeaseTypeOK /\ TokensFit /\ (robbed = {} => LockFitsLease)

-----------------------------------------------------------------------------
(* The session.                                                            *)

\* The creator has the thread for itself until it has its lease.
CreatorAlone ==
  /\ creator \in Processes \union {NoProcess, Gone}
  /\ creator = NoProcess => ~LockExists /\ \A p \in Processes : lease[p] = "none"
  /\ creator \in Processes => lease[creator] # "none"
  /\ creator \in Opening =>
       /\ lease[creator] \in {"open", "created"}
       /\ lease[creator] = "open" => ~LockExists
       /\ \A q \in Processes \ {creator} : lease[q] = "none"

\* close() has settled the appends before it gives the lease back.
ClosedFirst ==
  /\ \A p \in Processes : lease[p] \in {"release", "remove"} => p \in closing
  /\ creator \in Processes /\ lease[creator] = "refused" => creator \in closing

BusyHolds ==
  \A p \in Processes :
    Busy(p) => lease[p] = "held" \/ (p = creator /\ lease[p] \in {"open", "created"})

SessionPart == CreatorAlone /\ ClosedFirst /\ BusyHolds

\* Neither door has been gone through (ThreadSession): it stays open for later.
Undisturbed == robbed = {} /\ ~early

SessionInv == LeaseInv /\ step \in [Writers -> Steps] /\ (Undisturbed => SessionPart)

-----------------------------------------------------------------------------
(* The journal.                                                            *)

\* What a process remembers is the beginning of the file.
Remembered(p) ==
  /\ Len(cache[p].lines) <= Len(lines)
  /\ \A i \in 1..Len(cache[p].lines) : cache[p].lines[i] = lines[i]

CacheFit(p) ==
  /\ cache[p].known => Remembered(p)
  /\ step[p] \in {"truncate", "write"} => cache[p].known /\ cache[p].lines = lines
  /\ step[p] = "write" => ~residue /\ ~Recorded(lines, input[p])
  /\ Busy(p) => input[p] \in Observations

CacheFits == \A p \in Writers : CacheFit(p)

JournalInv == JournalTypeOK /\ CacheFits /\ JournalKept

ThreadInv == SessionInv /\ (Undisturbed => JournalInv)

-----------------------------------------------------------------------------

\* The variables of the leases keep their types.
LEMMA LeaseTypes ==
  ASSUME LeaseTypeOK, TokensFit, [LeaseNext]_leaseVars
  PROVE  LeaseTypeOK'
<1>. USE LeaseAssumption DEF LeaseTypeOK, LeaseStates, LeaseStep, NoMoreTokens, NoLock, NoToken
<1>1. ASSUME NEW p \in Processes, Acquire(p) PROVE LeaseTypeOK'
  <2>1. tokens + 1 \in 1..MaxAcquisitions
    BY <1>1 DEF Acquire
  <2>2. lease' \in [Processes -> LeaseStates] /\ running' \subseteq Processes
    BY <1>1 DEF Acquire
  <2>3. token' \in [Processes -> 0..MaxAcquisitions] /\ tokens' \in 0..MaxAcquisitions
    BY <1>1, <2>1 DEF Acquire
  <2>4. UNCHANGED <<lock, robbed, crashes>>
    BY <1>1 DEF Acquire
  <2>. QED
    BY <2>2, <2>3, <2>4
<1>2. ASSUME NEW p \in Processes, OpenExclusive(p) PROVE LeaseTypeOK'
  <2>1. lease[p] = "open" => token[p] \in 1..MaxAcquisitions
    BY DEF TokensFit
  <2>3. lease[p] = "open" =>
          [token |-> token[p], pid |-> p, written |-> FALSE]
            \in [token : 1..MaxAcquisitions, pid : Processes, written : BOOLEAN]
    BY <2>1
  <2>2. lock' \in {NoLock} \union [token : 1..MaxAcquisitions, pid : Processes, written : BOOLEAN]
    BY <1>2, <2>3, Zenon DEF OpenExclusive
  <2>. QED
    BY <1>2, <2>2 DEF OpenExclusive
<1>3. ASSUME NEW p \in Processes, WriteOwner(p) PROVE LeaseTypeOK'
  BY <1>3 DEF WriteOwner
<1>4. ASSUME NEW p \in Processes, ReadOwner(p) PROVE LeaseTypeOK'
  BY <1>4 DEF ReadOwner, LockExists
<1>5. ASSUME NEW p \in Processes, RemoveStale(p) PROVE LeaseTypeOK'
  BY <1>5 DEF RemoveStale, LockExists
<1>6. ASSUME NEW p \in Processes, Release(p) PROVE LeaseTypeOK'
  BY <1>6 DEF Release
<1>7. ASSUME NEW p \in Processes, ReadOwnLock(p) PROVE LeaseTypeOK'
  BY <1>7 DEF ReadOwnLock
<1>8. ASSUME NEW p \in Processes, RemoveOwnLock(p) PROVE LeaseTypeOK'
  BY <1>8 DEF RemoveOwnLock
<1>9. ASSUME NEW p \in Processes, LeaseExit(p) PROVE LeaseTypeOK'
  BY <1>9 DEF LeaseExit
<1>10. ASSUME NEW p \in Processes, LeaseCrash(p) PROVE LeaseTypeOK'
  BY <1>10 DEF LeaseCrash
<1>11. CASE UNCHANGED leaseVars
  BY <1>11 DEF leaseVars
<1>. QED
  BY <1>1, <1>2, <1>3, <1>4, <1>5, <1>6, <1>7, <1>8, <1>9, <1>10, <1>11 DEF LeaseNext, AcquireStep, ReleaseStep

\* Tokens stay unique: no new lock has the token of an older one.
LEMMA LeaseTokens ==
  ASSUME LeaseTypeOK, TokensFit, [LeaseNext]_leaseVars
  PROVE  TokensFit'
<1>. USE LeaseAssumption DEF LeaseTypeOK, TokensFit, LeaseStates, LeaseStep, NoMoreTokens, NoLock, NoToken, LockExists
<1>1. ASSUME NEW p \in Processes, Acquire(p) PROVE TokensFit'
  BY <1>1 DEF Acquire
<1>2. ASSUME NEW p \in Processes, OpenExclusive(p) PROVE TokensFit'
  BY <1>2 DEF OpenExclusive
<1>3. ASSUME NEW p \in Processes, WriteOwner(p) PROVE TokensFit'
  BY <1>3 DEF WriteOwner
<1>4. ASSUME NEW p \in Processes, ReadOwner(p) PROVE TokensFit'
  BY <1>4 DEF ReadOwner
<1>5. ASSUME NEW p \in Processes, RemoveStale(p) PROVE TokensFit'
  BY <1>5 DEF RemoveStale
<1>6. ASSUME NEW p \in Processes, Release(p) PROVE TokensFit'
  BY <1>6 DEF Release
<1>7. ASSUME NEW p \in Processes, ReadOwnLock(p) PROVE TokensFit'
  BY <1>7 DEF ReadOwnLock
<1>8. ASSUME NEW p \in Processes, RemoveOwnLock(p) PROVE TokensFit'
  BY <1>8 DEF RemoveOwnLock
<1>9. ASSUME NEW p \in Processes, LeaseExit(p) PROVE TokensFit'
  BY <1>9 DEF LeaseExit
<1>10. ASSUME NEW p \in Processes, LeaseCrash(p) PROVE TokensFit'
  BY <1>10 DEF LeaseCrash
<1>11. CASE UNCHANGED leaseVars
  BY <1>11 DEF leaseVars
<1>. QED
  BY <1>1, <1>2, <1>3, <1>4, <1>5, <1>6, <1>7, <1>8, <1>9, <1>10, <1>11 DEF LeaseNext, AcquireStep, ReleaseStep

\* The lock is that of the process that holds the lease, until a live one was robbed.
LEMMA LeaseOwners ==
  ASSUME LeaseTypeOK, TokensFit, robbed = {} => LockFitsLease, [LeaseNext]_leaseVars, robbed' = {}
  PROVE  LockFitsLease'
<1>0. robbed = {}
  BY DEF LeaseNext, leaseVars, Acquire, AcquireStep, OpenExclusive, WriteOwner, ReadOwner, RemoveStale,
     Release, ReleaseStep, ReadOwnLock, RemoveOwnLock, LeaseExit, LeaseCrash
<1>. LockFitsLease
  BY <1>0
<1>. USE LeaseAssumption DEF LeaseTypeOK, TokensFit, LockFitsLease, Owning, LeaseStates, LeaseStep, NoMoreTokens, NoLock, NoToken, LockExists
<1>1. ASSUME NEW p \in Processes, Acquire(p) PROVE LockFitsLease'
  BY <1>1 DEF Acquire
<1>2. ASSUME NEW p \in Processes, OpenExclusive(p) PROVE LockFitsLease'
  BY <1>2 DEF OpenExclusive
<1>3. ASSUME NEW p \in Processes, WriteOwner(p) PROVE LockFitsLease'
  BY <1>3 DEF WriteOwner
<1>4. ASSUME NEW p \in Processes, ReadOwner(p) PROVE LockFitsLease'
  BY <1>4 DEF ReadOwner
<1>5. ASSUME NEW p \in Processes, RemoveStale(p) PROVE LockFitsLease'
  <2>1. \A q \in Processes : lease[q] \notin Owning
    <3>. SUFFICES ASSUME NEW q \in Processes, lease[q] \in Owning PROVE FALSE
      OBVIOUS
    <3>1. LockExists /\ lock.token = token[q] /\ lock.pid = q /\ q \in running
      OBVIOUS
    <3>. QED
      BY <1>5, <3>1 DEF RemoveStale
  <2>2. ~LockExists' /\ lease' = [lease EXCEPT ![p] = "open"]
    BY <1>5 DEF RemoveStale
  <2>. QED
    BY <2>1, <2>2
<1>6. ASSUME NEW p \in Processes, Release(p) PROVE LockFitsLease'
  BY <1>6 DEF Release
<1>7. ASSUME NEW p \in Processes, ReadOwnLock(p) PROVE LockFitsLease'
  BY <1>7 DEF ReadOwnLock, OwnsLock
<1>8. ASSUME NEW p \in Processes, RemoveOwnLock(p) PROVE LockFitsLease'
  BY <1>8 DEF RemoveOwnLock
<1>9. ASSUME NEW p \in Processes, LeaseExit(p) PROVE LockFitsLease'
  BY <1>9 DEF LeaseExit
<1>10. ASSUME NEW p \in Processes, LeaseCrash(p) PROVE LockFitsLease'
  BY <1>10 DEF LeaseCrash
<1>11. CASE UNCHANGED leaseVars
  BY <1>11 DEF leaseVars
<1>. QED
  BY <1>1, <1>2, <1>3, <1>4, <1>5, <1>6, <1>7, <1>8, <1>9, <1>10, <1>11 DEF LeaseNext, AcquireStep, ReleaseStep

\* Whatever the processes do, they do with the lease what SessionLease lets them.
LEMMA ThreadsLease == [ThreadNext]_threadVars => [LeaseNext]_leaseVars
BY DEF ThreadNext, threadVars, Create, Resume, Lease, Observe, Journal, Leave, CloseSession,
       ExitSession, Crash, LeaseNext

\* Every step of the leases keeps their invariant.
LEMMA LeaseInductive ==
  ASSUME LeaseInv, [LeaseNext]_leaseVars
  PROVE  LeaseInv'
BY LeaseTypes, LeaseTokens, LeaseOwners DEF LeaseInv

-----------------------------------------------------------------------------
(* The session's part.                                                     *)

\* An append goes on in the process it was begun in.
LEMMA JournalBusy ==
  ASSUME step \in [Writers -> Steps], NEW p \in Processes, Journal(p)
  PROVE  /\ Busy(p) /\ step' \in [Writers -> Steps]
         /\ \A q \in Processes : Busy(q)' => Busy(q)
         /\ UNCHANGED <<leaseVars, creator, closing, early>>
<1>1. AppendStep(p) /\ UNCHANGED <<leaseVars, creator, closing, early>>
  BY DEF Journal
<1>2. PICK from \in Steps \ {"idle"}, to \in Steps : JournalStep(p, from, to)
  BY <1>1 DEF AppendStep, Stat, Load, TruncateResidue, WriteLine, AfterLoad, Steps, JournalStep
<1>. QED
  BY <1>1, <1>2, ThreadAssumption DEF JournalStep, Busy, Steps

\* What was gone through stays known.
LEMMA DisturbedStays ==
  ASSUME [ThreadNext]_threadVars, Undisturbed'
  PROVE  Undisturbed
<1>1. robbed' = {} => robbed = {}
  BY ThreadsLease DEF LeaseNext, leaseVars, Acquire, AcquireStep, OpenExclusive, WriteOwner, ReadOwner, RemoveStale,
     Release, ReleaseStep, ReadOwnLock, RemoveOwnLock, LeaseExit, LeaseCrash
<1>2. early => early'
  BY DEF ThreadNext, threadVars, Create, Resume, Lease, Observe, Journal, Leave, CloseSession, ExitSession,
     Crash, Forget
<1>. QED
  BY <1>1, <1>2 DEF Undisturbed

\* The steps of the appends keep their type.
LEMMA StepsTyped ==
  ASSUME step \in [Writers -> Steps], [ThreadNext]_threadVars
  PROVE  step' \in [Writers -> Steps]
<1>. USE ThreadAssumption
<1>1. ASSUME NEW p \in Processes, NEW o \in Observations, Observe(p, o) PROVE step' \in [Writers -> Steps]
  BY <1>1 DEF Observe, StartAppend, JournalStep, Steps
<1>2. ASSUME NEW p \in Processes, Journal(p) PROVE step' \in [Writers -> Steps]
  BY <1>2, JournalBusy
<1>3. ASSUME NEW p \in Processes, ExitSession(p) \/ Crash(p) PROVE step' \in [Writers -> Steps]
  BY <1>3 DEF ExitSession, Crash, JournalCrash, Steps
<1>. QED
  BY <1>1, <1>2, <1>3 DEF ThreadNext, threadVars, journalVars, Create, Resume, ReadAll, Lease, Leave, CloseSession

\* Every step keeps who is at which step of a session: one creator, and only holders in an append.
LEMMA SessionStep ==
  ASSUME SessionInv, [ThreadNext]_threadVars, Undisturbed'
  PROVE  SessionPart'
<1>. USE LeaseAssumption, ThreadAssumption DEF NoProcess, Gone, NoLock, NoToken
<1>. LeaseInv /\ SessionPart /\ LeaseTypeOK /\ step \in [Writers -> Steps] /\ Undisturbed
  BY DisturbedStays DEF SessionInv, LeaseInv
<1>1. ASSUME NEW p \in Processes, Create(p) PROVE SessionPart'
  BY <1>1 DEF Create, Acquire, LeaseTypeOK, LeaseStep, journalVars, SessionPart, CreatorAlone,
     ClosedFirst, BusyHolds, Busy, Opening, LockExists
<1>2. ASSUME NEW p \in Processes, Resume(p) PROVE SessionPart'
  BY <1>2 DEF Undisturbed, Resume, Acquire, ReadAll, LeaseTypeOK, LeaseStep, SessionPart, CreatorAlone,
     ClosedFirst, BusyHolds, Busy, Opening, LockExists
<1>3. ASSUME NEW p \in Processes, Lease(p), AcquireStep(p) PROVE SessionPart'
  BY <1>3 DEF Lease, AcquireStep, OpenExclusive, WriteOwner, ReadOwner, RemoveStale, NoMoreTokens,
     LeaseTypeOK, LeaseStep, journalVars, SessionPart, CreatorAlone,
     ClosedFirst, BusyHolds, Busy, Opening, LockExists
<1>4. ASSUME NEW p \in Processes, Lease(p), ReleaseStep(p) PROVE SessionPart'
  BY <1>4 DEF Lease, ReleaseStep, ReadOwnLock, RemoveOwnLock, NoMoreTokens,
     LeaseTypeOK, LeaseStep, journalVars, SessionPart, CreatorAlone,
     ClosedFirst, BusyHolds, Busy, Opening, LockExists
<1>5. ASSUME NEW p \in Processes, NEW o \in Observations, Observe(p, o) PROVE SessionPart'
  BY <1>5 DEF Observe, MayAppend, StartAppend, JournalStep, Steps, leaseVars,
     SessionPart, CreatorAlone, ClosedFirst, BusyHolds, Busy, Opening, LockExists
<1>6. ASSUME NEW p \in Processes, Journal(p) PROVE SessionPart'
  BY <1>6, JournalBusy DEF leaseVars,
     SessionPart, CreatorAlone, ClosedFirst, BusyHolds, Opening, LockExists
<1>7. ASSUME NEW p \in Processes, Leave(p) PROVE SessionPart'
  BY <1>7 DEF Leave, leaseVars, journalVars,
     SessionPart, CreatorAlone, ClosedFirst, BusyHolds, Busy, Opening, LockExists
<1>8. ASSUME NEW p \in Processes, CloseSession(p) PROVE SessionPart'
  BY <1>8 DEF CloseSession, Release, NoMoreTokens, LeaseStep, LeaseTypeOK, journalVars,
     SessionPart, CreatorAlone, ClosedFirst, BusyHolds, Busy, Opening, LockExists
<1>9. ASSUME NEW p \in Processes, ExitSession(p) \/ Crash(p) PROVE SessionPart'
  <2>1. /\ lease' = [lease EXCEPT ![p] = "none"] /\ step' = [step EXCEPT ![p] = "idle"]
        /\ UNCHANGED lock /\ closing' = closing \ {p}
        /\ creator' = IF creator = p THEN Gone ELSE creator
    BY <1>9 DEF ExitSession, Crash, LeaseExit, LeaseCrash, JournalCrash, Forget, LeaseStep
  <2>2. creator # NoProcess => creator' # NoProcess
    BY <2>1
  <2>3. CreatorAlone'
    <3>1. creator = NoProcess => lease[p] = "none"
      BY DEF SessionPart, CreatorAlone
    <3>2. creator' = NoProcess => ~LockExists' /\ \A q \in Processes : lease'[q] = "none"
      BY <2>1, <2>2 DEF SessionPart, CreatorAlone, LockExists, LeaseTypeOK
    <3>3. creator' \in Processes => creator' = creator /\ creator # p
      BY <2>1
    <3>4. creator' \in Opening' => creator \in Opening /\ lease'[creator] = lease[creator]
      BY <2>1, <3>3 DEF Opening, LeaseTypeOK
    <3>. QED
      BY <2>1, <3>2, <3>3, <3>4 DEF SessionPart, CreatorAlone, LockExists, LeaseTypeOK, Opening
  <2>4. ClosedFirst' /\ BusyHolds'
    BY <2>1 DEF Steps, SessionPart, ClosedFirst, BusyHolds, Busy, LeaseTypeOK
  <2>. QED
    BY <2>3, <2>4 DEF SessionPart
<1>10. CASE UNCHANGED threadVars
  BY <1>10 DEF threadVars, leaseVars, journalVars,
     SessionPart, CreatorAlone, ClosedFirst, BusyHolds, Busy, Opening, LockExists
<1>. QED
  BY <1>1, <1>2, <1>3, <1>4, <1>5, <1>6, <1>7, <1>8, <1>9, <1>10 DEF ThreadNext, Lease

\* What OneWriter says, from the invariant: who holds the lease has the lock, and
\* who appends holds it or, still opening, is alone.
LEMMA WritersAlone == SessionInv => OneWriter
<1>. SUFFICES ASSUME SessionInv PROVE OneWriter
  OBVIOUS
<1>1. robbed = {} => \A p, q \in Holders : p = q
  BY DEF SessionInv, LeaseInv, LockFitsLease, TokensFit, Owning, Holders, LockExists
<1>2. ASSUME robbed = {} PROVE Cardinality(Holders) <= 1
  <2>1. CASE Holders = {}
    BY <2>1, FS_EmptySet
  <2>2. CASE Holders # {}
    <3>1. PICK p : Holders = {p}
      BY <1>1, <1>2, <2>2
    <3>. QED
      BY <3>1, FS_Singleton
  <2>. QED
    BY <2>1, <2>2
<1>3. Undisturbed => \A p, q \in Processes : Busy(p) /\ Busy(q) => p = q
  BY DEF SessionInv, LeaseInv, LockFitsLease, TokensFit, Owning, LockExists, BusyHolds,
         SessionPart, CreatorAlone, Opening, Undisturbed
<1>. QED
  BY <1>2, <1>3 DEF OneWriter, Undisturbed

-----------------------------------------------------------------------------
(* The journal's part.                                                     *)

TerminalOnce(ls) ==
  \A i, j \in DOMAIN ls :
    ls[i].observes = ls[j].observes /\ ls[i].observes \in Terminal => i = j

\* A line that is written is the becomes entry, and not a terminal one again.
LEMMA LineAppended ==
  ASSUME JournalInv, NEW p \in Writers, step[p] = "write",
         lines' = Append(lines, Written(p))
  PROVE  /\ Written(p) = [seq |-> Len(lines) + 1, observes |-> input[p]]
         /\ Written(p) \in Line
         /\ lines' \in Seq(Line) /\ Len(lines') = Len(lines) + 1
         /\ \A i \in 1..Len(lines) : lines'[i] = lines[i]
         /\ lines'[Len(lines) + 1] = Written(p)
         /\ Readable(lines') /\ TerminalOnce(lines')
         /\ \A l \in acked \union {Written(p)} : l.seq \in DOMAIN lines' /\ lines'[l.seq] = l
<1>. DEFINE n == Len(lines)
<1>1. /\ lines \in Seq(Line) /\ n \in Nat /\ DOMAIN lines = 1..n
      /\ ~residue /\ cache[p].lines = lines /\ input[p] \in Observations
      /\ ~Recorded(lines, input[p]) /\ JournalKept
  BY DEF JournalInv, JournalTypeOK, CacheFits, CacheFit, Busy
<1>2. NextSeq(lines) = n + 1
  BY <1>1 DEF NextSeq, JournalKept, Readable
<1>3. /\ Written(p) = [seq |-> n + 1, observes |-> input[p]]
      /\ Written(p) \in Line
  BY <1>1, <1>2 DEF Written, Line
<1>4. /\ lines' \in Seq(Line) /\ Len(lines') = n + 1 /\ DOMAIN lines' = 1..(n + 1)
      /\ \A i \in 1..n : lines'[i] = lines[i]
      /\ lines'[n + 1] = Written(p)
  BY <1>1, <1>3, AppendProperties
<1>5. Readable(lines') /\ TerminalOnce(lines')
  BY <1>1, <1>3, <1>4 DEF JournalKept, Readable, Recorded, TerminalOnce
<1>6. \A l \in acked \union {Written(p)} : l.seq \in DOMAIN lines' /\ lines'[l.seq] = l
  BY <1>1, <1>3, <1>4 DEF JournalKept
<1>. QED
  BY <1>3, <1>4, <1>5, <1>6


\* A process remembers lines, or nothing.
LEMMA KnownCaches ==
  /\ NoCache \in Caches /\ ~NoCache.known
  /\ \A c \in Caches : c.known => c.lines \in Seq(Line) /\ Len(c.lines) \in Nat
  /\ \A ls \in Seq(Line) : /\ [known |-> TRUE, lines |-> ls] \in Caches
                           /\ Len(ls) \in Nat
<1>1. NoCache \in Caches /\ ~NoCache.known
  BY DEF Caches, NoCache
<1>2. ASSUME NEW c \in Caches, c.known PROVE c.lines \in Seq(Line) /\ Len(c.lines) \in Nat
  <2>1. c \in [known : {TRUE}, lines : Seq(Line)]
    BY <1>1, <1>2, Zenon DEF Caches
  <2>. QED
    BY <2>1
<1>3. ASSUME NEW ls \in Seq(Line)
      PROVE  [known |-> TRUE, lines |-> ls] \in Caches /\ Len(ls) \in Nat
  BY DEF Caches
<1>. QED
  BY <1>1, <1>2, <1>3

\* A file that grew by one line still begins with what the processes remember.
LEMMA CachesStay ==
  ASSUME JournalInv, NEW p \in Writers, step[p] = "write",
         lines' = Append(lines, Written(p)),
         NEW q \in Writers, cache[q].known
  PROVE  /\ Len(cache[q].lines) <= Len(lines')
         /\ \A i \in 1..Len(cache[q].lines) : cache[q].lines[i] = lines'[i]
<1>1. cache[q] \in Caches /\ Remembered(q)
  BY DEF JournalInv, JournalTypeOK, CacheFits, CacheFit
<1>2. lines \in Seq(Line) /\ Len(cache[q].lines) \in Nat
  BY <1>1, KnownCaches DEF JournalInv, JournalTypeOK
<1>. QED
  BY <1>1, <1>2, LineAppended DEF Remembered

\* What a process does in its journal while no other one is in an append.
JournalAction(p) ==
  \/ ReadAll(p) \/ (\E o \in Observations : StartAppend(p, o))
  \/ AppendStep(p) \/ JournalCrash(p)

\* A step of the one process in an append keeps the invariant of the journal.
LEMMA JournalStepKeeps ==
  ASSUME JournalInv, NEW p \in Writers, JournalAction(p),
         \A q \in Writers : Busy(p) /\ Busy(q) => p = q
  PROVE  JournalInv'
<1>. USE JournalAssumption DEF JournalStep, Steps, Busy
<1>. JournalTypeOK /\ CacheFits /\ JournalKept
  BY DEF JournalInv
<1>0. /\ lines \in Seq(Line) /\ cache \in [Writers -> Caches] /\ step \in [Writers -> Steps]
      /\ input \in [Writers -> Observations \union {NoObservation}]
      /\ \A q \in Writers : CacheFit(q)
      /\ \A q \in Writers : cache[q].known => cache[q].lines \in Seq(Line) /\ Len(cache[q].lines) \in Nat
  BY KnownCaches DEF JournalTypeOK, CacheFits
<1>. SUFFICES JournalTypeOK' /\ JournalKept' /\ \A q \in Writers : CacheFit(q)'
  BY DEF JournalInv, CacheFits
<1>1. CASE ReadAll(p)
  <2>1. cache' = [cache EXCEPT ![p] = [known |-> TRUE, lines |-> lines]]
        /\ step[p] = "idle"
        /\ UNCHANGED <<lines, residue, step, input, acked, appends, writeFaults>>
    BY <1>1 DEF ReadAll, Remember, JournalKept
  <2>2. JournalTypeOK' /\ JournalKept'
    BY <1>0, <2>1, KnownCaches DEF JournalKept, Readable, JournalTypeOK
  <2>3. ASSUME NEW q \in Writers PROVE CacheFit(q)'
    BY <1>0, <2>1, KnownCaches DEF CacheFit, Remembered, Recorded
  <2>. QED
    BY <2>2, <2>3
<1>2. ASSUME NEW o \in Observations, StartAppend(p, o)
      PROVE  JournalTypeOK' /\ JournalKept' /\ \A q \in Writers : CacheFit(q)'
  <2>1. JournalTypeOK' /\ JournalKept'
    BY <1>0, <1>2 DEF StartAppend, JournalTypeOK, JournalKept, Readable
  <2>2. ASSUME NEW q \in Writers PROVE CacheFit(q)'
    BY <1>0, <1>2 DEF StartAppend, CacheFit, Remembered, Recorded
  <2>. QED
    BY <2>1, <2>2
<1>3. CASE Stat(p)
  <2>1. JournalTypeOK' /\ JournalKept'
    BY <1>0, <1>3 DEF Stat, JournalTypeOK, JournalKept, Readable
  <2>2. CacheCurrent(p) => cache[p].lines = lines
    BY <1>0, SeqEqual DEF CacheCurrent, CacheFit, Remembered
  <2>3. ASSUME NEW q \in Writers PROVE CacheFit(q)'
    BY <1>0, <1>3, <2>2 DEF Stat, CacheFit, Remembered, CacheCurrent, Recorded
  <2>. QED
    BY <2>1, <2>3
<1>4. CASE Load(p)
  <2>1. /\ cache' = [cache EXCEPT ![p] = [known |-> TRUE, lines |-> lines]]
        /\ JournalStep(p, "load", AfterLoad(residue, Recorded(lines, input[p])))
        /\ UNCHANGED <<lines, residue, input, acked, appends, writeFaults>>
    BY <1>4 DEF Load, Remember, JournalKept
  <2>2. JournalTypeOK' /\ JournalKept'
    BY <1>0, <2>1, KnownCaches DEF AfterLoad, JournalKept, Readable, JournalTypeOK
  <2>3. ASSUME NEW q \in Writers PROVE CacheFit(q)'
    BY <1>0, <2>1, KnownCaches DEF AfterLoad, CacheFit, Remembered, Recorded
  <2>. QED
    BY <2>2, <2>3
<1>5. CASE TruncateResidue(p)
  <2>1. lines' = lines /\ residue' = FALSE
    <3>1. cache[p].lines = lines /\ Len(lines) \in Nat
      BY <1>0, <1>5 DEF TruncateResidue, CacheFit, JournalTypeOK
    <3>2. Least(Len(lines), Len(lines)) = Len(lines) /\ (Len(lines) < Len(lines)) = FALSE
      BY <3>1 DEF Least
    <3>3. lines' = SubSeq(lines, 1, Len(lines)) /\ residue' = (Len(lines) < Len(lines))
      BY <1>5, <3>1, <3>2 DEF TruncateResidue
    <3>4. SubSeq(lines, 1, Len(lines)) = lines
      BY <1>0, SubSeqFull
    <3>. QED
      BY <3>2, <3>3, <3>4, Zenon
  <2>0. /\ step[p] = "truncate"
        /\ step' = [step EXCEPT ![p] = IF Recorded(cache[p].lines, input[p]) THEN "idle" ELSE "write"]
        /\ UNCHANGED <<input, cache, acked, appends, writeFaults>>
    BY <1>5 DEF TruncateResidue
  <2>2. JournalTypeOK' /\ JournalKept'
    BY <1>0, <2>0, <2>1 DEF JournalKept, Readable, JournalTypeOK
  <2>3. ASSUME NEW q \in Writers PROVE CacheFit(q)'
    BY <1>0, <2>0, <2>1 DEF CacheFit, Remembered, Recorded
  <2>. QED
    BY <2>2, <2>3
<1>6. CASE WriteLine(p)
  <2>1. step[p] = "write" /\ step' = [step EXCEPT ![p] = "idle"] /\ UNCHANGED <<input, appends>>
    BY <1>6 DEF WriteLine
  <2>2. CASE /\ lines' = Append(lines, Written(p)) /\ residue' = FALSE
             /\ cache' = [cache EXCEPT ![p] = [known |-> TRUE, lines |-> lines']]
             /\ acked' = acked \union {Written(p)} /\ UNCHANGED writeFaults
    <3>1. JournalTypeOK'
      BY <1>0, <2>1, <2>2, LineAppended, KnownCaches DEF JournalTypeOK
    <3>2. JournalKept'
      BY <2>1, <2>2, LineAppended DEF JournalKept, TerminalOnce
    <3>3. ASSUME NEW q \in Writers PROVE CacheFit(q)'
      BY <1>0, <2>1, <2>2, LineAppended, CachesStay, KnownCaches DEF CacheFit, Remembered
    <3>. QED
      BY <3>1, <3>2, <3>3
  <2>3. CASE /\ lines' = Append(lines, Written(p)) /\ residue' = FALSE
             /\ writeFaults < MaxWriteFaults /\ writeFaults' = writeFaults + 1
             /\ UNCHANGED <<cache, acked>>
    <3>0. lines' \in Seq(Line)
      BY <2>1, <2>3, LineAppended
    <3>4. writeFaults' \in 0..MaxWriteFaults
      BY <2>3 DEF JournalTypeOK
    <3>1. JournalTypeOK'
      BY <1>0, <2>1, <2>3, <3>0, <3>4 DEF JournalTypeOK
    <3>2. JournalKept'
      BY <2>1, <2>3, LineAppended DEF JournalKept, TerminalOnce
    <3>3. ASSUME NEW q \in Writers PROVE CacheFit(q)'
      BY <1>0, <2>1, <2>3, CachesStay DEF CacheFit, Remembered
    <3>. QED
      BY <3>1, <3>2, <3>3
  <2>4. CASE /\ residue' = TRUE /\ writeFaults < MaxWriteFaults
             /\ writeFaults' = writeFaults + 1 /\ UNCHANGED <<lines, cache, acked>>
    <3>1. JournalTypeOK' /\ JournalKept'
      BY <1>0, <2>1, <2>4 DEF JournalKept, Readable, JournalTypeOK
    <3>2. ASSUME NEW q \in Writers PROVE CacheFit(q)'
      BY <1>0, <2>1, <2>4 DEF CacheFit, Remembered
    <3>. QED
      BY <3>1, <3>2
  <2>. cache[p].lines = lines
    BY <1>0, <2>1 DEF CacheFit
  <2>. QED
    BY <1>6, <2>2, <2>3, <2>4 DEF WriteLine, Remember
<1>7. CASE JournalCrash(p)
  <2>1. CASE step[p] = "write" /\ lines' = Append(lines, Written(p))
    <3>1. JournalTypeOK'
      BY <1>0, <1>7, <2>1, LineAppended, KnownCaches DEF JournalCrash, JournalTypeOK
    <3>3. JournalKept'
      BY <1>7, <2>1, LineAppended DEF JournalCrash, JournalKept, TerminalOnce
    <3>2. ASSUME NEW q \in Writers PROVE CacheFit(q)'
      BY <1>0, <1>7, <2>1, CachesStay, KnownCaches DEF JournalCrash, CacheFit, Remembered
    <3>. QED
      BY <3>1, <3>2, <3>3
  <2>2. CASE UNCHANGED lines
    <3>1. JournalTypeOK' /\ JournalKept'
      BY <1>0, <1>7, <2>2, KnownCaches DEF JournalCrash, JournalKept, Readable, JournalTypeOK
    <3>2. ASSUME NEW q \in Writers PROVE CacheFit(q)'
      BY <1>0, <1>7, <2>2, KnownCaches DEF JournalCrash, CacheFit, Remembered
    <3>. QED
      BY <3>1, <3>2
  <2>. QED
    BY <1>7, <2>1, <2>2 DEF JournalCrash
<1>. QED
  BY <1>1, <1>2, <1>3, <1>4, <1>5, <1>6, <1>7 DEF JournalAction, AppendStep

-----------------------------------------------------------------------------
(* Together.                                                               *)

\* The invariant of leases and journal holds always.
LEMMA ThreadInductive == ThreadSpec => []ThreadInv
<1>. USE LeaseAssumption, JournalAssumption, ThreadAssumption
<1>1. ThreadInit => ThreadInv
  <2>. SUFFICES ASSUME ThreadInit PROVE ThreadInv
    OBVIOUS
  <2>1. LeaseInv
    BY DEF ThreadInit, LeaseInit, LeaseInv, LeaseTypeOK, LeaseStates, TokensFit, LockFitsLease,
       LockExists, Owning, NoLock, NoToken
  <2>2. SessionInv
    BY <2>1 DEF ThreadInit, LeaseInit, JournalInit, SessionInv, SessionPart, CreatorAlone, ClosedFirst, BusyHolds,
       Busy, Steps, LockExists, NoLock, NoToken, NoProcess, Opening
  <2>3. JournalInv
    <3>1. lines \in Seq(Line) /\ DOMAIN lines = {}
      BY DEF ThreadInit, JournalInit
    <3>2. JournalTypeOK
      <4>1. cache \in [Writers -> Caches] /\ acked \subseteq Line
        BY KnownCaches DEF ThreadInit, JournalInit
      <4>2. residue \in BOOLEAN /\ step \in [Writers -> Steps]
        BY DEF ThreadInit, JournalInit, Steps
      <4>3. input \in [Writers -> Observations \union {NoObservation}]
        BY DEF ThreadInit, JournalInit
      <4>4. appends \in 0..MaxAppends /\ writeFaults \in 0..MaxWriteFaults
        BY DEF ThreadInit, JournalInit
      <4>. QED
        BY <3>1, <4>1, <4>2, <4>3, <4>4 DEF JournalTypeOK
    <3>3. CacheFits
      BY KnownCaches DEF ThreadInit, JournalInit, CacheFits, CacheFit, Busy
    <3>4. JournalKept
      BY <3>1 DEF ThreadInit, JournalInit, JournalKept, Readable
    <3>. QED
      BY <3>2, <3>3, <3>4 DEF JournalInv
  <2>. QED
    BY <2>2, <2>3 DEF ThreadInv
<1>2. ThreadInv /\ [ThreadNext]_threadVars => ThreadInv'
  <2>. SUFFICES ASSUME ThreadInv, [ThreadNext]_threadVars PROVE ThreadInv'
    OBVIOUS
  <2>1. SessionInv /\ LeaseInv
    BY DEF ThreadInv, SessionInv
  <2>2. SessionInv'
    BY <2>1, ThreadsLease, LeaseInductive, StepsTyped, SessionStep DEF SessionInv
  <2>3. ASSUME Undisturbed' PROVE JournalInv'
    <3>1. Undisturbed /\ JournalInv
      BY <2>3, DisturbedStays DEF ThreadInv
    <3>2. CASE UNCHANGED journalVars
      <4>1. JournalTypeOK' /\ JournalKept'
        BY <3>1, <3>2 DEF journalVars, JournalInv, JournalTypeOK, JournalKept, Readable
      <4>2. CacheFits'
        BY <3>1, <3>2 DEF journalVars, JournalInv, CacheFits, CacheFit, Remembered, Recorded, Busy
      <4>. QED
        BY <4>1, <4>2 DEF JournalInv
    <3>3. ASSUME NEW p \in Processes, JournalAction(p) PROVE JournalInv'
      BY <2>1, <3>1, <3>3, WritersAlone, JournalStepKeeps DEF OneWriter, Undisturbed
    <3>4. UNCHANGED journalVars \/ \E p \in Processes : JournalAction(p)
      BY DEF ThreadNext, threadVars, Create, Resume, Lease, Observe, Journal, Leave, CloseSession,
         ExitSession, Crash, JournalAction
    <3>. QED
      BY <3>2, <3>3, <3>4
  <2>. QED
    BY <2>2, <2>3 DEF ThreadInv
<1>. QED
  BY <1>1, <1>2, PTL DEF ThreadSpec

\* OneWriter for any number of processes, acquisitions, crashes and reused pids: at most
\* one holds the lease of a thread as long as no live process lost its lock to a late
\* takeover, and at most one is in an append if, besides, nobody resumed the thread before
\* its creator had its lease (acquireSessionLease, release and close(),
\* project-workspace.ts and project-workbench-session.ts).  So those two are the only ways
\* in which two processes can write one journal.
THEOREM OneWriterAlways == ThreadSpec => []OneWriter
<1>1. ThreadInv => OneWriter
  BY WritersAlone DEF ThreadInv
<1>. QED
  BY <1>1, ThreadInductive, PTL

\* ThreadJournalKept likewise, for any number of appends, failed writes and crashes in the
\* middle of a line: as long as neither of the two has happened, the journal reads back as
\* entries 1, 2, 3, what was acknowledged stays, a terminal observation is recorded once
\* (activity-journal-store.ts).
THEOREM JournalIsKept == ThreadSpec => []ThreadJournalKept
<1>1. ThreadInv => ThreadJournalKept
  BY DEF ThreadInv, JournalInv, Undisturbed, ThreadJournalKept
<1>. QED
  BY <1>1, ThreadInductive, PTL
=============================================================================
