------------------------------- MODULE Planning -------------------------------
(***************************************************************************)
(* The catalog of epics and stories (planning-store.ts, planning-service   *)
(* and the map that is drawn of it, development-map-source.ts).  Processes *)
(* take turns under a SQLite lock; a mutation replaces the catalog, then   *)
(* creates the immutable artifact files, then rewrites the two Markdown    *)
(* projections.  A read does the last two again, so that it repairs what a *)
(* crash has left behind.  The map reads the files without the lock.       *)
(***************************************************************************)
EXTENDS Integers, Sequences, SequencesExt, FiniteSetsExt

CONSTANTS
  Planners, MaxItems,
  MaxPlanBreaks,     \* bound on crashes and failing writes
  MaxPlanReads       \* bound on reads, and on refreshes of the map

ASSUME PlanningAssumption == MaxItems \in Nat /\ MaxPlanBreaks \in Nat /\ MaxPlanReads \in Nat

VARIABLES
  catalog,        \* catalog.jsonl, as the items created
  artifacts,      \* the artifact files: whole, or partial after a break
  projected,      \* the items in Epics.md and in Stories.md
  planLock,       \* who is in BEGIN IMMEDIATE
  planners,       \* each process and its operation
  planned,        \* history: items whose creation was acknowledged
  map,            \* the poller of the development map
  planBreaks, planReads

planVars == <<catalog, artifacts, projected, planLock, planners, planned, map, planBreaks, planReads>>

PlanItem == [kind : {"epic", "story"}, epic : 1..MaxItems, n : 0..MaxItems]
OfKind(kind, items) == {i \in ToSet(items) : i.kind = kind}

\* nextEpicId, nextStoryId: one more than the largest in the catalog and in the Markdown file.
NextEpic(items) ==
  [kind |-> "epic", epic |-> 1 + Max({0} \union {i.epic : i \in OfKind("epic", items) \union projected.epic}), n |-> 0]
NextStory(items, epic) ==
  LET siblings == {i \in OfKind("story", items) \union projected.story : i.epic = epic}
  IN  [kind |-> "story", epic |-> epic, n |-> 1 + Max({0} \union {i.n : i \in siblings})]

NobodyPlans == [phase |-> "idle", items |-> <<>>, creates |-> FALSE, opened |-> FALSE, shown |-> 0]
PlanTo(p, next) == planners' = [planners EXCEPT ![p] = next]
PlanIn(p, phase) == planners[p].phase = phase
PlannerRests(p) == [planners[p] EXCEPT !.phase = "idle", !.items = <<>>, !.opened = FALSE]

-----------------------------------------------------------------------------
(* Operations of one process follow one another (serial).                  *)

ReadCatalog(p) ==
  /\ PlanIn(p, "idle") /\ planReads < MaxPlanReads
  /\ planReads' = planReads + 1
  \* Without a catalog there is nothing to lock for.
  /\ PlanTo(p, IF catalog = <<>> THEN [planners[p] EXCEPT !.shown = 0]
               ELSE [planners[p] EXCEPT !.phase = "locking", !.creates = FALSE])
  /\ UNCHANGED <<catalog, artifacts, projected, planLock, planned, map, planBreaks>>

CreateItem(p) ==
  /\ PlanIn(p, "idle") /\ Len(catalog) < MaxItems
  /\ PlanTo(p, [planners[p] EXCEPT !.phase = "locking", !.creates = TRUE])
  /\ UNCHANGED <<catalog, artifacts, projected, planLock, planned, map, planBreaks, planReads>>

\* Mutant of MayPlan: the lock is not asked for.
MayPlanAnyway == TRUE
MayPlan == planLock = {}

\* createEpic or createStory prepares the next item while there are ids; a story needs its epic,
\* and a file that is there without the catalog knowing of it refuses the item.
PreparedItems(items) ==
  {i \in {NextEpic(items)} \union {NextStory(items, e.epic) : e \in OfKind("epic", items)} :
     i \in PlanItem /\ ~\E a \in artifacts : a.item = i}

BeginPlan(p) ==
  /\ PlanIn(p, "locking") /\ MayPlan
  /\ IF ~planners[p].creates
     THEN PlanTo(p, [planners[p] EXCEPT !.phase = "artifacts", !.items = catalog])
     ELSE \E i \in PreparedItems(catalog) : PlanTo(p, [planners[p] EXCEPT !.phase = "writing", !.items = Append(catalog, i)])
  /\ planLock' = planLock \union {p}
  /\ UNCHANGED <<catalog, artifacts, projected, planned, map, planBreaks, planReads>>

\* busy_timeout is over.
BusyTooLong(p) ==
  /\ PlanIn(p, "locking") /\ planLock # {}
  /\ PlanTo(p, PlannerRests(p))
  /\ UNCHANGED <<catalog, artifacts, projected, planLock, planned, map, planBreaks, planReads>>

\* writeCatalog appends to what is there if that is what was read, and renames.
WriteCatalog(p) ==
  /\ PlanIn(p, "writing")
  /\ IF IsStrictPrefix(catalog, planners[p].items)
     THEN catalog' = planners[p].items /\ PlanTo(p, [planners[p] EXCEPT !.phase = "artifacts"]) /\ UNCHANGED planLock
     ELSE PlanTo(p, PlannerRests(p)) /\ planLock' = planLock \ {p} /\ UNCHANGED catalog
  /\ UNCHANGED <<artifacts, projected, planned, map, planBreaks, planReads>>

ArtifactOf(i) == {a \in artifacts : a.item = i}
MissingArtifacts(items) == {k \in DOMAIN items : [item |-> items[k], whole |-> TRUE] \notin artifacts}

\* writeArtifact, in the order of the catalog: open "wx", then write and sync; a file with
\* other content is an error.
WriteArtifact(p) ==
  \E k \in MissingArtifacts(planners[p].items) :
    LET i == planners[p].items[k]
        partial == [item |-> i, whole |-> FALSE]
    IN  /\ PlanIn(p, "artifacts") /\ \A j \in MissingArtifacts(planners[p].items) : k <= j
        /\ \/ /\ ArtifactOf(i) = {}
              /\ artifacts' = artifacts \union {partial}
              /\ PlanTo(p, [planners[p] EXCEPT !.opened = TRUE])
              /\ UNCHANGED planLock
           \/ /\ planners[p].opened
              /\ artifacts' = (artifacts \ {partial}) \union {[item |-> i, whole |-> TRUE]}
              /\ PlanTo(p, [planners[p] EXCEPT !.opened = FALSE])
              /\ UNCHANGED planLock
           \/ /\ partial \in artifacts /\ ~planners[p].opened
              /\ PlanTo(p, PlannerRests(p)) /\ planLock' = planLock \ {p}
              /\ UNCHANGED artifacts
        /\ UNCHANGED <<catalog, projected, planned, map, planBreaks, planReads>>

\* syncProjections: first Epics.md, then Stories.md; then COMMIT, and the service publishes.
WriteEpics(p) ==
  /\ PlanIn(p, "artifacts") /\ MissingArtifacts(planners[p].items) = {}
  /\ projected' = [projected EXCEPT !.epic = OfKind("epic", planners[p].items)]
  /\ PlanTo(p, [planners[p] EXCEPT !.phase = "stories"])
  /\ UNCHANGED <<catalog, artifacts, planLock, planned, map, planBreaks, planReads>>

WriteStories(p) ==
  /\ PlanIn(p, "stories")
  /\ projected' = [projected EXCEPT !.story = OfKind("story", planners[p].items)]
  /\ planned' = IF planners[p].creates THEN planned \union {Last(planners[p].items)} ELSE planned
  /\ PlanTo(p, [PlannerRests(p) EXCEPT !.shown = Len(planners[p].items)])
  /\ planLock' = planLock \ {p}
  /\ UNCHANGED <<catalog, artifacts, map, planBreaks, planReads>>

\* A crash, or a write that fails: SQLite frees the lock, the file that was opened stays.
PlanBreaks(p) ==
  /\ ~PlanIn(p, "idle") /\ planBreaks < MaxPlanBreaks
  /\ PlanTo(p, PlannerRests(p)) /\ planLock' = planLock \ {p}
  /\ planBreaks' = planBreaks + 1
  /\ UNCHANGED <<catalog, artifacts, projected, planned, map, planReads>>

-----------------------------------------------------------------------------
(* The development map: one refresh at a time reads the catalog, then the  *)
(* Markdown files, and keeps the last valid map when it cannot.            *)

RefreshMap ==
  /\ ~map.refreshing /\ planReads < MaxPlanReads
  /\ map' = [map EXCEPT !.refreshing = TRUE, !.items = catalog]
  /\ planReads' = planReads + 1
  /\ UNCHANGED <<catalog, artifacts, projected, planLock, planners, planned, planBreaks>>

\* Without a catalog there is no map; lines that the store projects are not in the form that the
\* map takes from the Markdown files.
MapRead ==
  /\ map.refreshing /\ map.items # <<>>
  /\ map' = [map EXCEPT !.refreshing = FALSE, !.shown = map.items, !.health = "available"]
  /\ UNCHANGED <<catalog, artifacts, projected, planLock, planners, planned, planBreaks, planReads>>

MapFails ==
  /\ map.refreshing
  /\ map' = [map EXCEPT !.refreshing = FALSE,
                        !.health = IF @ \in {"available", "stale"} THEN "stale" ELSE "invalid"]
  /\ UNCHANGED <<catalog, artifacts, projected, planLock, planners, planned, planBreaks, planReads>>

-----------------------------------------------------------------------------
PlanInit ==
  /\ catalog = <<>> /\ artifacts = {} /\ projected = [epic |-> {}, story |-> {}]
  /\ planLock = {} /\ planners = [p \in Planners |-> NobodyPlans] /\ planned = {}
  /\ map = [refreshing |-> FALSE, items |-> <<>>, shown |-> <<>>, health |-> "none"]
  /\ planBreaks = 0 /\ planReads = 0

PlanNext ==
  \/ RefreshMap \/ MapRead \/ MapFails
  \/ \E p \in Planners :
       \/ ReadCatalog(p) \/ CreateItem(p) \/ BeginPlan(p) \/ BusyTooLong(p)
       \/ WriteCatalog(p) \/ WriteArtifact(p) \/ WriteEpics(p) \/ WriteStories(p) \/ PlanBreaks(p)

PlanSpec == PlanInit /\ [][PlanNext]_planVars

-----------------------------------------------------------------------------
\* The variables have their types; the catalog has no item twice, stories follow their epics, and
\* nothing shown is ahead of the catalog.
PlanTypeOK ==
  /\ ToSet(catalog) \subseteq PlanItem /\ IsInjective(catalog)
  /\ \A i \in DOMAIN catalog : catalog[i].kind = "story" =>
       \E j \in 1..(i - 1) : catalog[j] = [kind |-> "epic", epic |-> catalog[i].epic, n |-> 0]
  /\ \A p \in Planners : planners[p].shown <= Len(catalog)
  /\ IsPrefix(map.shown, catalog)

\* An item whose creation was acknowledged is in the catalog, whole in its artifact file, and in
\* its projection, whatever crashes and whoever writes next (FilePlanningStore.mutate).
PlannedIsKept ==
  \A i \in planned :
    /\ i \in ToSet(catalog) /\ [item |-> i, whole |-> TRUE] \in artifacts
    /\ i \in projected[i.kind]
=============================================================================
