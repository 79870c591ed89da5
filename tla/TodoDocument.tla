---------------------------- MODULE TodoDocument ----------------------------
(***************************************************************************)
(* The two-level Todo document: what a valid one is, the transitions of    *)
(* its entries (src/application/todo-ledger.ts), and its Markdown source   *)
(* (src/domain/todos.ts).                                                  *)
(*                                                                         *)
(* A document is its revision and its items; title, owner and time follow  *)
(* the revision.  Ids of items are numbers: todo-n is n, and the id made   *)
(* of a native identity is negative.  A detail's id is its parent's and    *)
(* its place.  Contents are not modelled.                                  *)
(***************************************************************************)
EXTENDS Integers, Sequences, FiniteSets, SequencesExt, FiniteSetsExt, Filters

CONSTANTS
  ItemLimit,         \* 12 in the code
  DetailLimit,       \* 8
  EvidenceLimit,     \* 8
  Evidence           \* ids of activities

ASSUME TodoLimits == ItemLimit \in Nat /\ DetailLimit \in Nat /\ EvidenceLimit \in Nat

Statuses == {"pending", "in_progress", "completed", "blocked"}

Detail(status) == [status |-> status, evidence |-> {}]
Item(id, status, details) ==
  [id |-> id, status |-> status, evidence |-> {}, details |-> details]

HasDetail(item, s) == \E d \in DOMAIN item.details : item.details[d].status = s
AllDetails(item, s) == \A d \in DOMAIN item.details : item.details[d].status = s
Active(items) == {i \in DOMAIN items : items[i].status = "in_progress"}
ActiveDetails(items) ==
  {p \in (DOMAIN items) \X (1..DetailLimit) :
     p[2] \in DOMAIN items[p[1]].details /\ items[p[1]].details[p[2]].status = "in_progress"}

\* validateTodoDocument, of the items.
ValidEntry(e) == e.status \in Statuses /\ Cardinality(e.evidence) <= EvidenceLimit
ValidItem(item) ==
  /\ ValidEntry(item) /\ \A d \in DOMAIN item.details : ValidEntry(item.details[d])
  /\ Len(item.details) <= DetailLimit
  /\ HasDetail(item, "in_progress") => item.status = "in_progress"
  /\ item.status = "completed" => AllDetails(item, "completed")
ValidItems(items) ==
  /\ Len(items) <= ItemLimit
  /\ \A i, j \in DOMAIN items : items[i].id = items[j].id => i = j
  /\ \A i \in DOMAIN items : ValidItem(items[i])
  /\ Cardinality(Active(items)) <= 1 /\ Cardinality(ActiveDetails(items)) <= 1

-----------------------------------------------------------------------------
(* The operations of TodoLedger on the items: each is the set of results,  *)
(* empty when the code throws.  An entry is <<i, 0>>, an item, or <<i, d>>.*)

Entries(items) == UNION {{<<i, d>> : d \in 0..Len(items[i].details)} : i \in DOMAIN items}
Entry(items, at) == IF at[2] = 0 THEN items[at[1]] ELSE items[at[1]].details[at[2]]
WithEntry(items, at, e) ==
  IF at[2] = 0 THEN [items EXCEPT ![at[1]] = e]
  ELSE [items EXCEPT ![at[1]].details[at[2]] = e]
If(condition, items) == IF condition THEN {items} ELSE {}

Created(items, n) ==
  If((\A i \in DOMAIN items : items[i].status = "completed") /\ n \in 1..ItemLimit,
     [i \in 1..n |-> Item(i, "pending", <<>>)])

NextNumber(items) == Max({0} \union {items[i].id : i \in DOMAIN items}) + 1
FirstIncomplete(items) ==
  SelectInSeq(items, LAMBDA item : item.status # "completed")
AddedAfter(items) ==
  LET at == IF Active(items) = {} THEN Len(items) + 1 ELSE Max(Active(items)) + 1
  IN  If(Len(items) < ItemLimit,
         InsertAt(items, at, Item(NextNumber(items), "pending", <<>>)))
\* The active item steps back; its active detail does not, and then the document is invalid.
AddedNow(items) ==
  LET demoted == [i \in DOMAIN items |->
                    IF i \in Active(items)
                    THEN [items[i] EXCEPT !.status = "pending", !.evidence = {}]
                    ELSE items[i]]
      at == IF FirstIncomplete(items) = 0 THEN Len(items) + 1
            ELSE IF Active(items) = {} THEN FirstIncomplete(items) ELSE Min(Active(items))
  IN  If(Len(items) < ItemLimit,
         InsertAt(demoted, at, Item(NextNumber(items), "in_progress", <<>>)))
DetailsAdded(items, i, n) ==
  If(items[i].status # "completed" /\ Len(items[i].details) + n <= DetailLimit,
     [items EXCEPT ![i].details = @ \o [d \in 1..n |-> Detail("pending")]])

\* Mutant of StartedEntry: old evidence stays.
StartedWithEvidence(e) == [e EXCEPT !.status = "in_progress"]

StartedEntry(e) == [e EXCEPT !.status = "in_progress", !.evidence = {}]
Started(items, at) ==
  If(/\ Entry(items, at).status = "pending"
     /\ IF at[2] = 0 THEN Active(items) = {}
        ELSE at[1] \in Active(items) /\ ActiveDetails(items) = {},
     WithEntry(items, at, StartedEntry(Entry(items, at))))

CanComplete(items, at) ==
  /\ Entry(items, at).status = "in_progress"
  /\ IF at[2] = 0 /\ items[at[1]].details # <<>> THEN AllDetails(items[at[1]], "completed")
     ELSE Entry(items, at).evidence # {}
Completed(items, at) ==
  If(CanComplete(items, at), WithEntry(items, at, [Entry(items, at) EXCEPT !.status = "completed"]))

BlockedDetail(d) == IF d.status = "in_progress" THEN [d EXCEPT !.status = "blocked"] ELSE d
Blocked(items, at) ==
  LET e == [Entry(items, at) EXCEPT !.status = "blocked"]
  IN  If(Entry(items, at).status \in {"pending", "in_progress"},
         WithEntry(items, at,
           IF at[2] # 0 THEN e
           ELSE [e EXCEPT !.details = [d \in DOMAIN @ |-> BlockedDetail(@[d])]]))

Reopened(items, at) ==
  If(Entry(items, at).status = "blocked",
     WithEntry(items, at, [Entry(items, at) EXCEPT !.status = "pending"]))

\* The active item, or its active detail, gets the evidence.
EvidenceTarget(items) ==
  IF ActiveDetails(items) # {} THEN ActiveDetails(items) ELSE Active(items) \X {0}
Evidenced(items, e) ==
  UNION {LET entry == Entry(items, at)
         IN  If(e \notin entry.evidence /\ Cardinality(entry.evidence) < EvidenceLimit,
                WithEntry(items, at, [entry EXCEPT !.evidence = @ \union {e}]))
         : at \in EvidenceTarget(items)}

\* What a command other than create may make of the items.
Changed(items) ==
  UNION {UNION {UNION {Started(items, at), Completed(items, at), Blocked(items, at), Reopened(items, at)}
                : at \in Entries(items)},
         UNION {DetailsAdded(items, i, n) : i \in DOMAIN items, n \in 1..DetailLimit},
         UNION {Evidenced(items, e) : e \in Evidence},
         AddedAfter(items), AddedNow(items)}

-----------------------------------------------------------------------------
(* syncNativePlan: the native plan is a sequence of step statuses; the     *)
(* identity of a step is its place.                                        *)

TodoStatus(s) ==
  CASE s = "running" -> "in_progress" [] s = "completed" -> "completed"
    [] s \in {"failed", "cancelled"} -> "blocked" [] OTHER -> "pending"
\* Only the first running step is in progress.
PlanStatus(plan, i) ==
  IF TodoStatus(plan[i]) = "in_progress" /\ \E j \in 1..(i - 1) : plan[j] = "running"
  THEN "pending" ELSE TodoStatus(plan[i])
NativeItem(i, status) == Item(-i, status, <<Detail(status)>>)
FromPlan(plan) ==
  [i \in 1..(IF Len(plan) < ItemLimit THEN Len(plan) ELSE ItemLimit) |->
     NativeItem(i, PlanStatus(plan, i))]

-----------------------------------------------------------------------------
(* The Markdown source: a header with the revision, then lines.  A managed *)
(* line is an item or a detail with its status and evidence; any other is a     *)
(* note.  A line says whether it ends with a line break: only the last can *)
(* lack it.                                                                *)

ManagedLines ==
  [kind : {"item", "detail"}, id : Int, eol : BOOLEAN,
   entry : [status : Statuses, evidence : SUBSET Evidence]]

ItemLine(item)   == [kind |-> "item", id |-> item.id,
                     entry |-> [status |-> item.status, evidence |-> item.evidence], eol |-> TRUE]
DetailLine(d)    == [kind |-> "detail", id |-> 0, entry |-> d, eol |-> TRUE]
NoteLine(n)      == [kind |-> "note", id |-> n, entry |-> Detail("pending"), eol |-> TRUE]

\* renderTodoMarkdown: an empty line, then each item with its details behind it.
ItemLines(item) ==
  <<ItemLine(item)>> \o [d \in DOMAIN item.details |-> DetailLine(item.details[d])]
EntryLines(items) == FlattenSeq([i \in DOMAIN items |-> ItemLines(items[i])])
Render(items) == <<NoteLine(0)>> \o EntryLines(items)

\* A line without its line break and the next one read as one line.  Two managed
\* ones keep the first checkbox and prefix and the second metadata, which must
\* agree; a note with a managed line in it is refused.
Agree(first, second) ==
  IF second = "pending" THEN first # "completed" ELSE first = second
JoinedLine(a, b) ==
  IF a \in ManagedLines /\ b \in ManagedLines /\ Agree(a.entry.status, b.entry.status)
  THEN [b EXCEPT !.kind = a.kind]
  ELSE [a EXCEPT !.kind = "refused", !.eol = b.eol]
\* The lines of a text that is followed by another.
Joined(ls, more) ==
  IF ls = <<>> \/ more = <<>> \/ Last(ls).eol THEN ls \o more
  ELSE Front(ls) \o <<JoinedLine(Last(ls), Head(more))>> \o Tail(more)

\* parseTodoMarkdown.  Unparsable: what validateTodoDocument or the layout refuses.
Unparsable == <<Item(0, "refused", <<>>)>>
AddLine(items, line) ==
  CASE line.kind = "item" ->
         Append(items, [id |-> line.id, status |-> line.entry.status,
                        evidence |-> line.entry.evidence, details |-> <<>>])
    [] line.kind = "detail" /\ items # <<>> ->
         Append(Front(items), [Last(items) EXCEPT !.details = Append(@, line.entry)])
    [] OTHER -> items
Items(lines) == FoldLeft(AddLine, <<>>, lines)
WellFormedTodo(lines) ==
  /\ \A k \in DOMAIN lines : lines[k].kind # "refused"
  /\ \A k \in DOMAIN lines : lines[k].kind = "detail" =>
       \E j \in 1..(k - 1) : lines[j].kind = "item"
Parse(lines) ==
  LET items == Items(lines)
  IN  IF WellFormedTodo(lines) /\ ValidItems(items) THEN items ELSE Unparsable

\* Mutant of InsertionPlace: always behind the first line.
PlaceBehindFirst(lines, managed) == IF lines = <<>> THEN 0 ELSE 1

\* patchTodoMarkdown: managed lines are rewritten in place, those left over
\* removed, further ones inserted behind the last, or behind the first line.
Rewritten(line, desired, rank) ==
  IF line \notin ManagedLines THEN <<line>>
  ELSE IF rank <= Len(desired) THEN <<[desired[rank] EXCEPT !.eol = line.eol]>> ELSE <<>>
InsertionPlace(lines, managed) ==
  IF managed # {} THEN Max(managed) ELSE IF lines = <<>> THEN 0 ELSE 1
Patch(lines, items) ==
  LET desired == EntryLines(items)
      rank(k) == Len(Selected(SubSeq(lines, 1, k), ManagedLines))
      managed == {k \in DOMAIN lines : lines[k] \in ManagedLines}
      kept    == [k \in DOMAIN lines |-> Rewritten(lines[k], desired, rank(k))]
      more    == SubSeq(desired, Cardinality(managed) + 1, Len(desired))
      at      == InsertionPlace(lines, managed)
  IN  Joined(FlattenSeq(SubSeq(kept, 1, at)), more) \o FlattenSeq(SubSeq(kept, at + 1, Len(lines)))

=============================================================================
