--------------------------- MODULE JournalProofs ----------------------------
(***************************************************************************)
(* What is proved of the notes that a thread's journal is read for, for    *)
(* every number of turns, generations, sessions and messages: a question   *)
(* has one note however often it is asked for and whatever crashes         *)
(* (TNotes), and a note is asked to answer the question of its own turn,   *)
(* or an earlier one where the turn's start was not answered in time       *)
(* (JournalViews).                                                         *)
(***************************************************************************)
EXTENDS TNotes, JournalViews, CollectionLemmas

-----------------------------------------------------------------------------
(* The drafts of notes: numbers are given once, lines are appended once.   *)

\* The greatest number of a finite set is not below any of it.
LEMMA MaxNumberIs ==
  ASSUME NEW ns, ns \subseteq Nat, IsFiniteSet(ns)
  PROVE  MaxNumber(ns) \in Nat /\ \A n \in ns : n <= MaxNumber(ns)
<1> DEFINE S == ns \union {0}
<1>1. S \in SUBSET Nat /\ S # {} /\ IsFiniteSet(S)
  BY FS_AddElement
<1>2. Max(S) \in S /\ \A x \in S : x <= Max(S)
  <2> HIDE DEF S
  <2> QED
    BY <1>1, MaxOfUpTo
<1>3. Max(S) \in ns \union {0} /\ \A n \in ns : n <= Max(S)
  BY <1>2
<1> HIDE DEF S
<1>4. MaxNumber(ns) \in ns \union {0} /\ \A n \in ns : n <= MaxNumber(ns)
  BY <1>3 DEF MaxNumber
<1> DEFINE m == MaxNumber(ns)
<1> HIDE DEF m
<1>5. m \in ns \union {0} /\ \A n \in ns : n <= m
  BY <1>4 DEF m
<1>6. m \in Nat
  BY <1>5
<1> QED
  BY <1>5, <1>6 DEF m

Entries == [turn : AllNoteTurns, number : Nat]

\* Every completed turn with a note has a number.
LEMMA IndexHasNumbers ==
  ASSUME NEW ended \in Seq(AllNoteTurns), NEW drafts \in SUBSET NoteRecords, IsFiniteSet(drafts)
  PROVE  CompletionIndex(ended, drafts) \in Seq(Entries)
<1> DEFINE D == DOMAIN ended
           V == Seq(Entries)
           Op(index, t) ==
             IF NoteForTurn(drafts, t) = {} THEN index
             ELSE LET own == MaxNumber({n.number : n \in NoteForTurn(drafts, t)})
                      before == MaxNumber({e.number : e \in ToSet(index)})
                  IN  Append(index, [turn |-> t, number |-> IF own # 0 THEN own ELSE before + 1])
           pick == [s \in SUBSET D |-> IF s = {} THEN D ELSE Max(s)]
           F == [p \in V \X D |-> Op(p[1], ended[p[2]])]
           Value(g, s) == IF s = {} THEN <<>> ELSE Op(g[s \ {Max(s)}], ended[Max(s)])
           none == <<>>
<1>1. D = 1..Len(ended) /\ Len(ended) \in Nat /\ none \in V
  OBVIOUS
<1>2. IsFiniteSet(D)
  BY <1>1, FS_Interval
<1>3. \A s \in SUBSET D : s # {} => Max(s) \in s
  BY <1>1, <1>2, FS_Subset, MaxOfUpTo
<1>4. pick \in [SUBSET D -> D \union {D}] /\ \A s \in SUBSET D : s # {} => pick[s] \in s
  BY <1>3
<1>5. ASSUME NEW index \in V, NEW t \in AllNoteTurns PROVE Op(index, t) \in V
  <2> DEFINE own == {n.number : n \in NoteForTurn(drafts, t)}
             before == {e.number : e \in ToSet(index)}
  <2>1. MaxNumber(own) \in Nat
    <3>1. IsFiniteSet(NoteForTurn(drafts, t))
      BY FS_Subset DEF NoteForTurn
    <3>2. IsFiniteSet(own)
      <4> DEFINE f == [n \in NoteForTurn(drafts, t) |-> n.number]
      <4>1. IsFiniteSet({f[n] : n \in NoteForTurn(drafts, t)})
        <5>1. DOMAIN f = NoteForTurn(drafts, t)
          OBVIOUS
        <5> HIDE DEF f
        <5> QED
          BY <3>1, <5>1, ImageIsFinite
      <4>2. own = {f[n] : n \in NoteForTurn(drafts, t)}
        OBVIOUS
      <4> QED
        BY <4>1, <4>2
    <3>3. own \subseteq Nat
      BY DEF NoteForTurn, NoteRecords
    <3> HIDE DEF own
    <3> QED
      BY <3>2, <3>3, MaxNumberIs
  <2>2. MaxNumber(before) \in Nat
    <3> DEFINE I == 1..Len(index)
    <3>1. ToSet(index) = {index[i] : i \in I} /\ I = DOMAIN index
      BY DEF ToSet
    <3>2. IsFiniteSet(I)
      BY FS_Interval
    <3>3. before = {index[i].number : i \in I}
      BY <3>1
    <3>4. \A i \in I : index[i] \in Entries
      OBVIOUS
    <3>5. IsFiniteSet(before) /\ before \subseteq Nat
      <4>1. IsFiniteSet({index[i].number : i \in I})
        <5> DEFINE f == [i \in I |-> index[i].number]
        <5>1. DOMAIN f = I /\ {index[i].number : i \in I} = {f[i] : i \in I}
          OBVIOUS
        <5> HIDE DEF I, f
        <5> QED
          <6>1. IsFiniteSet({f[i] : i \in I})
            BY <3>2, <5>1, ImageIsFinite
          <6> QED
            BY <5>1, <6>1
      <4> QED
        BY <4>1, <3>3, <3>4 DEF Entries
    <3> HIDE DEF before
    <3> QED
      BY <3>5, MaxNumberIs
  <2> DEFINE m == MaxNumber(own)
             b == MaxNumber(before)
  <2>3. [turn |-> t, number |-> IF m # 0 THEN m ELSE b + 1] \in Entries
    <3> HIDE DEF m, b
    <3>1. m \in Nat /\ b \in Nat
      BY <2>1, <2>2 DEF m, b
    <3> QED
      BY <3>1 DEF Entries
  <2>4. Op(index, t) = index \/ Op(index, t) = Append(index, [turn |-> t, number |-> IF m # 0 THEN m ELSE b + 1])
    OBVIOUS
  <2> HIDE DEF m, b
  <2> QED
    BY <2>3, <2>4
<1>6. F \in [V \X D -> V]
  <2> SUFFICES ASSUME NEW p \in V \X D PROVE F[p] \in V
    <3> HIDE DEF Op
    <3> QED
      OBVIOUS
  <2>1. p[1] \in V /\ ended[p[2]] \in AllNoteTurns
    BY <1>1
  <2> HIDE DEF Op, V
  <2> QED
    BY <2>1, <1>5
<1>7. PICK g : Solves(D, V, none, pick, F, g)
  <2> HIDE DEF pick, F, V, D, none
  <2>1. Recursion(D, V, none, pick, F)
    BY <1>1, <1>2, <1>4, <1>6 DEF Recursion
  <2> QED
    BY <2>1, SetRecursion
<1>8. g = [s \in SUBSET D |-> Value(g, s)]
  <2>0. g \in [SUBSET D -> V]
    BY <1>7 DEF Solves
  <2>1. ASSUME NEW s \in SUBSET D PROVE g[s] = Value(g, s)
    <3>1. CASE s = {}
      BY <3>1, <1>7 DEF Solves
    <3>2. CASE s # {}
      <4>1. pick[s] = Max(s) /\ Max(s) \in D /\ g[s \ {Max(s)}] \in V
        BY <3>2, <1>3, <2>0
      <4>2. g[s] = F[<<g[s \ {Max(s)}], Max(s)>>]
        <5> HIDE DEF F, V, D, none
        <5> QED
          BY <3>2, <4>1, <1>7 DEF Solves
      <4>3. <<g[s \ {Max(s)}], Max(s)>> \in V \X D
        BY <4>1
      <4> HIDE DEF V, D, Op
      <4> QED
        BY <3>2, <4>2, <4>3
    <3> QED
      BY <3>1, <3>2
  <2> HIDE DEF Value, V
  <2> QED
    BY <2>0, <2>1
<1> HIDE DEF pick, F
<1> DEFINE h == CHOOSE iter : iter = [s \in SUBSET D |-> Value(iter, s)]
<1>9. h = [s \in SUBSET D |-> Value(h, s)]
  <2> HIDE DEF Value
  <2> QED
    BY <1>8
<1>10. CompletionIndex(ended, drafts) = h[D]
  BY DEF CompletionIndex, FoldLeft, MapThenFoldSet
<1> HIDE DEF h
<1> DEFINE typed == {n \in Nat : n <= Len(ended) => h[1..n] \in V}
<1>11. 0 \in typed
  <2> HIDE DEF Op
  <2>1. h[1..0] = none
    BY <1>9
  <2>2. h[1..0] \in V
    BY <2>1, <1>1
  <2> QED
    BY <2>2
<1>12. ASSUME NEW n \in Nat, n \in typed PROVE n + 1 \in typed
  <2> SUFFICES ASSUME n + 1 <= Len(ended) PROVE h[1..(n + 1)] \in V
    <3> HIDE DEF V
    <3> QED
      OBVIOUS
  <2>1. h[1..n] \in V /\ ended[n + 1] \in AllNoteTurns
    BY <1>12
  <2> HIDE DEF Op, V
  <2>2. (1..(n + 1)) \in SUBSET D /\ n + 1 \in 1..(n + 1)
    BY <1>1
  <2>3. Max(1..(n + 1)) = n + 1 /\ (1..(n + 1)) \ {n + 1} = 1..n
    <3>1. n + 1 \in Nat /\ n + 1 # 0 /\ (n + 1) - 1 = n
      OBVIOUS
    <3> QED
      BY <3>1, MaxOfFirst
  <2>4. h[1..(n + 1)] = Op(h[1..n], ended[n + 1])
    <3>1. 1..(n + 1) # {}
      BY <2>2
    <3> QED
      BY <2>2, <2>3, <3>1, <1>9
  <2> QED
    BY <2>1, <2>4, <1>5
<1>13. \A n \in Nat : n \in typed
  <2> HIDE DEF typed
  <2> QED
    BY <1>11, <1>12, AllNumbers
<1>14. h[1..Len(ended)] \in V
  BY <1>1, <1>13
<1> QED
  BY <1>1, <1>10, <1>14

\* The ordinal a turn's question gets is a number.
LEMMA OrdinalsAreNumbers ==
  ASSUME NEW ended \in Seq(AllNoteTurns), NEW drafts \in SUBSET NoteRecords, IsFiniteSet(drafts),
         NEW T, NEW reserved \in [T -> Nat], NEW t \in T
  PROVE  OrdinalFor(ended, drafts, reserved, t) \in Nat
<1> DEFINE index == CompletionIndex(ended, drafts)
           visible == {e.number : e \in {i \in ToSet(index) : i.turn # t}}
           own == {n.number : n \in drafts}
<1>1. index \in Seq(Entries)
  BY IndexHasNumbers
<1> HIDE DEF index
<1>2. IsFiniteSet(visible) /\ visible \subseteq Nat
  <2> DEFINE I == {i \in 1..Len(index) : index[i].turn # t}
  <2>1. Len(index) \in Nat /\ DOMAIN index = 1..Len(index) /\ \A i \in 1..Len(index) : index[i] \in Entries
    BY <1>1
  <2>2. visible = {index[i].number : i \in I}
    BY <2>1 DEF ToSet
  <2>3. IsFiniteSet(1..Len(index))
    BY <2>1, FS_Interval
  <2>4. IsFiniteSet(I)
    BY <2>3, FS_Subset
  <2>5. IsFiniteSet({index[i].number : i \in I})
    <3> DEFINE f == [i \in I |-> index[i].number]
    <3>1. DOMAIN f = I /\ {index[i].number : i \in I} = {f[i] : i \in I}
      OBVIOUS
    <3> HIDE DEF I, f
    <3> QED
      <4>1. IsFiniteSet({f[i] : i \in I})
        BY <2>4, <3>1, ImageIsFinite
      <4> QED
        BY <3>1, <4>1
  <2> QED
    BY <2>1, <2>2, <2>5 DEF Entries
<1>3. IsFiniteSet(own) /\ own \subseteq Nat
  <2> DEFINE f == [n \in drafts |-> n.number]
  <2>1. DOMAIN f = drafts /\ own = {f[n] : n \in drafts}
    OBVIOUS
  <2>2. IsFiniteSet({f[n] : n \in drafts})
    <3> HIDE DEF f
    <3> QED
      BY <2>1, ImageIsFinite
  <2> QED
    BY <2>1, <2>2 DEF NoteRecords
<1>4. MaxNumber(own \union visible) \in Nat
  <2> HIDE DEF own, visible
  <2>1. IsFiniteSet(own \union visible) /\ own \union visible \subseteq Nat
    BY <1>2, <1>3, FS_Union
  <2> QED
    BY <2>1, MaxNumberIs
<1>5. OrdinalFor(ended, drafts, reserved, t) = IF reserved[t] # 0 THEN reserved[t] ELSE 1 + MaxNumber(own \union visible)
  BY DEF OrdinalFor, index
<1> HIDE DEF own, visible
<1>6. reserved[t] \in Nat
  OBVIOUS
<1> DEFINE m == MaxNumber(own \union visible)
<1>7. m \in Nat
  BY <1>4
<1> HIDE DEF m
<1>8. OrdinalFor(ended, drafts, reserved, t) = IF reserved[t] # 0 THEN reserved[t] ELSE 1 + m
  BY <1>5 DEF m
<1> QED
  BY <1>6, <1>7, <1>8

\* The ended that have a note in the file, and the drafts of a session.
FileTurns == {lines[i].turn : i \in DOMAIN lines}
DraftTurns(s) == {n.turn : n \in noteDrafts[s]}

NotesTyped ==
  /\ sessionState \in [NoteSessions -> {"open", "closing", "gone"}]
  /\ completedTurns \in [NoteSessions -> Seq(AllNoteTurns)]
  /\ lines \in Seq(NoteRecords)
  /\ tail = NoTail \/ tail \in [whole : BOOLEAN, note : NoteRecords]
  /\ noteDrafts \in [NoteSessions -> SUBSET NoteRecords]
  /\ notesListed \in [NoteSessions -> Seq(NoteRecords)]
  /\ DOMAIN ordinals = NoteSessions /\ \A s \in NoteSessions : ordinals[s] \in [NoteTurns[s] -> Nat]
  /\ jobs \in [NoteSessions -> Seq(AllNoteTurns)]
  /\ automatic \in [NoteSessions -> SUBSET AllNoteTurns]
  /\ requests \in [NoteSessions -> SUBSET [turn : AllNoteTurns, by : {"job", "manual"}, line : Nat]]
  /\ manual \in [NoteSessions -> [turn : AllNoteTurns \union {"none"}, behind : Nat,
                                  step : {"idle", "waits", "creates"}]]
  /\ \A s \in NoteSessions : noteDrafts[s] = ToSet(notesListed[s])

\* The queue of a session has its completed ended, each once.
QueueInOrder(s) ==
  /\ Once(completedTurns[s]) /\ Once(jobs[s])
  /\ ToSet(jobs[s]) \subseteq automatic[s]
  /\ automatic[s] \subseteq ToSet(completedTurns[s])
  /\ ToSet(completedTurns[s]) \subseteq NoteTurns[s]

\* A request is that of the first job or of the command, which waits behind a job for its turn.
RequestsApart(s) ==
  /\ \A r \in requests[s] :
       /\ r.turn \in automatic[s]
       /\ r.by = "job" => jobs[s] # <<>> /\ r.turn = Head(jobs[s])
       /\ r.by = "manual" =>
            manual[s].step = "creates" /\ manual[s].turn = r.turn /\ r.turn \notin ToSet(jobs[s])
  /\ \A r, q \in requests[s] : r.by = q.by => r = q
  /\ manual[s].step = "idle" => manual[s] = NoManual
  /\ manual[s].step # "idle" => manual[s].turn \in ToSet(completedTurns[s])
  /\ manual[s].step = "waits" =>
       \A k \in DOMAIN jobs[s] : jobs[s][k] = manual[s].turn => k <= manual[s].behind
  /\ sessionState[s] = "gone" => requests[s] = {} /\ jobs[s] = <<>> /\ manual[s] = NoManual

\* What an open session has is what the file has of it, and what it is about to write is new.
DraftsAgree(s) ==
  /\ DraftTurns(s) \subseteq FileTurns \intersect NoteTurns[s]
  /\ sessionState[s] = "open" => FileTurns \intersect NoteTurns[s] \subseteq DraftTurns(s)
  /\ sessionState[s] = "open" => ToSet(jobs[s]) \intersect FileTurns = {}
  /\ \A r \in requests[s] : sessionState[s] = "open" \/ r.line # 0 => r.turn \notin FileTurns
  /\ \A i, j \in DOMAIN notesListed[s] : notesListed[s][i].turn = notesListed[s][j].turn => i = j

\* What a crash left is of a session that is gone, and is not in the file yet.
TailIsNew ==
  tail # NoTail =>
    /\ tail.note.turn \notin FileTurns
    /\ \E o \in NoteSessions : tail.note.turn \in NoteTurns[o] /\ sessionState[o] = "gone"

LinesApart == \A i, j \in DOMAIN lines : lines[i].turn = lines[j].turn => i = j

NotesInv ==
  /\ NotesTyped /\ LinesApart /\ TailIsNew
  /\ \A s \in NoteSessions : QueueInOrder(s) /\ RequestsApart(s) /\ DraftsAgree(s)

SameSession(q) ==
  /\ sessionState'[q] = sessionState[q] /\ completedTurns'[q] = completedTurns[q]
  /\ noteDrafts'[q] = noteDrafts[q] /\ notesListed'[q] = notesListed[q]
  /\ jobs'[q] = jobs[q] /\ automatic'[q] = automatic[q]
  /\ requests'[q] = requests[q] /\ manual'[q] = manual[q]

\* What a session writes into the file is nothing to the others.
LEMMA OtherSession ==
  ASSUME NotesTyped, NEW q \in NoteSessions, QueueInOrder(q), RequestsApart(q), DraftsAgree(q),
         SameSession(q), FileTurns \subseteq FileTurns',
         \A t \in FileTurns' \ FileTurns : t \notin NoteTurns[q] \/ sessionState[q] = "gone"
  PROVE  QueueInOrder(q)' /\ RequestsApart(q)' /\ DraftsAgree(q)'
<1>1. QueueInOrder(q)'
  BY DEF QueueInOrder, SameSession
<1>2. RequestsApart(q)'
  BY DEF RequestsApart, SameSession
<1>3. \A t \in automatic[q] \union ToSet(jobs[q]) : t \in NoteTurns[q]
  BY DEF QueueInOrder
<1>4. DraftTurns(q)' \subseteq FileTurns' \intersect NoteTurns[q]
  BY DEF DraftsAgree, DraftTurns, SameSession
<1>5. sessionState'[q] = "open" => FileTurns' \intersect NoteTurns[q] \subseteq DraftTurns(q)'
  BY DEF DraftsAgree, DraftTurns, SameSession
<1>6. sessionState'[q] = "open" => ToSet(jobs'[q]) \intersect FileTurns' = {}
  BY <1>3 DEF DraftsAgree, SameSession
<1>7. \A r \in requests'[q] : sessionState'[q] = "open" \/ r.line # 0 => r.turn \notin FileTurns'
  BY <1>3 DEF DraftsAgree, RequestsApart, SameSession
<1>8. \A i, j \in DOMAIN notesListed'[q] : notesListed'[q][i].turn = notesListed'[q][j].turn => i = j
  BY DEF DraftsAgree, SameSession
<1> QED
  BY <1>1, <1>2, <1>4, <1>5, <1>6, <1>7, <1>8 DEF DraftsAgree

\* A step that leaves the file alone and no session begins or revives.
LEMMA SameFile ==
  ASSUME NotesInv, NEW s \in NoteSessions, UNCHANGED <<lines, tail>>,
         sessionState[s] = "gone" => sessionState'[s] = "gone",
         \A q \in NoteSessions : q # s => SameSession(q),
         NotesTyped', QueueInOrder(s)', RequestsApart(s)', DraftsAgree(s)'
  PROVE  NotesInv'
<1>1. FileTurns' = FileTurns
  BY DEF FileTurns
<1>2. LinesApart'
  BY DEF NotesInv, LinesApart
<1>3. TailIsNew'
  <2>1. \A o \in NoteSessions : sessionState[o] = "gone" => sessionState'[o] = "gone"
    BY DEF SameSession
  <2> QED
    BY <1>1, <2>1 DEF NotesInv, TailIsNew
<1>4. ASSUME NEW q \in NoteSessions PROVE QueueInOrder(q)' /\ RequestsApart(q)' /\ DraftsAgree(q)'
  <2>1. CASE q = s
    BY <2>1
  <2>2. CASE q # s
    <3>1. SameSession(q) /\ QueueInOrder(q) /\ RequestsApart(q) /\ DraftsAgree(q) /\ NotesTyped
      BY <2>2 DEF NotesInv
    <3>2. FileTurns \subseteq FileTurns' /\ FileTurns' \ FileTurns = {}
      BY <1>1
    <3> QED
      BY <3>1, <3>2, OtherSession
  <2> QED
    BY <2>1, <2>2
<1> QED
  BY <1>2, <1>3, <1>4 DEF NotesInv

\* The same of a step that writes.
LEMMA MoreFile ==
  ASSUME NotesInv, NEW s \in NoteSessions, NotesTyped', LinesApart', TailIsNew',
         FileTurns \subseteq FileTurns',
         \A q \in NoteSessions : q # s =>
           /\ SameSession(q)
           /\ \A t \in FileTurns' \ FileTurns : t \notin NoteTurns[q] \/ sessionState[q] = "gone",
         QueueInOrder(s)', RequestsApart(s)', DraftsAgree(s)'
  PROVE  NotesInv'
<1>1. ASSUME NEW q \in NoteSessions PROVE QueueInOrder(q)' /\ RequestsApart(q)' /\ DraftsAgree(q)'
  <2>1. CASE q = s
    BY <2>1
  <2>2. CASE q # s
    <3>1. SameSession(q) /\ QueueInOrder(q) /\ RequestsApart(q) /\ DraftsAgree(q) /\ NotesTyped
      BY <2>2 DEF NotesInv
    <3> QED
      BY <3>1, <2>2, OtherSession
  <2> QED
    BY <2>1, <2>2
<1> QED
  BY <1>1 DEF NotesInv

\* What scheduleAutomaticTNote leaves behind.
Scheduled(s, ended, drafts, queued, running) ==
  /\ jobs' \in [NoteSessions -> Seq(AllNoteTurns)] /\ automatic' \in [NoteSessions -> SUBSET AllNoteTurns]
  /\ DOMAIN ordinals' = NoteSessions
  /\ \A q \in NoteSessions : ordinals'[q] \in [NoteTurns[q] -> Nat]
  /\ \A q \in NoteSessions : q # s => jobs'[q] = jobs[q] /\ automatic'[q] = automatic[q]
  /\ Once(jobs'[s])
  /\ ToSet(jobs'[s]) = ToSet(queued) \union
       {t \in ToSet(ended) : t \notin running /\ NoteForTurn(drafts, t) = {}}
  /\ ToSet(jobs'[s]) \subseteq automatic'[s]
  /\ running \subseteq automatic'[s] /\ automatic'[s] \subseteq running \union ToSet(ended)
  /\ \E new \in Seq(AllNoteTurns) : jobs'[s] = queued \o new /\ ToSet(new) \subseteq ToSet(ended)

\* Turns that have no note are scheduled once.
LEMMA SchedulesOnce ==
  ASSUME NEW s \in NoteSessions, NEW ended \in Seq(AllNoteTurns), NEW drafts \in SUBSET NoteRecords,
         IsFiniteSet(drafts), NEW reserved \in [NoteTurns[s] -> Nat],
         NEW queued \in Seq(AllNoteTurns), NEW running \in SUBSET AllNoteTurns,
         completedTurns'[s] \in Seq(AllNoteTurns), NotesTyped,
         Once(ended), Once(queued), ToSet(queued) \subseteq running,
         Schedule(s, ended, drafts, reserved, queued, running)
  PROVE  Scheduled(s, ended, drafts, queued, running)
<1> DEFINE these == {t \in ToSet(ended) : t \notin running /\ MayNote(drafts, t)}
           new == Selected(ended, these)
<1>1. /\ jobs' = [jobs EXCEPT ![s] = queued \o new]
      /\ automatic' = [automatic EXCEPT ![s] = running \union ToSet(new)]
      /\ ordinals' = [ordinals EXCEPT ![s] =
                        [t \in NoteTurns[s] |-> IF t \in ToSet(new) THEN OrdinalFor(completedTurns'[s], drafts, reserved, t)
                                                ELSE reserved[t]]]
  BY DEF Schedule
<1>2. new \in Seq(AllNoteTurns) /\ ToSet(new) = ToSet(ended) \intersect these /\ Once(new)
  <2> HIDE DEF these
  <2> QED
    BY SelectedOnce
<1> HIDE DEF new
<1>3. ToSet(new) \intersect ToSet(queued) = {}
  BY <1>2
<1>4. /\ queued \o new \in Seq(AllNoteTurns) /\ ToSet(queued \o new) = ToSet(queued) \union ToSet(new)
      /\ Once(queued \o new)
  BY <1>2, <1>3, ToSetOfConcat
<1>5. ToSet(ended) \subseteq AllNoteTurns
  <2>1. \A i \in DOMAIN ended : ended[i] \in AllNoteTurns
    OBVIOUS
  <2> QED
    BY <2>1 DEF ToSet
<1>6. jobs' \in [NoteSessions -> Seq(AllNoteTurns)] /\ jobs'[s] = queued \o new
      /\ \A q \in NoteSessions : q # s => jobs'[q] = jobs[q]
  <2> DEFINE more == queued \o new
  <2>1. more \in Seq(AllNoteTurns) /\ jobs' = [jobs EXCEPT ![s] = more]
    BY <1>1, <1>4
  <2>2. jobs \in [NoteSessions -> Seq(AllNoteTurns)]
    BY DEF NotesTyped
  <2> HIDE DEF more
  <2>3. jobs' \in [NoteSessions -> Seq(AllNoteTurns)] /\ jobs'[s] = more
        /\ \A q \in NoteSessions : q # s => jobs'[q] = jobs[q]
    BY <2>1, <2>2
  <2> QED
    BY <2>3 DEF more
<1>7. automatic' \in [NoteSessions -> SUBSET AllNoteTurns] /\ automatic'[s] = running \union ToSet(new)
      /\ \A q \in NoteSessions : q # s => automatic'[q] = automatic[q]
  <2>1. automatic \in [NoteSessions -> SUBSET AllNoteTurns]
    BY DEF NotesTyped
  <2>2. running \union ToSet(new) \in SUBSET AllNoteTurns
    BY <1>2, <1>5
  <2> HIDE DEF these
  <2> QED
    BY <1>1, <2>1, <2>2
<1>8. DOMAIN ordinals' = NoteSessions /\ \A q \in NoteSessions : ordinals'[q] \in [NoteTurns[q] -> Nat]
  <2> DEFINE mine == [t \in NoteTurns[s] |-> IF t \in ToSet(new) THEN OrdinalFor(completedTurns'[s], drafts, reserved, t)
                                             ELSE reserved[t]]
  <2>1. DOMAIN ordinals = NoteSessions /\ \A q \in NoteSessions : ordinals[q] \in [NoteTurns[q] -> Nat]
    BY DEF NotesTyped
  <2>2. mine \in [NoteTurns[s] -> Nat]
    <3>1. ASSUME NEW t \in NoteTurns[s] PROVE OrdinalFor(completedTurns'[s], drafts, reserved, t) \in Nat
      <4> DEFINE T == NoteTurns[s]
                 turnsNow == completedTurns'[s]
      <4>1. turnsNow \in Seq(AllNoteTurns) /\ t \in T /\ reserved \in [T -> Nat]
        OBVIOUS
      <4> HIDE DEF T, turnsNow
      <4>2. OrdinalFor(turnsNow, drafts, reserved, t) \in Nat
        BY <4>1, OrdinalsAreNumbers
      <4> QED
        BY <4>2 DEF turnsNow
    <3> QED
      BY <3>1
  <2>3. ordinals' = [ordinals EXCEPT ![s] = mine]
    BY <1>1
  <2> HIDE DEF mine
  <2> QED
    BY <2>1, <2>2, <2>3
<1>9. ToSet(new) = {t \in ToSet(ended) : t \notin running /\ NoteForTurn(drafts, t) = {}}
  BY <1>2 DEF MayNote
<1>10. \E n \in Seq(AllNoteTurns) : jobs'[s] = queued \o n /\ ToSet(n) \subseteq ToSet(ended)
  BY <1>2, <1>6
<1> HIDE DEF these
<1> QED
  BY <1>2, <1>4, <1>6, <1>7, <1>8, <1>9, <1>10 DEF Scheduled

Requested == [turn : AllNoteTurns, by : {"job", "manual"}, line : Nat]
Commands == [turn : AllNoteTurns \union {"none"}, behind : Nat, step : {"idle", "waits", "creates"}]

\* Two requests of a session are of different ended.
LEMMA RequestsOfTurns ==
  ASSUME NotesTyped, NEW s \in NoteSessions, RequestsApart(s), NEW r \in requests[s], NEW q \in requests[s], r # q
  PROVE  r.turn # q.turn
<1>1. r \in Requested /\ q \in Requested /\ jobs[s] \in Seq(AllNoteTurns)
  BY DEF NotesTyped, Requested
<1>2. r.by # q.by
  BY DEF RequestsApart
<1>3. \A h \in Seq(AllNoteTurns) : h # <<>> => Head(h) \in ToSet(h)
  BY ToSetOfTail
<1>4. CASE r.by = "job" /\ q.by = "manual"
  BY <1>1, <1>3, <1>4 DEF RequestsApart
<1>5. CASE r.by = "manual" /\ q.by = "job"
  BY <1>1, <1>3, <1>5 DEF RequestsApart
<1> QED
  BY <1>1, <1>2, <1>4, <1>5 DEF Requested

\* The end of a request leaves the queue and the other request in order.
LEMMA FinishedFrees ==
  ASSUME NotesTyped, NEW s \in NoteSessions, QueueInOrder(s), RequestsApart(s), NEW r \in requests[s],
         Finished(s, r)
  PROVE  /\ requests' \in [NoteSessions -> SUBSET Requested] /\ requests'[s] = requests[s] \ {r}
         /\ automatic' \in [NoteSessions -> SUBSET AllNoteTurns]
         /\ jobs' \in [NoteSessions -> Seq(AllNoteTurns)]
         /\ manual' \in [NoteSessions -> Commands]
         /\ \A q \in NoteSessions : q # s =>
              /\ requests'[q] = requests[q] /\ automatic'[q] = automatic[q] /\ jobs'[q] = jobs[q]
              /\ manual'[q] = manual[q]
         /\ ToSet(jobs'[s]) \subseteq ToSet(jobs[s]) \ {r.turn}
         /\ completedTurns'[s] = completedTurns[s] => QueueInOrder(s)'
         /\ completedTurns'[s] = completedTurns[s] /\ sessionState'[s] = sessionState[s] => RequestsApart(s)'
<1>1. r \in Requested /\ jobs \in [NoteSessions -> Seq(AllNoteTurns)]
      /\ requests \in [NoteSessions -> SUBSET Requested]
      /\ automatic \in [NoteSessions -> SUBSET AllNoteTurns] /\ manual \in [NoteSessions -> Commands]
  BY DEF NotesTyped, Requested, Commands
<1>2. requests' \in [NoteSessions -> SUBSET Requested] /\ requests'[s] = requests[s] \ {r}
      /\ \A q \in NoteSessions : q # s => requests'[q] = requests[q]
  BY <1>1 DEF Finished
<1>3. automatic' \in [NoteSessions -> SUBSET AllNoteTurns] /\ automatic'[s] = automatic[s] \ {r.turn}
      /\ \A q \in NoteSessions : q # s => automatic'[q] = automatic[q]
  BY <1>1 DEF Finished
<1>4. r.by = "job" => /\ jobs[s] # <<>> /\ r.turn = Head(jobs[s])
                      /\ Tail(jobs[s]) \in Seq(AllNoteTurns) /\ jobs'[s] = Tail(jobs[s])
                      /\ Once(Tail(jobs[s])) /\ ToSet(Tail(jobs[s])) = ToSet(jobs[s]) \ {r.turn}
                      /\ DOMAIN Tail(jobs[s]) = 1..(Len(jobs[s]) - 1)
                      /\ \A k \in DOMAIN Tail(jobs[s]) : Tail(jobs[s])[k] = jobs[s][k + 1]
  <2> SUFFICES ASSUME r.by = "job" PROVE <1>4!2
    OBVIOUS
  <2>1. jobs[s] # <<>> /\ r.turn = Head(jobs[s]) /\ jobs[s] \in Seq(AllNoteTurns) /\ Once(jobs[s])
    BY <1>1 DEF RequestsApart, QueueInOrder
  <2>2. jobs' = [jobs EXCEPT ![s] = Tail(@)]
    BY DEF Finished
  <2>3. jobs'[s] = Tail(jobs[s])
    BY <1>1, <2>2
  <2> DEFINE h == jobs[s]
  <2>4. h \in Seq(AllNoteTurns) /\ h # <<>> /\ Once(h)
    BY <2>1
  <2> HIDE DEF h
  <2>5. /\ Tail(h) \in Seq(AllNoteTurns) /\ DOMAIN Tail(h) = 1..(Len(h) - 1)
        /\ \A k \in DOMAIN Tail(h) : Tail(h)[k] = h[k + 1]
        /\ Once(Tail(h)) /\ ToSet(Tail(h)) = ToSet(h) \ {Head(h)}
    BY <2>4, ToSetOfTail
  <2> QED
    BY <2>1, <2>3, <2>5 DEF h
<1>5. r.by # "job" => jobs' = jobs /\ r.by = "manual" /\ r.turn \notin ToSet(jobs[s])
  BY <1>1 DEF Finished, RequestsApart, Requested
<1>6. jobs' \in [NoteSessions -> Seq(AllNoteTurns)] /\ \A q \in NoteSessions : q # s => jobs'[q] = jobs[q]
  <2>1. CASE r.by = "job"
    <3>1. jobs' = [jobs EXCEPT ![s] = Tail(jobs[s])]
      BY <2>1 DEF Finished
    <3> QED
      BY <1>1, <1>4, <2>1, <3>1
  <2>2. CASE r.by # "job"
    BY <1>1, <1>5, <2>2
  <2> QED
    BY <2>1, <2>2
<1>7. ToSet(jobs'[s]) \subseteq ToSet(jobs[s]) \ {r.turn} /\ (Once(jobs[s]) => Once(jobs'[s]))
  BY <1>4, <1>5
<1> DEFINE shorter == [manual[s] EXCEPT !.behind = IF @ = 0 THEN 0 ELSE @ - 1]
<1>8. manual[s] \in Commands
  BY <1>1
<1>9. shorter \in Commands /\ shorter.turn = manual[s].turn /\ shorter.step = manual[s].step
      /\ shorter.behind = IF manual[s].behind = 0 THEN 0 ELSE manual[s].behind - 1
  <2> DEFINE c == manual[s]
  <2>1. c \in Commands
    BY <1>8
  <2>2. shorter = [c EXCEPT !.behind = IF c.behind = 0 THEN 0 ELSE c.behind - 1]
    OBVIOUS
  <2> HIDE DEF c, shorter
  <2>3. c.behind \in Nat
    BY <2>1 DEF Commands
  <2>4. (IF c.behind = 0 THEN 0 ELSE c.behind - 1) \in Nat
    BY <2>3
  <2> QED
    BY <2>1, <2>2, <2>4 DEF c, Commands
<1>10. r.by = "manual" => manual' = [manual EXCEPT ![s] = NoManual]
  BY DEF Finished
<1>11. r.by # "manual" => manual' = [manual EXCEPT ![s] = shorter]
  BY <1>1 DEF Finished
<1>12. NoManual \in Commands
  BY DEF NoManual, Commands
<1>13. manual' \in [NoteSessions -> Commands] /\ (\A q \in NoteSessions : q # s => manual'[q] = manual[q])
       /\ manual'[s] = IF r.by = "manual" THEN NoManual ELSE shorter
  <2> HIDE DEF shorter
  <2> QED
    BY <1>1, <1>9, <1>10, <1>11, <1>12
<1> HIDE DEF shorter
<1>14. ASSUME completedTurns'[s] = completedTurns[s] PROVE QueueInOrder(s)'
  BY <1>3, <1>7, <1>14 DEF QueueInOrder
<1>15. ASSUME completedTurns'[s] = completedTurns[s], sessionState'[s] = sessionState[s] PROVE RequestsApart(s)'
  <2>1. ASSUME NEW q \in requests'[s]
        PROVE  /\ q.turn \in automatic'[s]
               /\ q.by = "job" => jobs'[s] # <<>> /\ q.turn = Head(jobs'[s])
               /\ q.by = "manual" =>
                    manual'[s].step = "creates" /\ manual'[s].turn = q.turn /\ q.turn \notin ToSet(jobs'[s])
    <3>1. q \in requests[s] /\ q # r
      BY <1>2
    <3>2. q.turn # r.turn /\ q.by # r.by
      <4>1. q.by # r.by
        BY <3>1 DEF RequestsApart
      <4> QED
        BY <3>1, <4>1, RequestsOfTurns
    <3>3. q.turn \in automatic'[s]
      BY <3>1, <3>2, <1>3 DEF RequestsApart
    <3>4. q.by = "job" => jobs'[s] # <<>> /\ q.turn = Head(jobs'[s])
      BY <3>1, <3>2, <1>5 DEF RequestsApart
    <3>5. q.by = "manual" =>
            manual'[s].step = "creates" /\ manual'[s].turn = q.turn /\ q.turn \notin ToSet(jobs'[s])
      BY <3>1, <3>2, <1>7, <1>9, <1>13 DEF RequestsApart
    <3> QED
      BY <3>3, <3>4, <3>5
  <2>2. \A q, p \in requests'[s] : q.by = p.by => q = p
    BY <1>2 DEF RequestsApart
  <2>3. manual'[s].step = "idle" => manual'[s] = NoManual
    <3>1. CASE r.by = "manual"
      BY <3>1, <1>13
    <3>2. CASE r.by # "manual"
      <4> SUFFICES ASSUME manual'[s].step = "idle" PROVE manual'[s] = NoManual
        OBVIOUS
      <4>1. manual[s] = NoManual /\ manual'[s] = shorter
        BY <3>2, <1>9, <1>13 DEF RequestsApart
      <4>2. shorter = NoManual
        BY <4>1 DEF shorter, NoManual
      <4> QED
        BY <4>1, <4>2
    <3> QED
      BY <3>1, <3>2
  <2>4. manual'[s].step # "idle" => manual'[s].turn \in ToSet(completedTurns'[s])
    BY <1>9, <1>13, <1>15 DEF RequestsApart, NoManual
  <2>5. manual'[s].step = "waits" =>
          \A k \in DOMAIN jobs'[s] : jobs'[s][k] = manual'[s].turn => k <= manual'[s].behind
    <3> SUFFICES ASSUME manual'[s].step = "waits", NEW k \in DOMAIN jobs'[s], jobs'[s][k] = manual'[s].turn
                 PROVE  k <= manual'[s].behind
      OBVIOUS
    <3>1. r.by = "job" /\ manual'[s] = shorter
      BY <1>1, <1>13 DEF NoManual, Requested
    <3>2. manual[s].step = "waits" /\ manual[s].turn = manual'[s].turn
      BY <3>1, <1>9
    <3>3. k \in 1..(Len(jobs[s]) - 1) /\ jobs[s][k + 1] = manual[s].turn
      BY <3>1, <3>2, <1>4
    <3>4. Len(jobs[s]) \in Nat /\ DOMAIN jobs[s] = 1..Len(jobs[s])
      BY <1>1
    <3>5. k + 1 \in DOMAIN jobs[s]
      BY <3>3, <3>4
    <3>6. k + 1 <= manual[s].behind
      BY <3>2, <3>3, <3>5 DEF RequestsApart
    <3>7. manual[s].behind \in Nat /\ k \in Nat
      BY <1>8, <3>3, <3>4 DEF Commands
    <3>8. manual'[s].behind = IF manual[s].behind = 0 THEN 0 ELSE manual[s].behind - 1
      BY <3>1, <1>9
    <3> QED
      BY <3>6, <3>7, <3>8
  <2>6. sessionState[s] # "gone"
    BY DEF RequestsApart
  <2> QED
    BY <2>1, <2>2, <2>3, <2>4, <2>5, <2>6, <1>15 DEF RequestsApart
<1> QED
  BY <1>2, <1>3, <1>6, <1>7, <1>13, <1>14, <1>15

\* A concatenation begins as its first part and goes on with elements of the second.
LEMMA ConcatBegins ==
  ASSUME NEW S, NEW h \in Seq(S), NEW g \in Seq(S)
  PROVE  /\ h # <<>> => h \o g # <<>> /\ Head(h \o g) = Head(h)
         /\ \A k \in DOMAIN (h \o g) : (k \in DOMAIN h /\ (h \o g)[k] = h[k]) \/ (h \o g)[k] \in ToSet(g)
<1> DEFINE c == h \o g
           m == Len(h)
           n == Len(g)
<1>1. m \in Nat /\ n \in Nat /\ DOMAIN h = 1..m /\ DOMAIN g = 1..n /\ c \in Seq(S) /\ DOMAIN c = 1..(m + n)
  OBVIOUS
<1>2. \A i \in 1..m : c[i] = h[i]
  OBVIOUS
<1>3. ASSUME NEW k \in 1..(m + n), k \notin 1..m PROVE c[k] \in ToSet(g)
  <2>1. k - m \in 1..n /\ c[k] = g[k - m]
    BY <1>1, <1>3
  <2> QED
    BY <1>1, <2>1 DEF ToSet
<1>4. h # <<>> => c # <<>> /\ Head(c) = Head(h)
  <2> SUFFICES ASSUME h # <<>> PROVE c # <<>> /\ Head(c) = Head(h)
    OBVIOUS
  <2>1. m > 0 /\ Len(c) = m + n
    BY <1>1
  <2>2. c # <<>> /\ Head(c) = c[1] /\ Head(h) = h[1] /\ 1 \in 1..m
    BY <1>1, <2>1
  <2> QED
    BY <1>2, <2>2
<1> QED
  BY <1>1, <1>2, <1>3, <1>4

\* A note more in the file.
LEMMA LineAdded ==
  ASSUME lines \in Seq(NoteRecords), LinesApart, NEW note \in NoteRecords, note.turn \notin FileTurns,
         lines' = Append(lines, note)
  PROVE  lines' \in Seq(NoteRecords) /\ LinesApart' /\ FileTurns' = FileTurns \union {note.turn}
<1> DEFINE n == Len(lines)
<1>1. n \in Nat /\ DOMAIN lines = 1..n /\ lines' \in Seq(NoteRecords) /\ DOMAIN lines' = 1..(n + 1)
      /\ lines'[n + 1] = note /\ \A i \in 1..n : lines'[i] = lines[i]
  OBVIOUS
<1> HIDE DEF n
<1>2. \A i \in 1..(n + 1) : i = n + 1 \/ i \in 1..n
  BY <1>1
<1>3. FileTurns' = FileTurns \union {note.turn}
  <2>1. FileTurns' \subseteq FileTurns \union {note.turn}
    BY <1>1, <1>2 DEF FileTurns
  <2>2. FileTurns \subseteq FileTurns' /\ note.turn \in FileTurns'
    <3>1. \A i \in 1..n : i \in 1..(n + 1)
      BY <1>1
    <3>2. n + 1 \in 1..(n + 1)
      BY <1>1
    <3> QED
      BY <1>1, <3>1, <3>2 DEF FileTurns
  <2> QED
    BY <2>1, <2>2
<1>4. LinesApart'
  <2> SUFFICES ASSUME NEW i \in 1..(n + 1), NEW j \in 1..(n + 1), lines'[i].turn = lines'[j].turn PROVE i = j
    BY <1>1 DEF LinesApart
  <2>1. \A k \in 1..n : lines[k].turn # note.turn
    BY <1>1 DEF FileTurns
  <2> QED
    BY <1>1, <1>2, <2>1 DEF LinesApart
<1> QED
  BY <1>1, <1>3, <1>4

\* What reading the file recovers of a crash.
LEMMA LinesRecovered ==
  ASSUME NotesTyped, LinesApart, TailIsNew, lines' = Recovered(lines, tail)
  PROVE  /\ lines' \in Seq(NoteRecords) /\ LinesApart' /\ FileTurns \subseteq FileTurns'
         /\ \A t \in FileTurns' \ FileTurns :
              \E o \in NoteSessions : t \in NoteTurns[o] /\ sessionState[o] = "gone"
<1>1. CASE tail.whole /\ tail.note.line = Len(lines) + 1
  <2>1. tail # NoTail
    BY <1>1 DEF NoTail
  <2>2. tail.note \in NoteRecords
    BY <2>1 DEF NotesTyped
  <2>3. lines' = Append(lines, tail.note)
    BY <1>1 DEF Recovered
  <2>4. tail.note.turn \notin FileTurns
        /\ \E o \in NoteSessions : tail.note.turn \in NoteTurns[o] /\ sessionState[o] = "gone"
    BY <2>1 DEF TailIsNew
  <2>5. lines \in Seq(NoteRecords)
    BY DEF NotesTyped
  <2>6. lines' \in Seq(NoteRecords) /\ LinesApart' /\ FileTurns' = FileTurns \union {tail.note.turn}
    BY <2>2, <2>3, <2>4, <2>5, LineAdded
  <2> QED
    BY <2>4, <2>6
<1>2. CASE ~(tail.whole /\ tail.note.line = Len(lines) + 1)
  <2>1. lines' = lines
    BY <1>2 DEF Recovered
  <2>2. FileTurns' = FileTurns
    BY <2>1 DEF FileTurns
  <2>3. LinesApart' /\ lines' \in Seq(NoteRecords)
    BY <2>1 DEF LinesApart, NotesTyped
  <2> QED
    BY <2>2, <2>3
<1> QED
  BY <1>1, <1>2

\* A session has finitely many drafts of notes.
LEMMA DraftsAreFinite ==
  ASSUME NotesTyped, NEW s \in NoteSessions
  PROVE  noteDrafts[s] \in SUBSET NoteRecords /\ IsFiniteSet(noteDrafts[s])
<1>1. noteDrafts[s] = ToSet(notesListed[s]) /\ notesListed[s] \in Seq(NoteRecords) /\ noteDrafts[s] \in SUBSET NoteRecords
  BY DEF NotesTyped
<1> QED
  BY <1>1, ToSetIsFinite

\* The end of a turn, and the request for its note, keep the invariant.
LEMMA CompletesTurn ==
  ASSUME NotesInv, NEW s \in NoteSessions, NEW t \in NoteTurns[s], CompleteTurn(s, t)
  PROVE  NotesInv'
<1>1. NotesTyped /\ QueueInOrder(s) /\ RequestsApart(s) /\ DraftsAgree(s)
  BY DEF NotesInv
<1>2. /\ sessionState[s] = "open" /\ t \notin ToSet(completedTurns[s])
      /\ completedTurns' = [completedTurns EXCEPT ![s] = Append(@, t)]
      /\ Schedule(s, <<t>>, noteDrafts[s], ordinals[s], jobs[s], automatic[s])
      /\ UNCHANGED <<sessionState, lines, tail, noteDrafts, notesListed, requests, manual>>
  BY DEF CompleteTurn
<1>3. t \in AllNoteTurns /\ <<t>> \in Seq(AllNoteTurns) /\ Once(<<t>>) /\ ToSet(<<t>>) = {t}
  BY DEF AllNoteTurns, Once, ToSet
<1> DEFINE done == completedTurns[s]
<1>4. completedTurns \in [NoteSessions -> Seq(AllNoteTurns)] /\ done \in Seq(AllNoteTurns) /\ Once(done)
  BY <1>1 DEF NotesTyped, QueueInOrder
<1>5. Append(done, t) \in Seq(AllNoteTurns) /\ ToSet(Append(done, t)) = ToSet(done) \union {t} /\ Once(Append(done, t))
  <2> HIDE DEF done
  <2> QED
    BY <1>2, <1>3, <1>4, ToSetOfAppend DEF done
<1>6. completedTurns' \in [NoteSessions -> Seq(AllNoteTurns)] /\ completedTurns'[s] = Append(done, t)
      /\ \A q \in NoteSessions : q # s => completedTurns'[q] = completedTurns[q]
  BY <1>2, <1>4, <1>5
<1> HIDE DEF done
<1> DEFINE queued == jobs[s]
           running == automatic[s]
           drafts == noteDrafts[s]
           reserved == ordinals[s]
<1>7. queued \in Seq(AllNoteTurns) /\ running \in SUBSET AllNoteTurns /\ drafts \in SUBSET NoteRecords
      /\ IsFiniteSet(drafts) /\ reserved \in [NoteTurns[s] -> Nat] /\ Once(queued) /\ ToSet(queued) \subseteq running
  BY <1>1, DraftsAreFinite DEF NotesTyped, QueueInOrder
<1> DEFINE ended == <<t>>
<1>8. Schedule(s, ended, drafts, reserved, queued, running)
      /\ ended \in Seq(AllNoteTurns) /\ Once(ended) /\ ToSet(ended) = {t}
  BY <1>2, <1>3
<1>9. completedTurns'[s] \in Seq(AllNoteTurns)
  BY <1>5, <1>6
<1> HIDE DEF queued, running, drafts, reserved, ended
<1>20. Scheduled(s, ended, drafts, queued, running)
  BY <1>1, <1>7, <1>8, <1>9, SchedulesOnce
<1>10. /\ jobs' \in [NoteSessions -> Seq(AllNoteTurns)] /\ automatic' \in [NoteSessions -> SUBSET AllNoteTurns]
       /\ DOMAIN ordinals' = NoteSessions
       /\ \A q \in NoteSessions : ordinals'[q] \in [NoteTurns[q] -> Nat]
       /\ \A q \in NoteSessions : q # s => jobs'[q] = jobs[q] /\ automatic'[q] = automatic[q]
       /\ Once(jobs'[s])
       /\ ToSet(jobs'[s]) = ToSet(queued) \union
            {u \in ToSet(ended) : u \notin running /\ NoteForTurn(drafts, u) = {}}
       /\ ToSet(jobs'[s]) \subseteq automatic'[s]
       /\ running \subseteq automatic'[s] /\ automatic'[s] \subseteq running \union ToSet(ended)
       /\ \E new \in Seq(AllNoteTurns) : jobs'[s] = queued \o new /\ ToSet(new) \subseteq ToSet(ended)
  BY <1>20 DEF Scheduled
<1>11. NotesTyped'
  BY <1>1, <1>2, <1>6, <1>10 DEF NotesTyped
<1>12. \A q \in NoteSessions : q # s => SameSession(q)
  BY <1>2, <1>6, <1>10 DEF SameSession
<1>13. QueueInOrder(s)'
  <2>1. running \subseteq ToSet(done) /\ ToSet(done) \subseteq NoteTurns[s]
    BY <1>1 DEF QueueInOrder, running, done
  <2>2. automatic'[s] \subseteq ToSet(completedTurns'[s]) /\ ToSet(completedTurns'[s]) \subseteq NoteTurns[s]
    BY <2>1, <1>3, <1>5, <1>6, <1>8, <1>10
  <2> QED
    BY <2>2, <1>5, <1>6, <1>10 DEF QueueInOrder
<1>14. RequestsApart(s)'
  <2>1. PICK new \in Seq(AllNoteTurns) : jobs'[s] = queued \o new /\ ToSet(new) \subseteq {t}
    BY <1>3, <1>8, <1>10
  <2>2. /\ queued # <<>> => queued \o new # <<>> /\ Head(queued \o new) = Head(queued)
        /\ \A k \in DOMAIN (queued \o new) :
             (k \in DOMAIN queued /\ (queued \o new)[k] = queued[k]) \/ (queued \o new)[k] \in ToSet(new)
    BY <1>7, ConcatBegins
  <2>3. \A r \in requests[s] : r.turn \in running
    BY <1>1 DEF RequestsApart, running
  <2>4. ToSet(jobs'[s]) \subseteq ToSet(queued) \union {t} /\ (t \in running => ToSet(jobs'[s]) \subseteq ToSet(queued))
    BY <1>3, <1>8, <1>10
  <2>5. ASSUME NEW r \in requests'[s]
        PROVE  /\ r.turn \in automatic'[s]
               /\ r.by = "job" => jobs'[s] # <<>> /\ r.turn = Head(jobs'[s])
               /\ r.by = "manual" =>
                    manual'[s].step = "creates" /\ manual'[s].turn = r.turn /\ r.turn \notin ToSet(jobs'[s])
    <3>1. r \in requests[s]
      BY <1>2
    <3>2. r.turn \in automatic'[s]
      BY <3>1, <2>3, <1>10
    <3>3. r.by = "job" => jobs'[s] # <<>> /\ r.turn = Head(jobs'[s])
      BY <3>1, <1>1, <2>1, <2>2 DEF RequestsApart, queued
    <3>4. r.by = "manual" => r.turn \notin ToSet(jobs'[s])
      <4>1. r.by = "manual" => r.turn \notin ToSet(queued)
        BY <3>1, <1>1 DEF RequestsApart, queued
      <4> QED
        BY <4>1, <3>1, <2>3, <2>4
    <3>5. r.by = "manual" => manual'[s].step = "creates" /\ manual'[s].turn = r.turn
      BY <3>1, <1>1, <1>2 DEF RequestsApart
    <3> QED
      BY <3>2, <3>3, <3>4, <3>5
  <2>6. \A r, q \in requests'[s] : r.by = q.by => r = q
    BY <1>1, <1>2 DEF RequestsApart
  <2>7. manual'[s].step = "idle" => manual'[s] = NoManual
    BY <1>1, <1>2 DEF RequestsApart
  <2>8. manual'[s].step # "idle" => manual'[s].turn \in ToSet(completedTurns'[s])
    BY <1>1, <1>2, <1>5, <1>6 DEF RequestsApart, done
  <2>9. manual'[s].step = "waits" =>
          \A k \in DOMAIN jobs'[s] : jobs'[s][k] = manual'[s].turn => k <= manual'[s].behind
    <3>1. manual[s].step = "waits" => manual[s].turn # t /\ \A k \in DOMAIN queued : queued[k] = manual[s].turn => k <= manual[s].behind
      BY <1>1, <1>2 DEF RequestsApart, queued
    <3> QED
      BY <3>1, <2>1, <2>2, <1>2
  <2>10. sessionState'[s] # "gone"
    BY <1>2
  <2> QED
    BY <2>5, <2>6, <2>7, <2>8, <2>9, <2>10 DEF RequestsApart
<1>15. DraftsAgree(s)'
  <2>1. FileTurns' = FileTurns /\ DraftTurns(s)' = DraftTurns(s)
    BY <1>2 DEF FileTurns, DraftTurns
  <2>2. NoteForTurn(drafts, t) = {} => t \notin FileTurns
    BY <1>1, <1>2 DEF DraftsAgree, DraftTurns, NoteForTurn, drafts
  <2>3. ToSet(queued) \intersect FileTurns = {}
    BY <1>1, <1>2 DEF DraftsAgree, queued
  <2>4. ToSet(jobs'[s]) \intersect FileTurns = {}
    BY <1>3, <1>8, <1>10, <2>2, <2>3
  <2> QED
    BY <1>1, <1>2, <2>1, <2>4 DEF DraftsAgree
<1> QED
  BY <1>2, <1>11, <1>12, <1>13, <1>14, <1>15, SameFile

\* So does the job of the detached queue that takes the request up,
LEMMA RunsJob ==
  ASSUME NotesInv, NEW s \in NoteSessions, RunJob(s)
  PROVE  NotesInv'
<1>1. NotesTyped /\ QueueInOrder(s) /\ RequestsApart(s) /\ DraftsAgree(s)
  BY DEF NotesInv
<1> DEFINE t == Head(jobs[s])
           request == [turn |-> t, by |-> "job", line |-> 0]
<1>2. /\ sessionState[s] # "gone" /\ jobs[s] # <<>>
      /\ \A r \in requests[s] : r.by # "job" /\ r.turn # t
      /\ requests' = [requests EXCEPT ![s] = @ \union {request}]
      /\ automatic' = [automatic EXCEPT ![s] = @ \union {t}]
      /\ UNCHANGED <<sessionState, completedTurns, lines, tail, noteDrafts, notesListed, ordinals, jobs, manual>>
  BY DEF RunJob, Begin
<1>3. t \in ToSet(jobs[s])
  <2>1. jobs[s] \in Seq(AllNoteTurns)
    BY <1>1 DEF NotesTyped
  <2> QED
    BY <1>2, <2>1, ToSetOfTail
<1>4. t \in automatic[s] /\ t \in AllNoteTurns /\ t \in ToSet(completedTurns[s])
  BY <1>1, <1>3 DEF QueueInOrder, NotesTyped
<1>5. request \in Requested /\ request.turn = t /\ request.by = "job" /\ request.line = 0
  BY <1>4 DEF Requested
<1>6. requests \in [NoteSessions -> SUBSET Requested] /\ automatic \in [NoteSessions -> SUBSET AllNoteTurns]
  BY <1>1 DEF NotesTyped, Requested
<1> HIDE DEF request, t
<1>7. automatic' = automatic
  BY <1>2, <1>4, <1>6
<1>8. requests' \in [NoteSessions -> SUBSET Requested] /\ requests'[s] = requests[s] \union {request}
      /\ \A q \in NoteSessions : q # s => requests'[q] = requests[q]
  BY <1>2, <1>5, <1>6
<1>9. NotesTyped'
  BY <1>1, <1>2, <1>7, <1>8 DEF NotesTyped, Requested
<1>10. \A q \in NoteSessions : q # s => SameSession(q)
  BY <1>2, <1>7, <1>8 DEF SameSession
<1>11. QueueInOrder(s)'
  BY <1>1, <1>2, <1>7 DEF QueueInOrder
<1>12. RequestsApart(s)'
  <2>1. \A r \in requests'[s] :
          /\ r.turn \in automatic'[s]
          /\ r.by = "job" => jobs'[s] # <<>> /\ r.turn = Head(jobs'[s])
          /\ r.by = "manual" =>
               manual'[s].step = "creates" /\ manual'[s].turn = r.turn /\ r.turn \notin ToSet(jobs'[s])
    BY <1>1, <1>2, <1>4, <1>5, <1>7, <1>8 DEF RequestsApart, t
  <2>2. \A r, q \in requests'[s] : r.by = q.by => r = q
    BY <1>1, <1>2, <1>5, <1>8 DEF RequestsApart
  <2> QED
    BY <1>1, <1>2, <2>1, <2>2 DEF RequestsApart
<1>13. DraftsAgree(s)'
  <2>1. FileTurns' = FileTurns /\ DraftTurns(s)' = DraftTurns(s)
    BY <1>2 DEF FileTurns, DraftTurns
  <2>2. \A r \in requests'[s] : sessionState'[s] = "open" \/ r.line # 0 => r.turn \notin FileTurns
    BY <1>1, <1>2, <1>3, <1>5, <1>8 DEF DraftsAgree
  <2> QED
    BY <1>1, <1>2, <2>1, <2>2 DEF DraftsAgree
<1> QED
  BY <1>2, <1>9, <1>10, <1>11, <1>12, <1>13, SameFile

\* a request that fails,
LEMMA Fails ==
  ASSUME NotesInv, NEW s \in NoteSessions, NEW r \in requests[s], Failed(s, r)
  PROVE  NotesInv'
<1>1. NotesTyped /\ QueueInOrder(s) /\ RequestsApart(s) /\ DraftsAgree(s)
  BY DEF NotesInv
<1>2. /\ Finished(s, r)
      /\ UNCHANGED <<sessionState, completedTurns, lines, tail, noteDrafts, notesListed, ordinals>>
  BY DEF Failed
<1>3. /\ requests' \in [NoteSessions -> SUBSET Requested] /\ requests'[s] = requests[s] \ {r}
      /\ automatic' \in [NoteSessions -> SUBSET AllNoteTurns]
      /\ jobs' \in [NoteSessions -> Seq(AllNoteTurns)]
      /\ manual' \in [NoteSessions -> Commands]
      /\ \A q \in NoteSessions : q # s =>
           /\ requests'[q] = requests[q] /\ automatic'[q] = automatic[q] /\ jobs'[q] = jobs[q]
           /\ manual'[q] = manual[q]
      /\ ToSet(jobs'[s]) \subseteq ToSet(jobs[s]) \ {r.turn}
      /\ QueueInOrder(s)' /\ RequestsApart(s)'
  BY <1>1, <1>2, FinishedFrees
<1>4. NotesTyped'
  BY <1>1, <1>2, <1>3 DEF NotesTyped, Requested, Commands
<1>5. \A q \in NoteSessions : q # s => SameSession(q)
  BY <1>2, <1>3 DEF SameSession
<1>6. DraftsAgree(s)'
  <2>1. FileTurns' = FileTurns /\ DraftTurns(s)' = DraftTurns(s)
    BY <1>2 DEF FileTurns, DraftTurns
  <2> QED
    BY <1>1, <1>2, <1>3, <2>1 DEF DraftsAgree
<1> QED
  BY <1>2, <1>3, <1>4, <1>5, <1>6, SameFile

\* the reading of the file, which settles the number of the line,
LEMMA Reads ==
  ASSUME NotesInv, NotesAssumption, NEW s \in NoteSessions, NEW r \in requests[s], ReadNotes(s, r)
  PROVE  NotesInv'
<1>1. NotesTyped /\ QueueInOrder(s) /\ RequestsApart(s) /\ DraftsAgree(s) /\ LinesApart /\ TailIsNew
  BY DEF NotesInv
<1>2. /\ sessionState[s] = "open"
      /\ UNCHANGED <<sessionState, completedTurns, noteDrafts, notesListed, ordinals>>
  BY DEF ReadNotes
<1>3. CASE ~StoreReadable(lines)
  <2>1. /\ Finished(s, r)
        /\ UNCHANGED <<sessionState, completedTurns, lines, tail, noteDrafts, notesListed, ordinals>>
    BY <1>3 DEF ReadNotes
  <2>3. /\ requests' \in [NoteSessions -> SUBSET Requested] /\ requests'[s] = requests[s] \ {r}
        /\ automatic' \in [NoteSessions -> SUBSET AllNoteTurns]
        /\ jobs' \in [NoteSessions -> Seq(AllNoteTurns)]
        /\ manual' \in [NoteSessions -> Commands]
        /\ \A q \in NoteSessions : q # s =>
             /\ requests'[q] = requests[q] /\ automatic'[q] = automatic[q] /\ jobs'[q] = jobs[q]
             /\ manual'[q] = manual[q]
        /\ ToSet(jobs'[s]) \subseteq ToSet(jobs[s]) \ {r.turn}
        /\ QueueInOrder(s)' /\ RequestsApart(s)'
    BY <1>1, <2>1, FinishedFrees
  <2>4. NotesTyped'
    BY <1>1, <2>1, <2>3 DEF NotesTyped, Requested, Commands
  <2>5. \A q \in NoteSessions : q # s => SameSession(q)
    BY <2>1, <2>3 DEF SameSession
  <2>6. DraftsAgree(s)'
    <3>1. FileTurns' = FileTurns /\ DraftTurns(s)' = DraftTurns(s)
      BY <2>1 DEF FileTurns, DraftTurns
    <3> QED
      BY <1>1, <2>1, <2>3, <3>1 DEF DraftsAgree
  <2> QED
    BY <2>1, <2>3, <2>4, <2>5, <2>6, SameFile
<1>4. CASE StoreReadable(lines)
  <2> DEFINE read == [r EXCEPT !.line = Len(lines') + 1]
  <2>1. /\ lines' = Recovered(lines, tail) /\ tail' = NoTail
        /\ requests' = [requests EXCEPT ![s] = (@ \ {r}) \union {read}]
        /\ UNCHANGED <<automatic, jobs, manual>>
    BY <1>4 DEF ReadNotes
  <2>2. /\ lines' \in Seq(NoteRecords) /\ LinesApart' /\ FileTurns \subseteq FileTurns'
        /\ \A t \in FileTurns' \ FileTurns :
             \E o \in NoteSessions : t \in NoteTurns[o] /\ sessionState[o] = "gone"
    BY <1>1, <2>1, LinesRecovered
  <2>3. requests \in [NoteSessions -> SUBSET Requested]
    BY <1>1 DEF NotesTyped, Requested
  <2>4. read \in Requested /\ read.turn = r.turn /\ read.by = r.by
    <3>1. r \in Requested /\ Len(lines') + 1 \in Nat
      BY <2>2, <2>3
    <3> DEFINE l == Len(lines') + 1
    <3> HIDE DEF l
    <3>2. l \in Nat /\ read = [r EXCEPT !.line = l]
      BY <3>1 DEF l
    <3> QED
      BY <3>1, <3>2 DEF Requested
  <2> HIDE DEF read
  <2>5. requests' \in [NoteSessions -> SUBSET Requested] /\ requests'[s] = (requests[s] \ {r}) \union {read}
        /\ \A q \in NoteSessions : q # s => requests'[q] = requests[q]
    BY <2>1, <2>3, <2>4
  <2>6. NotesTyped'
    BY <1>1, <1>2, <2>1, <2>2, <2>5 DEF NotesTyped, Requested
  <2>7. \A q \in NoteSessions : q # s => SameSession(q)
    BY <1>2, <2>1, <2>5 DEF SameSession
  <2>8. TailIsNew'
    BY <2>1 DEF TailIsNew
  <2>9. \A q \in NoteSessions : q # s =>
          \A t \in FileTurns' \ FileTurns : t \notin NoteTurns[q] \/ sessionState[q] = "gone"
    BY <2>2 DEF NotesAssumption
  <2>10. FileTurns' \intersect NoteTurns[s] = FileTurns \intersect NoteTurns[s]
    BY <1>2, <2>2 DEF NotesAssumption
  <2>11. QueueInOrder(s)'
    BY <1>1, <1>2, <2>1 DEF QueueInOrder
  <2>12. RequestsApart(s)'
    <3>1. \A q \in requests'[s] :
            /\ q.turn \in automatic'[s]
            /\ q.by = "job" => jobs'[s] # <<>> /\ q.turn = Head(jobs'[s])
            /\ q.by = "manual" =>
                 manual'[s].step = "creates" /\ manual'[s].turn = q.turn /\ q.turn \notin ToSet(jobs'[s])
      BY <1>1, <2>1, <2>4, <2>5 DEF RequestsApart
    <3>2. \A q, p \in requests'[s] : q.by = p.by => q = p
      BY <1>1, <2>4, <2>5 DEF RequestsApart
    <3> QED
      BY <1>1, <1>2, <2>1, <3>1, <3>2 DEF RequestsApart
  <2>13. DraftsAgree(s)'
    <3>1. DraftTurns(s)' = DraftTurns(s)
      BY <1>2 DEF DraftTurns
    <3>2. \A t \in ToSet(jobs[s]) \union automatic[s] : t \in NoteTurns[s]
      BY <1>1 DEF QueueInOrder
    <3>3. ToSet(jobs'[s]) \intersect FileTurns' = {}
      BY <1>1, <1>2, <2>1, <2>10, <3>2 DEF DraftsAgree
    <3>4. \A q \in requests'[s] : q.turn \notin FileTurns'
      BY <1>1, <1>2, <2>4, <2>5, <2>10, <3>2 DEF DraftsAgree, RequestsApart
    <3> QED
      BY <1>1, <1>2, <2>10, <3>1, <3>3, <3>4 DEF DraftsAgree
  <2> QED
    BY <2>2, <2>6, <2>7, <2>8, <2>9, <2>11, <2>12, <2>13, MoreFile
<1> QED
  BY <1>3, <1>4

\* the append of the note,
LEMMA Appends ==
  ASSUME NotesInv, NotesAssumption, NEW s \in NoteSessions, NEW r \in requests[s], AppendNote(s, r)
  PROVE  NotesInv'
<1>1. NotesTyped /\ QueueInOrder(s) /\ RequestsApart(s) /\ DraftsAgree(s) /\ LinesApart /\ TailIsNew
  BY DEF NotesInv
<1> DEFINE note == NoteOf(s, r)
           entered == sessionState[s] = "open" \/ r.by = "manual"
<1>2. /\ r.line # 0
      /\ IF tail = NoTail THEN lines' = Append(lines, note) /\ tail' = tail
         ELSE lines' = Append(lines, [note EXCEPT !.line = 0]) /\ tail' = NoTail
      /\ noteDrafts' = IF entered THEN [noteDrafts EXCEPT ![s] = @ \union {note}] ELSE noteDrafts
      /\ notesListed' = IF entered THEN [notesListed EXCEPT ![s] = Append(@, note)] ELSE notesListed
      /\ Finished(s, r)
      /\ UNCHANGED <<sessionState, completedTurns, ordinals>>
  BY DEF AppendNote
<1>3. /\ requests' \in [NoteSessions -> SUBSET Requested] /\ requests'[s] = requests[s] \ {r}
      /\ automatic' \in [NoteSessions -> SUBSET AllNoteTurns]
      /\ jobs' \in [NoteSessions -> Seq(AllNoteTurns)]
      /\ manual' \in [NoteSessions -> Commands]
      /\ \A q \in NoteSessions : q # s =>
           /\ requests'[q] = requests[q] /\ automatic'[q] = automatic[q] /\ jobs'[q] = jobs[q]
           /\ manual'[q] = manual[q]
      /\ ToSet(jobs'[s]) \subseteq ToSet(jobs[s]) \ {r.turn}
      /\ QueueInOrder(s)' /\ RequestsApart(s)'
  BY <1>1, <1>2, FinishedFrees
<1>4. r \in Requested /\ r.turn \in NoteTurns[s] /\ r.turn \notin FileTurns
  <2>1. r \in Requested
    BY <1>1 DEF NotesTyped, Requested
  <2>2. r.turn \in automatic[s] /\ automatic[s] \subseteq NoteTurns[s]
    BY <1>1 DEF RequestsApart, QueueInOrder
  <2>3. r.turn \notin FileTurns
    BY <1>1, <1>2 DEF DraftsAgree
  <2> QED
    BY <2>1, <2>2, <2>3
<1>5. note \in NoteRecords /\ [note EXCEPT !.line = 0] \in NoteRecords
      /\ note.turn = r.turn /\ [note EXCEPT !.line = 0].turn = r.turn
  <2>1. ordinals[s][r.turn] \in Nat
    BY <1>1, <1>4 DEF NotesTyped
  <2> QED
    BY <1>4, <2>1 DEF NoteOf, NoteRecords, Requested
<1> HIDE DEF note
<1>6. lines' \in Seq(NoteRecords) /\ LinesApart' /\ FileTurns' = FileTurns \union {r.turn}
  <2>1. lines \in Seq(NoteRecords)
    BY <1>1 DEF NotesTyped
  <2>2. CASE tail = NoTail
    <3>1. lines' = Append(lines, note) /\ note.turn \notin FileTurns
      BY <1>2, <1>4, <1>5, <2>2
    <3> QED
      BY <1>1, <1>5, <2>1, <3>1, LineAdded
  <2>3. CASE tail # NoTail
    <3> DEFINE torn == [note EXCEPT !.line = 0]
    <3>1. lines' = Append(lines, torn) /\ torn \in NoteRecords /\ torn.turn = r.turn
      BY <1>2, <1>5, <2>3
    <3> HIDE DEF torn
    <3> QED
      BY <1>1, <1>4, <2>1, <3>1, LineAdded
  <2> QED
    BY <2>2, <2>3
<1>7. tail' = NoTail
  BY <1>2
<1>8. /\ noteDrafts \in [NoteSessions -> SUBSET NoteRecords] /\ notesListed \in [NoteSessions -> Seq(NoteRecords)]
      /\ noteDrafts[s] = ToSet(notesListed[s])
  BY <1>1 DEF NotesTyped
<1> DEFINE listed == notesListed[s]
<1>9. listed \in Seq(NoteRecords) /\ Append(listed, note) \in Seq(NoteRecords)
      /\ ToSet(Append(listed, note)) = ToSet(listed) \union {note}
  <2>1. listed \in Seq(NoteRecords)
    BY <1>8
  <2> HIDE DEF listed
  <2> QED
    BY <1>5, <2>1, ToSetOfAppend
<1>10. /\ noteDrafts' \in [NoteSessions -> SUBSET NoteRecords] /\ notesListed' \in [NoteSessions -> Seq(NoteRecords)]
       /\ \A q \in NoteSessions : q # s => noteDrafts'[q] = noteDrafts[q] /\ notesListed'[q] = notesListed[q]
       /\ noteDrafts'[s] = IF entered THEN noteDrafts[s] \union {note} ELSE noteDrafts[s]
       /\ notesListed'[s] = IF entered THEN Append(listed, note) ELSE listed
  <2>1. CASE entered
    <3>1. noteDrafts' = [noteDrafts EXCEPT ![s] = noteDrafts[s] \union {note}]
          /\ notesListed' = [notesListed EXCEPT ![s] = Append(listed, note)]
      BY <1>2, <2>1
    <3> HIDE DEF entered
    <3> QED
      BY <1>5, <1>8, <1>9, <2>1, <3>1
  <2>2. CASE ~entered
    <3>1. noteDrafts' = noteDrafts /\ notesListed' = notesListed
      BY <1>2, <2>2
    <3> HIDE DEF entered
    <3> QED
      BY <1>8, <2>2, <3>1
  <2> QED
    BY <2>1, <2>2
<1>11. \A q \in NoteSessions : noteDrafts'[q] = ToSet(notesListed'[q])
  <2>1. \A q \in NoteSessions : noteDrafts[q] = ToSet(notesListed[q])
    BY <1>1 DEF NotesTyped
  <2> HIDE DEF entered
  <2> QED
    BY <1>8, <1>9, <1>10, <2>1
<1> HIDE DEF listed
<1>12. NotesTyped'
  BY <1>1, <1>2, <1>3, <1>6, <1>7, <1>10, <1>11 DEF NotesTyped, Requested, Commands
<1>13. \A q \in NoteSessions : q # s => SameSession(q)
  BY <1>2, <1>3, <1>10 DEF SameSession
<1>14. TailIsNew'
  BY <1>7 DEF TailIsNew
<1>15. \A q \in NoteSessions : q # s =>
         \A t \in FileTurns' \ FileTurns : t \notin NoteTurns[q] \/ sessionState[q] = "gone"
  BY <1>4, <1>6 DEF NotesAssumption
<1>16. DraftsAgree(s)'
  <2>1. DraftTurns(s)' = IF entered THEN DraftTurns(s) \union {r.turn} ELSE DraftTurns(s)
    <3> HIDE DEF entered
    <3> QED
      BY <1>5, <1>10 DEF DraftTurns
  <2>2. ToSet(jobs'[s]) \subseteq ToSet(jobs[s]) \ {r.turn}
    BY <1>3
  <2>3. \A q \in requests'[s] : q \in requests[s] /\ q.turn # r.turn
    BY <1>1, <1>3, RequestsOfTurns
  <2>4. \A q \in requests'[s] : sessionState'[s] = "open" \/ q.line # 0 => q.turn \notin FileTurns'
    BY <1>1, <1>2, <1>6, <2>3 DEF DraftsAgree
  <2>5. \A i, j \in DOMAIN notesListed'[s] : notesListed'[s][i].turn = notesListed'[s][j].turn => i = j
    <3>1. \A i, j \in DOMAIN listed : listed[i].turn = listed[j].turn => i = j
      BY <1>1 DEF DraftsAgree, listed
    <3>2. \A i \in DOMAIN listed : listed[i].turn # note.turn
      <4>1. \A i \in DOMAIN listed : listed[i] \in noteDrafts[s]
        BY <1>8 DEF listed, ToSet
      <4>2. \A n \in noteDrafts[s] : n.turn \in FileTurns
        BY <1>1 DEF DraftsAgree, DraftTurns
      <4> QED
        BY <1>4, <1>5, <4>1, <4>2
    <3>3. CASE entered
      <4>1. notesListed'[s] = Append(listed, note)
        BY <1>10, <3>3
      <4> DEFINE n == Len(listed)
                 g == Append(listed, note)
      <4>2. n \in Nat /\ DOMAIN listed = 1..n /\ DOMAIN g = 1..(n + 1) /\ g[n + 1] = note
            /\ \A i \in 1..n : g[i] = listed[i]
        BY <1>9
      <4> HIDE DEF n, g
      <4>3. \A i \in 1..(n + 1) : i = n + 1 \/ i \in 1..n
        BY <4>2
      <4>4. \A i, j \in DOMAIN g : g[i].turn = g[j].turn => i = j
        BY <3>1, <3>2, <4>2, <4>3
      <4> QED
        BY <4>1, <4>4 DEF g
    <3>4. CASE ~entered
      BY <1>10, <3>1, <3>4
    <3> QED
      BY <3>3, <3>4
  <2>6. DraftTurns(s)' \subseteq FileTurns' \intersect NoteTurns[s]
    BY <1>1, <1>4, <1>6, <2>1 DEF DraftsAgree
  <2>7. sessionState'[s] = "open" => FileTurns' \intersect NoteTurns[s] \subseteq DraftTurns(s)'
    BY <1>1, <1>2, <1>6, <2>1 DEF DraftsAgree
  <2>8. sessionState'[s] = "open" => ToSet(jobs'[s]) \intersect FileTurns' = {}
    BY <1>1, <1>2, <1>6, <2>2 DEF DraftsAgree
  <2> QED
    BY <2>4, <2>5, <2>6, <2>7, <2>8 DEF DraftsAgree
<1> QED
  BY <1>3, <1>6, <1>12, <1>13, <1>14, <1>15, <1>16, MoreFile

\* The command makes its request: none of its own is under way and its turn is in no job.
LEMMA CommandBegins ==
  ASSUME NotesTyped, NEW s \in NoteSessions, QueueInOrder(s), RequestsApart(s), DraftsAgree(s),
         NEW t \in ToSet(completedTurns[s]), t \notin ToSet(jobs[s]), manual[s].step # "creates",
         sessionState[s] # "gone", sessionState[s] = "open" => t \notin FileTurns,
         Begin(s, t, "manual"), automatic' = [automatic EXCEPT ![s] = @ \union {t}],
         NEW command \in Commands, command.turn = t, command.step = "creates",
         manual' = [manual EXCEPT ![s] = command],
         UNCHANGED <<sessionState, completedTurns, lines, tail, noteDrafts, notesListed, jobs>>,
         DOMAIN ordinals' = NoteSessions, \A q \in NoteSessions : ordinals'[q] \in [NoteTurns[q] -> Nat]
  PROVE  /\ NotesTyped' /\ (\A q \in NoteSessions : q # s => SameSession(q))
         /\ QueueInOrder(s)' /\ RequestsApart(s)' /\ DraftsAgree(s)'
<1> DEFINE request == [turn |-> t, by |-> "manual", line |-> 0]
<1>1. requests' = [requests EXCEPT ![s] = @ \union {request}]
  BY DEF Begin
<1>2. t \in AllNoteTurns /\ t \in NoteTurns[s]
  BY DEF QueueInOrder, AllNoteTurns
<1>3. request \in Requested /\ request.turn = t /\ request.by = "manual" /\ request.line = 0
  BY <1>2 DEF Requested
<1> HIDE DEF request
<1>4. requests \in [NoteSessions -> SUBSET Requested] /\ automatic \in [NoteSessions -> SUBSET AllNoteTurns]
      /\ manual \in [NoteSessions -> Commands]
  BY DEF NotesTyped, Requested, Commands
<1>5. requests' \in [NoteSessions -> SUBSET Requested] /\ requests'[s] = requests[s] \union {request}
      /\ \A q \in NoteSessions : q # s => requests'[q] = requests[q]
  BY <1>1, <1>3, <1>4
<1>6. automatic' \in [NoteSessions -> SUBSET AllNoteTurns] /\ automatic'[s] = automatic[s] \union {t}
      /\ \A q \in NoteSessions : q # s => automatic'[q] = automatic[q]
  BY <1>2, <1>4
<1>7. manual' \in [NoteSessions -> Commands] /\ manual'[s] = command
      /\ \A q \in NoteSessions : q # s => manual'[q] = manual[q]
  BY <1>4
<1>8. NotesTyped'
  BY <1>5, <1>6, <1>7 DEF NotesTyped, Requested, Commands
<1>9. \A q \in NoteSessions : q # s => SameSession(q)
  BY <1>5, <1>6, <1>7 DEF SameSession
<1>10. QueueInOrder(s)'
  BY <1>6 DEF QueueInOrder
<1>11. RequestsApart(s)'
  <2>1. \A r \in requests[s] : r.by # "manual"
    BY DEF RequestsApart
  <2>2. \A r \in requests'[s] :
          /\ r.turn \in automatic'[s]
          /\ r.by = "job" => jobs'[s] # <<>> /\ r.turn = Head(jobs'[s])
          /\ r.by = "manual" =>
               manual'[s].step = "creates" /\ manual'[s].turn = r.turn /\ r.turn \notin ToSet(jobs'[s])
    BY <2>1, <1>3, <1>5, <1>6, <1>7 DEF RequestsApart
  <2>3. \A r, q \in requests'[s] : r.by = q.by => r = q
    BY <2>1, <1>3, <1>5 DEF RequestsApart
  <2> QED
    BY <2>2, <2>3, <1>7 DEF RequestsApart
<1>12. DraftsAgree(s)'
  <2>1. FileTurns' = FileTurns /\ DraftTurns(s)' = DraftTurns(s)
    BY DEF FileTurns, DraftTurns
  <2>2. \A r \in requests'[s] : sessionState'[s] = "open" \/ r.line # 0 => r.turn \notin FileTurns'
    BY <2>1, <1>3, <1>5 DEF DraftsAgree
  <2> QED
    BY <2>1, <2>2 DEF DraftsAgree
<1> QED
  BY <1>8, <1>9, <1>10, <1>11, <1>12

\* a manual capture,
LEMMA Captures ==
  ASSUME NotesInv, NEW s \in NoteSessions, NEW t \in NoteTurns[s], Capture(s, t)
  PROVE  NotesInv'
<1>1. NotesTyped /\ QueueInOrder(s) /\ RequestsApart(s) /\ DraftsAgree(s)
  BY DEF NotesInv
<1>2. /\ sessionState[s] = "open" /\ manual[s] = NoManual /\ t \in ToSet(completedTurns[s])
      /\ ordinals' = [ordinals EXCEPT ![s][t] =
                        OrdinalFor(completedTurns[s], noteDrafts[s], ordinals[s], t)]
      /\ UNCHANGED <<sessionState, completedTurns, lines, tail, noteDrafts, notesListed, jobs>>
  BY DEF Capture
<1>3. DOMAIN ordinals' = NoteSessions /\ \A q \in NoteSessions : ordinals'[q] \in [NoteTurns[q] -> Nat]
  <2>1. DOMAIN ordinals = NoteSessions /\ \A q \in NoteSessions : ordinals[q] \in [NoteTurns[q] -> Nat]
    BY <1>1 DEF NotesTyped
  <2> DEFINE ended == completedTurns[s]
             drafts == noteDrafts[s]
             reserved == ordinals[s]
             T == NoteTurns[s]
             ordinal == OrdinalFor(ended, drafts, reserved, t)
  <2>2. ended \in Seq(AllNoteTurns) /\ drafts \in SUBSET NoteRecords /\ IsFiniteSet(drafts)
        /\ reserved \in [T -> Nat] /\ t \in T
    BY <1>1, <2>1, DraftsAreFinite DEF NotesTyped
  <2>3. ordinal \in Nat
    <3> HIDE DEF ended, drafts, reserved, T
    <3> QED
      BY <2>2, OrdinalsAreNumbers
  <2>4. ordinals' = [ordinals EXCEPT ![s][t] = ordinal]
    BY <1>2
  <2> HIDE DEF ordinal
  <2> QED
    BY <2>1, <2>3, <2>4
<1>4. manual[s].step = "idle" /\ NoManual.step = "idle"
  BY <1>2 DEF NoManual
<1>5. \A r \in requests[s] : r.by # "manual"
  BY <1>1, <1>4 DEF RequestsApart
<1>6. t \in AllNoteTurns
  BY DEF AllNoteTurns
<1>7. FileTurns' = FileTurns /\ DraftTurns(s)' = DraftTurns(s)
  BY <1>2 DEF FileTurns, DraftTurns
<1>8. CASE UNCHANGED <<automatic, requests, manual, noteRequests>>
  <2>1. NotesTyped' /\ \A q \in NoteSessions : q # s => SameSession(q)
    BY <1>1, <1>2, <1>3, <1>8 DEF NotesTyped, SameSession
  <2>2. QueueInOrder(s)' /\ RequestsApart(s)' /\ DraftsAgree(s)'
    BY <1>1, <1>2, <1>7, <1>8 DEF QueueInOrder, RequestsApart, DraftsAgree
  <2> QED
    BY <1>2, <2>1, <2>2, SameFile
<1>9. CASE /\ MayNote(noteDrafts[s], t) /\ MustWait(s, t)
           /\ manual' = [manual EXCEPT ![s] = [turn |-> t, behind |-> Len(jobs[s]), step |-> "waits"]]
           /\ UNCHANGED <<automatic, requests, noteRequests>>
  <2> DEFINE command == [turn |-> t, behind |-> Len(jobs[s]), step |-> "waits"]
  <2>1. jobs[s] \in Seq(AllNoteTurns) /\ manual \in [NoteSessions -> Commands]
    BY <1>1 DEF NotesTyped, Commands
  <2>2. Len(jobs[s]) \in Nat /\ DOMAIN jobs[s] = 1..Len(jobs[s])
    BY <2>1
  <2>3. command \in Commands
    BY <1>6, <2>2 DEF Commands
  <2>4. manual' \in [NoteSessions -> Commands] /\ manual'[s] = command
        /\ \A q \in NoteSessions : q # s => manual'[q] = manual[q]
    <3> HIDE DEF command
    <3>1. manual' = [manual EXCEPT ![s] = command]
      BY <1>9 DEF command
    <3> QED
      BY <2>1, <2>3, <3>1
  <2>5. NotesTyped' /\ \A q \in NoteSessions : q # s => SameSession(q)
    BY <1>1, <1>2, <1>3, <1>9, <2>4 DEF NotesTyped, SameSession, Commands
  <2>6. QueueInOrder(s)' /\ DraftsAgree(s)'
    BY <1>1, <1>2, <1>7, <1>9 DEF QueueInOrder, DraftsAgree
  <2>7. RequestsApart(s)'
    <3>1. \A k \in DOMAIN jobs[s] : k <= command.behind
      BY <2>2
    <3>2. manual'[s].step = "waits" /\ manual'[s].turn = t /\ manual'[s].behind = command.behind
      BY <2>4
    <3> QED
      BY <1>1, <1>2, <1>5, <1>9, <3>1, <3>2 DEF RequestsApart
  <2> QED
    BY <1>2, <2>5, <2>6, <2>7, SameFile
<1>10. CASE /\ MayNote(noteDrafts[s], t) /\ ~MustWait(s, t)
            /\ Begin(s, t, "manual")
            /\ automatic' = [automatic EXCEPT ![s] = @ \union {t}]
            /\ manual' = [manual EXCEPT ![s] = [turn |-> t, behind |-> 0, step |-> "creates"]]
  <2> DEFINE command == [turn |-> t, behind |-> 0, step |-> "creates"]
  <2>1. command \in Commands /\ command.turn = t /\ command.step = "creates"
        /\ manual' = [manual EXCEPT ![s] = command]
    BY <1>6, <1>10 DEF Commands
  <2> HIDE DEF command
  <2>2. t \notin ToSet(jobs[s])
    BY <1>1, <1>10 DEF MustWait, QueueInOrder
  <2>3. t \notin FileTurns
    BY <1>1, <1>2, <1>10 DEF MayNote, NoteForTurn, DraftsAgree, DraftTurns
  <2>4. /\ NotesTyped' /\ (\A q \in NoteSessions : q # s => SameSession(q))
        /\ QueueInOrder(s)' /\ RequestsApart(s)' /\ DraftsAgree(s)'
    <3>1. manual[s].step # "creates" /\ sessionState[s] # "gone"
      BY <1>2, <1>4
    <3>2. Begin(s, t, "manual") /\ automatic' = [automatic EXCEPT ![s] = @ \union {t}]
      BY <1>10
    <3> QED
      BY <1>1, <1>2, <1>3, <2>1, <2>2, <2>3, <3>1, <3>2, CommandBegins
  <2> QED
    BY <1>2, <2>4, SameFile
<1> QED
  BY <1>8, <1>9, <1>10 DEF Capture

\* one that waited for the queue,
LEMMA CapturesAfterQueue ==
  ASSUME NotesInv, NEW s \in NoteSessions, CaptureAfterQueue(s)
  PROVE  NotesInv'
<1>1. NotesTyped /\ QueueInOrder(s) /\ RequestsApart(s) /\ DraftsAgree(s)
  BY DEF NotesInv
<1> DEFINE t == manual[s].turn
<1>2. /\ sessionState[s] # "gone" /\ manual[s].step = "waits" /\ manual[s].behind = 0
      /\ UNCHANGED <<sessionState, completedTurns, lines, tail, noteDrafts, notesListed, ordinals, jobs>>
  BY DEF CaptureAfterQueue
<1>3. manual \in [NoteSessions -> Commands] /\ manual[s] \in Commands
  BY <1>1 DEF NotesTyped, Commands
<1>4. t \in ToSet(completedTurns[s]) /\ t \in AllNoteTurns /\ t \in NoteTurns[s]
  BY <1>1, <1>2 DEF RequestsApart, QueueInOrder, AllNoteTurns
<1>5. t \notin ToSet(jobs[s])
  <2>1. jobs[s] \in Seq(AllNoteTurns)
    BY <1>1 DEF NotesTyped
  <2>2. \A k \in DOMAIN jobs[s] : k \in Nat /\ k > 0
    BY <2>1
  <2>3. \A k \in DOMAIN jobs[s] : jobs[s][k] # t
    BY <1>1, <1>2, <2>2 DEF RequestsApart
  <2> QED
    BY <2>3 DEF ToSet
<1>6. \A r \in requests[s] : r.by # "manual"
  BY <1>1, <1>2 DEF RequestsApart
<1>7. CASE MayNote(noteDrafts[s], t)
  <2> DEFINE command == [manual[s] EXCEPT !.step = "creates"]
  <2>1. /\ Begin(s, t, "manual")
        /\ automatic' = [automatic EXCEPT ![s] = @ \union {t}]
        /\ manual' = [manual EXCEPT ![s].step = "creates"]
    BY <1>7 DEF CaptureAfterQueue
  <2>2. command \in Commands /\ command.turn = t /\ command.step = "creates"
    BY <1>3 DEF Commands
  <2>3. manual' = [manual EXCEPT ![s] = command]
    BY <2>1, <1>3
  <2> HIDE DEF command
  <2>4. sessionState[s] = "open" => t \notin FileTurns
    BY <1>1, <1>4, <1>7 DEF MayNote, NoteForTurn, DraftsAgree, DraftTurns
  <2>5. DOMAIN ordinals' = NoteSessions /\ \A q \in NoteSessions : ordinals'[q] \in [NoteTurns[q] -> Nat]
    BY <1>1, <1>2 DEF NotesTyped
  <2>6. manual[s].step # "creates"
    BY <1>2
  <2> DEFINE u == t
  <2>7. u \in ToSet(completedTurns[s]) /\ u \notin ToSet(jobs[s]) /\ (sessionState[s] = "open" => u \notin FileTurns)
        /\ Begin(s, u, "manual") /\ automatic' = [automatic EXCEPT ![s] = @ \union {u}] /\ command.turn = u
    BY <1>4, <1>5, <2>1, <2>2, <2>4
  <2> HIDE DEF t, u
  <2>8. /\ NotesTyped' /\ (\A q \in NoteSessions : q # s => SameSession(q))
        /\ QueueInOrder(s)' /\ RequestsApart(s)' /\ DraftsAgree(s)'
    BY <1>1, <1>2, <2>2, <2>3, <2>5, <2>6, <2>7, CommandBegins
  <2> QED
    BY <1>2, <2>8, SameFile
<1>8. CASE ~MayNote(noteDrafts[s], t)
  <2>1. manual' = [manual EXCEPT ![s] = NoManual] /\ UNCHANGED <<automatic, requests>>
    BY <1>8 DEF CaptureAfterQueue
  <2>2. manual' \in [NoteSessions -> Commands] /\ manual'[s] = NoManual
        /\ \A q \in NoteSessions : q # s => manual'[q] = manual[q]
    <3>1. NoManual \in Commands
      BY DEF NoManual, Commands
    <3> QED
      BY <1>3, <2>1, <3>1
  <2>3. NotesTyped' /\ \A q \in NoteSessions : q # s => SameSession(q)
    BY <1>1, <1>2, <2>1, <2>2 DEF NotesTyped, SameSession, Commands
  <2>4. QueueInOrder(s)'
    BY <1>1, <1>2, <2>1 DEF QueueInOrder
  <2>5. DraftsAgree(s)'
    <3>1. FileTurns' = FileTurns /\ DraftTurns(s)' = DraftTurns(s)
      BY <1>2 DEF FileTurns, DraftTurns
    <3> QED
      BY <1>1, <1>2, <2>1, <3>1 DEF DraftsAgree
  <2>6. RequestsApart(s)'
    <3>1. NoManual.step = "idle"
      BY DEF NoManual
    <3> QED
      BY <1>1, <1>2, <1>6, <2>1, <2>2, <3>1 DEF RequestsApart
  <2> QED
    BY <1>2, <2>3, <2>4, <2>5, <2>6, SameFile
<1> QED
  BY <1>7, <1>8

\* close() of the workbench,
LEMMA Closes ==
  ASSUME NotesInv, NEW s \in NoteSessions, CloseWorkbench(s)
  PROVE  NotesInv'
<1>1. NotesTyped /\ QueueInOrder(s) /\ RequestsApart(s) /\ DraftsAgree(s)
  BY DEF NotesInv
<1>2. /\ sessionState[s] = "open" /\ sessionState' = [sessionState EXCEPT ![s] = "closing"]
      /\ UNCHANGED <<completedTurns, lines, tail, noteDrafts, notesListed, ordinals, jobs, automatic,
                     requests, manual>>
  BY DEF CloseWorkbench
<1>3. sessionState' \in [NoteSessions -> {"open", "closing", "gone"}] /\ sessionState'[s] = "closing"
      /\ \A q \in NoteSessions : q # s => sessionState'[q] = sessionState[q]
  BY <1>1, <1>2 DEF NotesTyped
<1>4. NotesTyped' /\ \A q \in NoteSessions : q # s => SameSession(q)
  BY <1>1, <1>2, <1>3 DEF NotesTyped, SameSession
<1>5. QueueInOrder(s)' /\ RequestsApart(s)'
  BY <1>1, <1>2, <1>3 DEF QueueInOrder, RequestsApart
<1>6. DraftsAgree(s)'
  <2>1. FileTurns' = FileTurns /\ DraftTurns(s)' = DraftTurns(s)
    BY <1>2 DEF FileTurns, DraftTurns
  <2> QED
    BY <1>1, <1>2, <1>3, <2>1 DEF DraftsAgree
<1> QED
  BY <1>2, <1>4, <1>5, <1>6, SameFile

\* A session that is gone keeps nothing but its journal.
LEMMA Forgets ==
  ASSUME NotesTyped, NEW s \in NoteSessions, QueueInOrder(s), Forget(s),
         lines' = lines, tail' = NoTail \/ tail' \in [whole : BOOLEAN, note : NoteRecords]
  PROVE  /\ NotesTyped' /\ sessionState'[s] = "gone"
         /\ \A q \in NoteSessions : q # s => SameSession(q)
         /\ QueueInOrder(s)' /\ RequestsApart(s)' /\ DraftsAgree(s)'
<1>1. /\ sessionState' = [sessionState EXCEPT ![s] = "gone"]
      /\ noteDrafts' = [noteDrafts EXCEPT ![s] = {}]
      /\ notesListed' = [notesListed EXCEPT ![s] = <<>>]
      /\ ordinals' = [ordinals EXCEPT ![s] = [t \in NoteTurns[s] |-> 0]]
      /\ jobs' = [jobs EXCEPT ![s] = <<>>]
      /\ automatic' = [automatic EXCEPT ![s] = {}]
      /\ requests' = [requests EXCEPT ![s] = {}]
      /\ manual' = [manual EXCEPT ![s] = NoManual]
      /\ completedTurns' = completedTurns
  BY DEF Forget
<1>2. NoManual \in Commands /\ <<>> \in Seq(AllNoteTurns) /\ <<>> \in Seq(NoteRecords) /\ ToSet(<<>>) = {}
      /\ NoManual.step = "idle"
  BY DEF NoManual, Commands, ToSet
<1>3. sessionState' \in [NoteSessions -> {"open", "closing", "gone"}] /\ sessionState'[s] = "gone"
      /\ \A q \in NoteSessions : q # s => sessionState'[q] = sessionState[q]
  BY <1>1 DEF NotesTyped
<1>4. noteDrafts' \in [NoteSessions -> SUBSET NoteRecords] /\ noteDrafts'[s] = {}
      /\ \A q \in NoteSessions : q # s => noteDrafts'[q] = noteDrafts[q]
  BY <1>1 DEF NotesTyped
<1>5. notesListed' \in [NoteSessions -> Seq(NoteRecords)] /\ notesListed'[s] = <<>>
      /\ \A q \in NoteSessions : q # s => notesListed'[q] = notesListed[q]
  BY <1>1, <1>2 DEF NotesTyped
<1>6. DOMAIN ordinals' = NoteSessions /\ \A q \in NoteSessions : ordinals'[q] \in [NoteTurns[q] -> Nat]
  <2> DEFINE none == [t \in NoteTurns[s] |-> 0]
  <2>1. none \in [NoteTurns[s] -> Nat] /\ ordinals' = [ordinals EXCEPT ![s] = none]
    BY <1>1
  <2> HIDE DEF none
  <2> QED
    BY <2>1 DEF NotesTyped
<1>7. jobs' \in [NoteSessions -> Seq(AllNoteTurns)] /\ jobs'[s] = <<>>
      /\ \A q \in NoteSessions : q # s => jobs'[q] = jobs[q]
  BY <1>1, <1>2 DEF NotesTyped
<1>8. automatic' \in [NoteSessions -> SUBSET AllNoteTurns] /\ automatic'[s] = {}
      /\ \A q \in NoteSessions : q # s => automatic'[q] = automatic[q]
  BY <1>1 DEF NotesTyped
<1>9. requests' \in [NoteSessions -> SUBSET Requested] /\ requests'[s] = {}
      /\ \A q \in NoteSessions : q # s => requests'[q] = requests[q]
  BY <1>1 DEF NotesTyped, Requested
<1>10. manual' \in [NoteSessions -> Commands] /\ manual'[s] = NoManual
      /\ \A q \in NoteSessions : q # s => manual'[q] = manual[q]
  BY <1>1, <1>2 DEF NotesTyped, Commands
<1>11. \A q \in NoteSessions : noteDrafts'[q] = ToSet(notesListed'[q])
  BY <1>2, <1>4, <1>5 DEF NotesTyped
<1>12. NotesTyped'
  BY <1>1, <1>3, <1>4, <1>5, <1>6, <1>7, <1>8, <1>9, <1>10, <1>11 DEF NotesTyped, Requested, Commands
<1>13. \A q \in NoteSessions : q # s => SameSession(q)
  BY <1>1, <1>3, <1>4, <1>5, <1>7, <1>8, <1>9, <1>10 DEF SameSession
<1>14. QueueInOrder(s)'
  BY <1>1, <1>2, <1>7, <1>8 DEF QueueInOrder, Once
<1>15. RequestsApart(s)'
  BY <1>2, <1>3, <1>7, <1>9, <1>10 DEF RequestsApart
<1>16. DraftsAgree(s)'
  <2>1. DraftTurns(s)' = {}
    BY <1>4 DEF DraftTurns
  <2>2. \A i, j \in DOMAIN notesListed'[s] : notesListed'[s][i].turn = notesListed'[s][j].turn => i = j
    BY <1>5
  <2> QED
    BY <1>3, <1>9, <2>1, <2>2 DEF DraftsAgree
<1> QED
  BY <1>3, <1>12, <1>13, <1>14, <1>15, <1>16

\* the end of its process,
LEMMA Exits ==
  ASSUME NotesInv, NEW s \in NoteSessions, Exit(s)
  PROVE  NotesInv'
<1>1. NotesTyped /\ QueueInOrder(s)
  BY DEF NotesInv
<1>2. Forget(s) /\ UNCHANGED <<lines, tail>>
  BY DEF Exit
<1>3. tail' = NoTail \/ tail' \in [whole : BOOLEAN, note : NoteRecords]
  BY <1>1, <1>2 DEF NotesTyped
<1>4. /\ NotesTyped' /\ sessionState'[s] = "gone"
      /\ \A q \in NoteSessions : q # s => SameSession(q)
      /\ QueueInOrder(s)' /\ RequestsApart(s)' /\ DraftsAgree(s)'
  BY <1>1, <1>2, <1>3, Forgets
<1> QED
  BY <1>2, <1>4, SameFile

\* a crash,
LEMMA Crashes ==
  ASSUME NotesInv, NEW s \in NoteSessions, CrashOf(s)
  PROVE  NotesInv'
<1>1. NotesTyped /\ QueueInOrder(s) /\ RequestsApart(s) /\ DraftsAgree(s)
  BY DEF NotesInv
<1>2. Forget(s) /\ UNCHANGED lines
  BY DEF CrashOf
<1>3. CASE UNCHANGED tail
  <2>1. tail' = NoTail \/ tail' \in [whole : BOOLEAN, note : NoteRecords]
    BY <1>1, <1>3 DEF NotesTyped
  <2>2. /\ NotesTyped' /\ sessionState'[s] = "gone"
        /\ \A q \in NoteSessions : q # s => SameSession(q)
        /\ QueueInOrder(s)' /\ RequestsApart(s)' /\ DraftsAgree(s)'
    BY <1>1, <1>2, <2>1, Forgets
  <2> QED
    BY <1>2, <1>3, <2>2, SameFile
<1>4. CASE \E r \in requests[s], whole \in BOOLEAN :
             /\ r.line # 0 /\ tail = NoTail
             /\ tail' = [whole |-> whole, note |-> NoteOf(s, r)]
  <2>1. PICK r \in requests[s], whole \in BOOLEAN :
          r.line # 0 /\ tail' = [whole |-> whole, note |-> NoteOf(s, r)]
    BY <1>4
  <2>2. r \in Requested /\ r.turn \in NoteTurns[s] /\ r.turn \notin FileTurns
    <3>1. r \in Requested
      BY <1>1 DEF NotesTyped, Requested
    <3>2. r.turn \in automatic[s] /\ automatic[s] \subseteq NoteTurns[s]
      BY <1>1 DEF RequestsApart, QueueInOrder
    <3>3. r.turn \notin FileTurns
      BY <1>1, <2>1 DEF DraftsAgree
    <3> QED
      BY <3>1, <3>2, <3>3
  <2>3. NoteOf(s, r) \in NoteRecords /\ NoteOf(s, r).turn = r.turn
    <3>1. ordinals[s][r.turn] \in Nat
      BY <1>1, <2>2 DEF NotesTyped
    <3> QED
      BY <2>2, <3>1 DEF NoteOf, NoteRecords, Requested
  <2>4. tail' \in [whole : BOOLEAN, note : NoteRecords] /\ tail'.note.turn = r.turn
    BY <2>1, <2>3
  <2>5. /\ NotesTyped' /\ sessionState'[s] = "gone"
        /\ \A q \in NoteSessions : q # s => SameSession(q)
        /\ QueueInOrder(s)' /\ RequestsApart(s)' /\ DraftsAgree(s)'
    BY <1>1, <1>2, <2>4, Forgets
  <2>6. FileTurns' = FileTurns /\ LinesApart'
    BY <1>2 DEF FileTurns, LinesApart, NotesInv
  <2>7. TailIsNew'
    BY <2>2, <2>4, <2>5, <2>6 DEF TailIsNew
  <2>8. \A q \in NoteSessions : q # s =>
          \A t \in FileTurns' \ FileTurns : t \notin NoteTurns[q] \/ sessionState[q] = "gone"
    BY <2>6
  <2> QED
    BY <2>5, <2>6, <2>7, <2>8, MoreFile
<1> QED
  BY <1>3, <1>4 DEF CrashOf

\* and the start of a session, which reads the notes back.
LEMMA Opens ==
  ASSUME NotesInv, NotesAssumption, NEW s \in NoteSessions, Open(s)
  PROVE  NotesInv'
<1>1. NotesTyped /\ QueueInOrder(s) /\ RequestsApart(s) /\ LinesApart /\ TailIsNew
  BY DEF NotesInv
<1> DEFINE mine == NotesOf(s, lines')
           drafts == noteDrafts'[s]
           ended == completedTurns[s]
           reserved == [t \in NoteTurns[s] |-> MaxNumber({n.number : n \in NoteForTurn(drafts, t)})]
<1>2. /\ sessionState[s] = "gone"
      /\ sessionState' = [sessionState EXCEPT ![s] = "open"]
      /\ lines' = Recovered(lines, tail) /\ tail' = NoTail
      /\ notesListed' = [notesListed EXCEPT ![s] = mine]
      /\ noteDrafts' = [noteDrafts EXCEPT ![s] = ToSet(mine)]
      /\ UNCHANGED <<completedTurns, requests, manual>>
      /\ Schedule(s, ended, drafts, reserved, <<>>, {})
  BY DEF Open
<1>3. /\ lines' \in Seq(NoteRecords) /\ LinesApart' /\ FileTurns \subseteq FileTurns'
      /\ \A t \in FileTurns' \ FileTurns :
           \E o \in NoteSessions : t \in NoteTurns[o] /\ sessionState[o] = "gone"
  BY <1>1, <1>2, LinesRecovered
<1> DEFINE file == lines'
           these == {n \in ToSet(file) : n.turn \in NoteTurns[s]}
<1>4. mine = Selected(file, these)
  BY DEF NotesOf
<1>5. /\ mine \in Seq(NoteRecords) /\ ToSet(mine) = these
      /\ \A i, j \in DOMAIN mine : mine[i].turn = mine[j].turn => i = j
  <2> DEFINE R == Selected(file, these)
  <2>1. file \in Seq(NoteRecords)
    BY <1>3
  <2>2. \A i, j \in DOMAIN file : file[i].turn = file[j].turn => i = j
    BY <1>3 DEF LinesApart
  <2>3. these \subseteq ToSet(file)
    OBVIOUS
  <2> HIDE DEF file, these
  <2>4. R \in Seq(NoteRecords) /\ ToSet(R) = ToSet(file) \intersect these
    BY <2>1, SelectedOnce
  <2>5. Once(file) => Once(R)
    BY <2>1, SelectedOnce
  <2>6. Once(file)
    BY <2>2 DEF Once
  <2>7. \A i \in DOMAIN R : \E k \in DOMAIN file : file[k] = R[i]
    <3>1. \A x \in ToSet(R) : x \in ToSet(file)
      BY <2>4
    <3> HIDE DEF R
    <3> QED
      BY <3>1 DEF ToSet
  <2>8. \A i, j \in DOMAIN R : R[i].turn = R[j].turn => i = j
    <3> HIDE DEF R
    <3> SUFFICES ASSUME NEW i \in DOMAIN R, NEW j \in DOMAIN R, R[i].turn = R[j].turn PROVE i = j
      OBVIOUS
    <3>1. PICK k \in DOMAIN file : file[k] = R[i]
      BY <2>7
    <3>2. PICK l \in DOMAIN file : file[l] = R[j]
      BY <2>7
    <3>3. k = l
      BY <2>2, <3>1, <3>2
    <3> QED
      BY <2>5, <2>6, <3>1, <3>2, <3>3 DEF Once
  <2>9. mine = R
    BY <1>4
  <2> HIDE DEF R, mine
  <2> QED
    BY <2>3, <2>4, <2>8, <2>9
<1> HIDE DEF mine
<1>6. these \subseteq NoteRecords /\ {n.turn : n \in these} = FileTurns' \intersect NoteTurns[s]
  <2>1. these \subseteq NoteRecords
    BY <1>3 DEF ToSet
  <2>2. {n.turn : n \in these} = FileTurns' \intersect NoteTurns[s]
    BY DEF ToSet, FileTurns
  <2> QED
    BY <2>1, <2>2
<1> HIDE DEF file, these
<1>7. /\ noteDrafts \in [NoteSessions -> SUBSET NoteRecords] /\ notesListed \in [NoteSessions -> Seq(NoteRecords)]
      /\ \A q \in NoteSessions : noteDrafts[q] = ToSet(notesListed[q])
      /\ sessionState \in [NoteSessions -> {"open", "closing", "gone"}]
  BY <1>1 DEF NotesTyped
<1>8. notesListed' \in [NoteSessions -> Seq(NoteRecords)] /\ notesListed'[s] = mine
      /\ \A q \in NoteSessions : q # s => notesListed'[q] = notesListed[q]
  BY <1>2, <1>5, <1>7
<1>9. noteDrafts' \in [NoteSessions -> SUBSET NoteRecords] /\ noteDrafts'[s] = these
      /\ \A q \in NoteSessions : q # s => noteDrafts'[q] = noteDrafts[q]
  BY <1>2, <1>5, <1>6, <1>7
<1>10. sessionState' \in [NoteSessions -> {"open", "closing", "gone"}] /\ sessionState'[s] = "open"
      /\ \A q \in NoteSessions : q # s => sessionState'[q] = sessionState[q]
  BY <1>2, <1>7
<1>11. \A q \in NoteSessions : noteDrafts'[q] = ToSet(notesListed'[q])
  BY <1>5, <1>7, <1>8, <1>9
<1>12. IsFiniteSet(drafts) /\ drafts \in SUBSET NoteRecords /\ drafts = these
  <2>1. IsFiniteSet(ToSet(mine))
    BY <1>5, ToSetIsFinite
  <2> QED
    BY <2>1, <1>5, <1>6, <1>9
<1> HIDE DEF drafts
<1>13. reserved \in [NoteTurns[s] -> Nat]
  <2>1. ASSUME NEW t \in NoteTurns[s] PROVE MaxNumber({n.number : n \in NoteForTurn(drafts, t)}) \in Nat
    <3> DEFINE S == NoteForTurn(drafts, t)
               f == [n \in S |-> n.number]
               own == {n.number : n \in S}
    <3>1. IsFiniteSet(S) /\ S \subseteq NoteRecords
      BY <1>12, FS_Subset DEF NoteForTurn
    <3>2. DOMAIN f = S /\ own = {f[n] : n \in S}
      OBVIOUS
    <3>3. own \subseteq Nat
      BY <3>1 DEF NoteRecords
    <3>4. IsFiniteSet({f[n] : n \in S})
      <4> HIDE DEF S, f
      <4> QED
        BY <3>1, <3>2, ImageIsFinite
    <3>5. IsFiniteSet(own)
      BY <3>2, <3>4
    <3> HIDE DEF own
    <3>6. MaxNumber(own) \in Nat
      BY <3>3, <3>5, MaxNumberIs
    <3> QED
      BY <3>6 DEF own
  <2> QED
    BY <2>1
<1>14. ended \in Seq(AllNoteTurns) /\ Once(ended) /\ completedTurns'[s] = ended
  BY <1>1, <1>2 DEF NotesTyped, QueueInOrder
<1>15. Schedule(s, ended, drafts, reserved, <<>>, {})
  BY <1>2 DEF drafts
<1> HIDE DEF ended, reserved
<1> DEFINE none == <<>>
           idle == {}
<1>16. none \in Seq(AllNoteTurns) /\ idle \in SUBSET AllNoteTurns /\ Once(none) /\ ToSet(none) = idle
       /\ Schedule(s, ended, drafts, reserved, none, idle)
  BY <1>15 DEF Once, ToSet
<1> HIDE DEF none, idle
<1>17. Scheduled(s, ended, drafts, none, idle)
  <2>1. completedTurns'[s] \in Seq(AllNoteTurns) /\ ToSet(none) \subseteq idle
    BY <1>14, <1>16
  <2> QED
    BY <1>1, <1>12, <1>13, <1>14, <1>16, <2>1, SchedulesOnce
<1>18. /\ jobs' \in [NoteSessions -> Seq(AllNoteTurns)] /\ automatic' \in [NoteSessions -> SUBSET AllNoteTurns]
       /\ DOMAIN ordinals' = NoteSessions
       /\ \A q \in NoteSessions : ordinals'[q] \in [NoteTurns[q] -> Nat]
       /\ \A q \in NoteSessions : q # s => jobs'[q] = jobs[q] /\ automatic'[q] = automatic[q]
       /\ Once(jobs'[s])
       /\ \A t \in ToSet(jobs'[s]) : t \in ToSet(ended) /\ NoteForTurn(drafts, t) = {}
       /\ ToSet(jobs'[s]) \subseteq automatic'[s] /\ automatic'[s] \subseteq ToSet(ended)
  BY <1>16, <1>17 DEF Scheduled, idle
<1>19. NotesTyped'
  BY <1>1, <1>2, <1>3, <1>8, <1>9, <1>10, <1>11, <1>18 DEF NotesTyped
<1>20. \A q \in NoteSessions : q # s => SameSession(q)
  BY <1>2, <1>8, <1>9, <1>10, <1>18 DEF SameSession
<1>21. TailIsNew'
  BY <1>2 DEF TailIsNew
<1>22. \A q \in NoteSessions : q # s =>
         \A t \in FileTurns' \ FileTurns : t \notin NoteTurns[q] \/ sessionState[q] = "gone"
  BY <1>3 DEF NotesAssumption
<1>23. QueueInOrder(s)'
  <2>1. ToSet(ended) \subseteq NoteTurns[s]
    BY <1>1 DEF QueueInOrder, ended
  <2> QED
    BY <1>14, <1>18, <2>1 DEF QueueInOrder
<1>24. requests'[s] = {} /\ manual'[s] = NoManual
  BY <1>1, <1>2 DEF RequestsApart
<1>25. RequestsApart(s)'
  BY <1>10, <1>24 DEF RequestsApart, NoManual
<1>26. DraftsAgree(s)'
  <2>1. DraftTurns(s)' = FileTurns' \intersect NoteTurns[s]
    BY <1>6, <1>9 DEF DraftTurns
  <2>2. \A t \in ToSet(jobs'[s]) : t \notin FileTurns'
    <3>1. \A t \in ToSet(ended) : t \in NoteTurns[s]
      BY <1>1 DEF QueueInOrder, ended
    <3> QED
      <4> SUFFICES ASSUME NEW t \in ToSet(jobs'[s]), t \in FileTurns' PROVE FALSE
        OBVIOUS
      <4>1. t \in NoteTurns[s] /\ NoteForTurn(drafts, t) = {}
        BY <1>18, <3>1
      <4>2. t \in {n.turn : n \in these}
        BY <1>6, <4>1
      <4>3. PICK n \in drafts : n.turn = t
        BY <1>12, <4>2
      <4> QED
        BY <4>1, <4>3 DEF NoteForTurn
  <2> QED
    BY <1>5, <1>8, <1>24, <2>1, <2>2 DEF DraftsAgree
<1> QED
  BY <1>3, <1>19, <1>20, <1>21, <1>22, <1>23, <1>25, <1>26, MoreFile

\* The invariant holds before the first session.
LEMMA NotesBegin ==
  ASSUME NotesAssumption, NotesInit
  PROVE  NotesInv
<1> DEFINE old == SetToSeq(AllNoteTurns \intersect Unnumbered)
<1>1. old \in Seq(AllNoteTurns \intersect Unnumbered) /\ Once(old)
  <2> DEFINE X == AllNoteTurns \intersect Unnumbered
  <2>1. IsFiniteSet(X)
    BY FS_Subset DEF NotesAssumption
  <2> HIDE DEF X
  <2>2. SetToSeq(X) \in Seq(X) /\ Once(SetToSeq(X))
    BY <2>1, SetAsSequence
  <2> QED
    BY <2>2 DEF X
<1>2. ASSUME NEW s \in NoteSessions
      PROVE  /\ completedTurns[s] \in Seq(AllNoteTurns) /\ Once(completedTurns[s])
             /\ ToSet(completedTurns[s]) \subseteq NoteTurns[s]
  <2> DEFINE X == NoteTurns[s] \intersect Unnumbered
  <2>1. IsFiniteSet(X) /\ X \subseteq NoteTurns[s] /\ X \subseteq AllNoteTurns
    BY FS_Subset DEF NotesAssumption, AllNoteTurns
  <2>2. completedTurns[s] = SetToSeq(X)
    BY DEF NotesInit
  <2> HIDE DEF X
  <2>3. SetToSeq(X) \in Seq(X) /\ Once(SetToSeq(X)) /\ ToSet(SetToSeq(X)) = X
    BY <2>1, SetAsSequence
  <2>4. SetToSeq(X) \in Seq(AllNoteTurns)
    BY <2>1, <2>3
  <2> QED
    BY <2>1, <2>2, <2>3, <2>4
<1>3. lines = [i \in DOMAIN old |-> [line |-> i, turn |-> old[i], number |-> 0]]
  BY DEF NotesInit
<1> HIDE DEF old
<1>4. DOMAIN old = 1..Len(old) /\ Len(old) \in Nat /\ \A i \in DOMAIN old : old[i] \in AllNoteTurns
  BY <1>1
<1>5. lines \in Seq(NoteRecords) /\ LinesApart
  <2>1. \A i \in 1..Len(old) : lines[i] \in NoteRecords /\ lines[i].turn = old[i]
    BY <1>3, <1>4 DEF NoteRecords
  <2>2. DOMAIN lines = 1..Len(old)
    BY <1>3, <1>4
  <2>3. LinesApart
    BY <1>1, <1>4, <2>1, <2>2 DEF LinesApart, Once
  <2>4. lines = [i \in 1..Len(old) |-> lines[i]]
    BY <1>3, <1>4
  <2>5. lines \in [1..Len(old) -> NoteRecords]
    BY <2>1, <2>4
  <2> QED
    BY <1>4, <2>3, <2>5
<1>6. /\ sessionState = [s \in NoteSessions |-> "gone"] /\ tail = NoTail
      /\ noteDrafts = [s \in NoteSessions |-> {}] /\ notesListed = [s \in NoteSessions |-> <<>>]
      /\ ordinals = [s \in NoteSessions |-> [t \in NoteTurns[s] |-> 0]]
      /\ jobs = [s \in NoteSessions |-> <<>>] /\ automatic = [s \in NoteSessions |-> {}]
      /\ requests = [s \in NoteSessions |-> {}] /\ manual = [s \in NoteSessions |-> NoManual]
      /\ DOMAIN completedTurns = NoteSessions
      /\ completedTurns = [s \in NoteSessions |-> completedTurns[s]]
  BY DEF NotesInit
<1>7. NoManual \in Commands /\ <<>> \in Seq(AllNoteTurns) /\ <<>> \in Seq(NoteRecords) /\ ToSet(<<>>) = {}
      /\ NoManual.step = "idle"
  BY DEF NoManual, Commands, ToSet
<1>8. NotesTyped
  <2>1. completedTurns \in [NoteSessions -> Seq(AllNoteTurns)]
    BY <1>2, <1>6
  <2>2. jobs \in [NoteSessions -> Seq(AllNoteTurns)] /\ notesListed \in [NoteSessions -> Seq(NoteRecords)]
        /\ manual \in [NoteSessions -> Commands]
    BY <1>6, <1>7
  <2>3. \A s \in NoteSessions : noteDrafts[s] = ToSet(notesListed[s])
    BY <1>6, <1>7
  <2>4. DOMAIN ordinals = NoteSessions /\ \A s \in NoteSessions : ordinals[s] \in [NoteTurns[s] -> Nat]
    BY <1>6
  <2> QED
    BY <1>5, <1>6, <2>1, <2>2, <2>3, <2>4 DEF NotesTyped, Commands
<1>9. \A s \in NoteSessions : QueueInOrder(s)
  BY <1>2, <1>6, <1>7 DEF QueueInOrder, Once
<1>10. \A s \in NoteSessions : RequestsApart(s)
  BY <1>6, <1>7 DEF RequestsApart
<1>11. \A s \in NoteSessions : DraftsAgree(s)
  BY <1>6 DEF DraftsAgree, DraftTurns
<1>12. TailIsNew
  BY <1>6 DEF TailIsNew
<1> QED
  BY <1>5, <1>8, <1>9, <1>10, <1>11, <1>12 DEF NotesInv

\* Every step keeps it.
LEMMA NotesStep ==
  ASSUME NotesAssumption, NotesInv, [NotesNext]_noteVars
  PROVE  NotesInv'
<1>1. CASE UNCHANGED noteVars
  <2>1. UNCHANGED <<sessionState, completedTurns, lines, tail, noteDrafts, notesListed, ordinals, jobs,
                    automatic, requests, manual>>
    BY <1>1 DEF noteVars
  <2>2. NotesTyped' /\ LinesApart' /\ TailIsNew'
    BY <2>1 DEF NotesInv, NotesTyped, LinesApart, TailIsNew, FileTurns
  <2>3. ASSUME NEW s \in NoteSessions PROVE QueueInOrder(s)' /\ RequestsApart(s)' /\ DraftsAgree(s)'
    <3>1. QueueInOrder(s) /\ RequestsApart(s) /\ DraftsAgree(s)
      BY DEF NotesInv
    <3>2. FileTurns' = FileTurns /\ DraftTurns(s)' = DraftTurns(s)
      BY <2>1 DEF FileTurns, DraftTurns
    <3> QED
      BY <2>1, <3>1, <3>2 DEF QueueInOrder, RequestsApart, DraftsAgree
  <2> QED
    BY <2>2, <2>3 DEF NotesInv
<1>2. ASSUME NEW s \in NoteSessions, Open(s) \/ CloseWorkbench(s) \/ Exit(s) \/ CrashOf(s)
      PROVE  NotesInv'
  BY <1>2, Opens, Closes, Exits, Crashes
<1>3. ASSUME NEW s \in NoteSessions, RunJob(s) \/ CaptureAfterQueue(s)
      PROVE  NotesInv'
  BY <1>3, RunsJob, CapturesAfterQueue
<1>4. ASSUME NEW s \in NoteSessions, NEW t \in NoteTurns[s], CompleteTurn(s, t) \/ Capture(s, t)
      PROVE  NotesInv'
  BY <1>4, CompletesTurn, Captures
<1>5. ASSUME NEW s \in NoteSessions, NEW r \in requests[s], Failed(s, r) \/ ReadNotes(s, r) \/ AppendNote(s, r)
      PROVE  NotesInv'
  BY <1>5, Fails, Reads, Appends
<1> QED
  BY <1>1, <1>2, <1>3, <1>4, <1>5 DEF NotesNext

\* A question has at most one note, in the file and in every list, whatever crashes, fails or is
\* asked twice, and whoever else writes into the file.
THEOREM NotesAreUnique == NotesSpec => []OneNotePerQuestion
<1>1. NotesInit => NotesInv
  BY NotesBegin, NotesAssumption
<1>2. NotesInv /\ [NotesNext]_noteVars => NotesInv'
  BY NotesStep, NotesAssumption
<1>3. NotesInv => OneNotePerQuestion
  BY DEF NotesInv, LinesApart, DraftsAgree, OneNotePerQuestion
<1> QED
  BY <1>1, <1>2, <1>3, PTL DEF NotesSpec

\* The notes, their drafts, requests and queues are what their types say.
THEOREM NotesAreTyped == NotesSpec => []NotesTypeOK
<1>1. NotesInit => NotesInv
  BY NotesBegin, NotesAssumption
<1>2. NotesInv /\ [NotesNext]_noteVars => NotesInv'
  BY NotesStep, NotesAssumption
<1>3. NotesInv => NotesTypeOK
  <2> SUFFICES ASSUME NotesInv PROVE NotesTypeOK
    OBVIOUS
  <2>1. \A h \in Seq(NoteRecords) : ToSet(h) \subseteq NoteRecords
    BY DEF ToSet
  <2> QED
    BY <2>1 DEF NotesInv, NotesTyped, QueueInOrder, RequestsApart, NotesTypeOK
<1> QED
  BY <1>1, <1>2, <1>3, PTL DEF NotesSpec

-----------------------------------------------------------------------------
(* What the journal says of a question and of its turn.                    *)

Activities == [is : {"message", "request/submitted", "request/queued", "request/failed", "request/uncertain",
                     "request/started", "turn/start", "turn/started", "turn/completed"},
               phase : {"started", "running", "completed", "failed", "cancelled"},
               item : 0..MaxViewRequests, turn : 0..MaxViewTurns]
Sendings == [step : Steps, item : 0..MaxViewRequests, queued : BOOLEAN, turn : 0..MaxViewTurns]
TurnRecords == [of : ViewRequests, outcome : Outcomes \union {"running"}, told : {"nothing", "start", "end"}]

\* Where the answer of turn/start is written, a message as one that is sent, and the messages that were delivered.
Begun(t) == {i \in DOMAIN written : written[i] = Activity("turn/start", "started", 0, t)}
Announced(r) == {i \in DOMAIN written : written[i] = Message("started", r)}
Delivered == {i \in DOMAIN written : written[i].is = "message" /\ written[i].phase = "completed"}

\* What a chain is about: before its send is settled, the message is the next; after the answer it has a turn.
Active(c) == sending[c].step # "idle"
AtFront(c) == sending[c].step \in {"outbound", "asked", "answered"}
Taken(c) == sending[c].step \in {"accepted", "started"}
HasTurn(c) == sending[c].step = "answered" \/ Taken(c)
Unfinished(t) == turns[t].told # "end"
SentOnce == \A r \in ViewRequests : ~SentTwice(r)

ViewsTyped ==
  /\ written \in Seq(Activities) /\ sending \in [Chains -> Sendings] /\ waiting \in Seq(ViewRequests)
  /\ turns \in Seq(TurnRecords) /\ Len(turns) <= MaxViewTurns
  /\ activeView \in 0..Len(turns) /\ uncertain \in ViewRequests \union {0}
  /\ \A i \in DOMAIN written : written[i].turn \in 0..Len(turns)

\* A message that is sent was announced; the event chain sends only what was queued; a turn is of its message.
ChainsTyped ==
  \A c \in Chains :
    /\ Active(c) => sending[c].item \in ViewRequests /\ Announced(sending[c].item) # {}
    /\ c = "event" /\ Active(c) => sending[c].queued
    /\ HasTurn(c) => sending[c].turn \in ViewTurns /\ turns[sending[c].turn].of = sending[c].item

\* Only one chain at a time has the next message, which is the head of the queue if it was queued; the queue
\* is empty otherwise, and nothing is uncertain.  Two chains never send the same message.
Fronted(c) ==
  AtFront(c) => /\ uncertain = 0
                /\ IF sending[c].queued THEN waiting # <<>> /\ Head(waiting) = sending[c].item ELSE waiting = <<>>
ChainsApart ==
  /\ \A c \in Chains : Fronted(c)
  /\ \A c, d \in Chains : c # d /\ Active(c) /\ Active(d) =>
       ~(AtFront(c) /\ AtFront(d)) /\ sending[c].item # sending[d].item

\* Only the last turn can be unfinished; then its answer is on its way, or it is the active one, or an answer was
\* lost, which was its own.  A turn whose answer is yet to be recorded has no record of it.
OneAtATime ==
  /\ \A t \in ViewTurns : Unfinished(t) =>
       /\ t = Len(turns)
       /\ (\E c \in Chains : sending[c].step = "answered") \/ activeView = t \/ uncertain # 0
       /\ uncertain # 0 => /\ Begun(t) = {} /\ turns[t].of = uncertain
                           /\ \A c \in Chains : HasTurn(c) => sending[c].turn # t
  /\ \A c \in Chains :
       /\ sending[c].step \in {"outbound", "asked"} => \A t \in ViewTurns : ~Unfinished(t)
       /\ sending[c].step = "answered" => sending[c].turn = Len(turns)
       /\ HasTurn(c) => Begun(sending[c].turn) = {}

\* A turn has one end, once it is over.
EndsOnce ==
  \A t \in ViewTurns :
    /\ IF Unfinished(t) THEN Ends(t) = {} ELSE turns[t].outcome # "running" /\ Ends(t) # {}
    /\ \A e, f \in Ends(t) : e = f

\* While the answer of turn/start is written, the message that was delivered last is that turn's.
DeliveredLast ==
  \A c \in Chains : Taken(c) /\ Unfinished(sending[c].turn) =>
    \E m \in Delivered : written[m].item = sending[c].item /\ \A n \in Delivered : n <= m

\* A message of the turn was delivered before that answer, and none is delivered after it before the
\* turn has ended; from then on the turn does not start again.
Answering(t, m) ==
  /\ m \in Delivered /\ written[m].item = turns[t].of
  /\ \A n \in Delivered : n > m => turns[t].told = "end" /\ \A k \in Starts(t) : k < n
AnsweredLast ==
  \A t \in ViewTurns : \A i \in Begun(t) :
    (\A e \in Ends(t) : i < e) => \E m \in Delivered : m < i /\ Answering(t, m)

\* What was delivered has a turn, and before a start of a turn it is its own or one of before.
AskedBefore ==
  /\ \A m \in Delivered : \E u \in ViewTurns : turns[u].of = written[m].item
  /\ \A t \in ViewTurns : \A k \in Starts(t), m \in Delivered :
       m < k /\ (\A e \in Ends(t) : k < e) => \E u \in ViewTurns : u <= t /\ turns[u].of = written[m].item

\* What holds as long as no message was sent twice.
Told == EndsOnce /\ DeliveredLast /\ AnsweredLast /\ AskedBefore
ViewsSound == ChainsApart /\ OneAtATime /\ Told
ViewsInv == ViewsTyped /\ ChainsTyped /\ (SentOnce => ViewsSound)

\* What an activity tells.
IsStart(a, t) == a.turn = t /\ a.is \in {"turn/started", "turn/start"}
IsEnd(a, t) == a.turn = t /\ a.is = "turn/completed"
IsBegun(a, t) == a = Activity("turn/start", "started", 0, t)
IsDelivered(a) == a.is = "message" /\ a.phase = "completed"

\* The records of a turn's start, end and question are those of the journal's places.
LEMMA ToldBefore ==
  /\ \A t : Starts(t) = {i \in DOMAIN written : IsStart(written[i], t)}
  /\ \A t : Ends(t) = {i \in DOMAIN written : IsEnd(written[i], t)}
  /\ \A t : Begun(t) = {i \in DOMAIN written : IsBegun(written[i], t)}
  /\ Delivered = {i \in DOMAIN written : IsDelivered(written[i])}
BY DEF Starts, Ends, Begun, Delivered, IsStart, IsEnd, IsBegun, IsDelivered, Indices

\* The same, after a step.
LEMMA ToldAfter ==
  /\ \A t : Starts(t)' = {i \in DOMAIN written' : IsStart(written'[i], t)}
  /\ \A t : Ends(t)' = {i \in DOMAIN written' : IsEnd(written'[i], t)}
  /\ \A t : Begun(t)' = {i \in DOMAIN written' : IsBegun(written'[i], t)}
  /\ Delivered' = {i \in DOMAIN written' : IsDelivered(written'[i])}
BY DEF Starts, Ends, Begun, Delivered, IsStart, IsEnd, IsBegun, IsDelivered, Indices

\* The journal only grows: what was written stays in its place, and what is new comes after it.
Longer(more) ==
  LET n == Len(written)
  IN  /\ n \in Nat /\ DOMAIN written = 1..n /\ DOMAIN written \subseteq DOMAIN written'
      /\ \A i \in DOMAIN written : written'[i] = written[i]
      /\ \A i \in DOMAIN written' : i \in Nat /\ (i \notin DOMAIN written => i > n /\ i - n \in DOMAIN more /\ written'[i] = more[i - n])
      /\ \A k \in DOMAIN more : n + k \in DOMAIN written' /\ written'[n + k] = more[k]

\* The journal only grows, by the activities a step writes.
LEMMA JournalGrows ==
  ASSUME NEW more \in Seq(Activities), written \in Seq(Activities), Writes(more)
  PROVE  written' \in Seq(Activities) /\ Longer(more)
<1> DEFINE n == Len(written)
           m == Len(more)
<1>1. n \in Nat /\ m \in Nat /\ DOMAIN written = 1..n /\ DOMAIN more = 1..m
  OBVIOUS
<1>2. written' \in Seq(Activities) /\ DOMAIN written' = 1..(n + m)
  BY DEF Writes
<1>3. \A i \in 1..n : written'[i] = written[i]
  BY DEF Writes
<1>4. \A i \in 1..(n + m) : i > n => written'[i] = more[i - n]
  BY DEF Writes
<1> HIDE DEF n, m
<1>5. \A i \in 1..(n + m) : i \in Nat /\ (i \notin 1..n => i > n /\ i - n \in 1..m)
  BY <1>1
<1>6. \A k \in 1..m : n + k \in 1..(n + m) /\ n + k > n /\ (n + k) - n = k
  BY <1>1
<1>7. \A k \in 1..m : written'[n + k] = more[k]
  BY <1>4, <1>6
<1>8. DOMAIN written \subseteq DOMAIN written'
  BY <1>1, <1>2
<1> QED
  BY <1>1, <1>2, <1>3, <1>4, <1>5, <1>6, <1>7, <1>8 DEF Longer, n

\* What is not among the activities a step writes is told of as before.
LEMMA ViewsGrow ==
  ASSUME NEW more \in Seq(Activities), ViewsTyped, Writes(more)
  PROVE  /\ written' \in Seq(Activities)
         /\ \A t : Starts(t) \subseteq Starts(t)' /\ Ends(t) \subseteq Ends(t)' /\ Begun(t) \subseteq Begun(t)'
         /\ Delivered \subseteq Delivered'
         /\ \A t : (\A k \in DOMAIN more : ~IsStart(more[k], t)) => Starts(t)' = Starts(t)
         /\ \A t : (\A k \in DOMAIN more : ~IsEnd(more[k], t)) => Ends(t)' = Ends(t)
         /\ \A t : (\A k \in DOMAIN more : ~IsBegun(more[k], t)) => Begun(t)' = Begun(t)
         /\ (\A k \in DOMAIN more : ~IsDelivered(more[k])) => Delivered' = Delivered
<1>1. written' \in Seq(Activities) /\ Longer(more)
  BY JournalGrows DEF ViewsTyped
<1> QED
  BY <1>1, ToldBefore, ToldAfter DEF Longer

\* What the activities that one step writes are.
LEMMA OneActivity ==
  ASSUME NEW a \in Activities
  PROVE  <<a>> \in Seq(Activities) /\ DOMAIN <<a>> = {1} /\ <<a>>[1] = a
OBVIOUS

\* Two activities in a row.
LEMMA TwoActivities ==
  ASSUME NEW a \in Activities, NEW b \in Activities
  PROVE  <<a, b>> \in Seq(Activities) /\ DOMAIN <<a, b>> = {1, 2} /\ <<a, b>>[1] = a /\ <<a, b>>[2] = b
OBVIOUS

\* The activities the workbench writes are activities.
LEMMA TheActivities ==
  /\ \A phase \in {"started", "completed", "failed", "cancelled"}, r \in ViewRequests : Message(phase, r) \in Activities
  /\ \A method \in {"request/submitted", "request/queued", "request/failed", "request/uncertain", "request/started"},
        r \in ViewRequests, t \in 0..MaxViewTurns : RequestRecord(method, r, t) \in Activities
  /\ \A method \in {"turn/start", "turn/started", "turn/completed"}, phase \in {"started", "completed", "failed", "cancelled"},
        t \in 0..MaxViewTurns : Activity(method, phase, 0, t) \in Activities
BY JournalViewsAssumption DEF Message, RequestRecord, Activity, Activities, ViewRequests

\* A step that writes of turns there are leaves the journal one of turns there are.
LEMMA TurnsKnown ==
  ASSUME NEW more \in Seq(Activities), ViewsTyped, Writes(more), turns' \in Seq(TurnRecords), Len(turns) <= Len(turns'),
         \A k \in DOMAIN more : more[k].turn \in 0..Len(turns')
  PROVE  written' \in Seq(Activities) /\ \A i \in DOMAIN written' : written'[i].turn \in 0..Len(turns')
<1>1. written' \in Seq(Activities) /\ Longer(more)
  BY JournalGrows DEF ViewsTyped
<1>2. Len(turns) \in Nat /\ Len(turns') \in Nat
  BY DEF ViewsTyped
<1>3. ASSUME NEW i \in DOMAIN written' PROVE written'[i].turn \in 0..Len(turns')
  <2>1. CASE i \in DOMAIN written
    <3>1. written'[i] = written[i] /\ written[i].turn \in 0..Len(turns)
      BY <1>1, <2>1 DEF ViewsTyped, Longer
    <3> QED
      BY <1>2, <3>1
  <2>2. CASE i \notin DOMAIN written
    BY <1>1, <2>2 DEF Longer
  <2> QED
    BY <2>1, <2>2
<1> QED
  BY <1>1, <1>3

\* A new turn of a request leaves the others as they are, and has no records yet.
LEMMA NewTurn ==
  ASSUME ViewsTyped, NEW r \in ViewRequests, Len(turns) < MaxViewTurns, BeginTurn(r)
  PROVE  /\ turns' \in Seq(TurnRecords) /\ Len(turns') = Len(turns) + 1 /\ Len(turns') <= MaxViewTurns
         /\ ViewTurns = 1..Len(turns) /\ ViewTurns' = 1..(Len(turns) + 1) /\ Len(turns) \in Nat
         /\ \A t \in ViewTurns : turns'[t] = turns[t]
         /\ turns'[Len(turns) + 1].of = r /\ turns'[Len(turns) + 1].told = "nothing"
         /\ Begun(Len(turns) + 1) = {}
<1> DEFINE new == [of |-> r, outcome |-> "running", told |-> "nothing"]
<1>1. turns \in Seq(TurnRecords) /\ new \in TurnRecords /\ turns' = Append(turns, new)
  BY DEF ViewsTyped, TurnRecords, BeginTurn
<1>2. Begun(Len(turns) + 1) = {}
  <2>1. \A i \in DOMAIN written : written[i].turn # Len(turns) + 1
    BY <1>1 DEF ViewsTyped
  <2> QED
    BY <2>1 DEF Begun, Activity
<1>3. new.of = r /\ new.told = "nothing"
  OBVIOUS
<1> HIDE DEF new
<1> QED
  BY <1>1, <1>2, <1>3, JournalViewsAssumption DEF ViewTurns

\* When the record of one turn changes, the other turns stay, and all keep their request.
LEMMA OneTurnChanges ==
  ASSUME turns \in Seq(TurnRecords), NEW t \in ViewTurns, NEW over \in TurnRecords, over.of = turns[t].of,
         turns' = [turns EXCEPT ![t] = over]
  PROVE  /\ turns' \in Seq(TurnRecords) /\ Len(turns') = Len(turns) /\ ViewTurns' = ViewTurns
         /\ \A u \in ViewTurns : turns'[u] = IF u = t THEN over ELSE turns[u]
         /\ \A u \in ViewTurns : turns'[u].of = turns[u].of
<1>1. /\ turns' \in Seq(TurnRecords) /\ Len(turns') = Len(turns) /\ ViewTurns' = ViewTurns
      /\ \A u \in ViewTurns : turns'[u] = IF u = t THEN over ELSE turns[u]
  BY DEF ViewTurns
<1> QED
  BY <1>1

\* The first and the last of some places of the journal.
LEMMA LastPlace ==
  ASSUME NEW S, NEW n \in Nat, S \subseteq 1..n, S # {}
  PROVE  Latest(S) \in S /\ \A j \in S : j <= Latest(S)
<1>1. IsFiniteSet(S) /\ S \subseteq Nat
  <2>1. IsFiniteSet(1..n)
    BY FS_Interval
  <2> DEFINE I == 1..n
  <2>2. IsFiniteSet(I) /\ S \in SUBSET I
    BY <2>1
  <2> HIDE DEF I
  <2>3. IsFiniteSet(S)
    BY <2>2, FS_Subset
  <2> QED
    BY <2>3
<1>2. \E m \in S : \A x \in S : x <= m
  BY <1>1, MaxOfUpTo
<1> QED
  BY <1>2 DEF Latest

\* The first place of a set is in it, and before the others.
LEMMA FirstPlace ==
  ASSUME NEW S, NEW n \in Nat, S \subseteq 1..n, S # {}
  PROVE  First(S) \in S /\ \A j \in S : First(S) <= j
<1>1. IsWellFoundedOn(OpToRel(<, Nat), Nat)
  BY NatLessThanWellFounded
<1>2. S \subseteq Nat
  OBVIOUS
<1>3. PICK m \in S : \A y \in S : ~ (<<y, m>> \in OpToRel(<, Nat))
  BY <1>1, <1>2, WFMin
<1>4. \A y \in S : ~(y < m)
  BY <1>2, <1>3 DEF OpToRel
<1>5. \A y \in S : m <= y
  BY <1>2, <1>4
<1> QED
  BY <1>5 DEF First

\* Among the places of a message as one that is sent, no step takes one away.
LEMMA AnnouncedStays ==
  ASSUME ViewsTyped, NEW more \in Seq(Activities), Writes(more), NEW r
  PROVE  /\ Announced(r) \subseteq Announced(r)' /\ IsFiniteSet(Announced(r)') /\ IsFiniteSet(Announced(r))
         /\ (SentTwice(r) <=> Cardinality(Announced(r)) > 1) /\ (SentTwice(r)' <=> Cardinality(Announced(r)') > 1)
<1>1. written' \in Seq(Activities) /\ Longer(more) /\ written \in Seq(Activities)
  BY JournalGrows DEF ViewsTyped
<1>2. Announced(r) = {i \in DOMAIN written : written[i] = Message("started", r)}
  BY DEF Announced
<1>3. Announced(r)' = {i \in DOMAIN written' : written'[i] = Message("started", r)}
  BY DEF Announced, Message, Activity
<1>4. Announced(r) \subseteq Announced(r)'
  BY <1>1, <1>2, <1>3 DEF Longer
<1>5. IsFiniteSet(Announced(r)')
  <2> DEFINE D == DOMAIN written'
             P == Announced(r)'
  <2>1. D = 1..Len(written') /\ Len(written') \in Nat
    BY <1>1
  <2>2. IsFiniteSet(D)
    BY <2>1, FS_Interval
  <2>3. P \in SUBSET D
    BY <1>3
  <2> HIDE DEF D, P
  <2>4. IsFiniteSet(P)
    BY <2>2, <2>3, FS_Subset
  <2> QED
    BY <2>4 DEF P
<1>6. IsFiniteSet(Announced(r))
  BY <1>4, <1>5, FS_Subset
<1>7. SentTwice(r) <=> Cardinality(Announced(r)) > 1
  BY DEF SentTwice, Announced, Indices
<1>8. SentTwice(r)' <=> Cardinality(Announced(r)') > 1
  BY DEF SentTwice, Announced, Indices
<1> QED
  BY <1>4, <1>5, <1>6, <1>7, <1>8

\* What was sent twice stays so.
LEMMA SentOnceBefore ==
  ASSUME ViewsTyped, NEW more \in Seq(Activities), Writes(more), SentOnce'
  PROVE  SentOnce
<1> SUFFICES ASSUME NEW r \in ViewRequests, SentTwice(r) PROVE FALSE
  BY DEF SentOnce
<1> DEFINE S == Announced(r)
           T == Announced(r)'
<1>1. S \in SUBSET T /\ IsFiniteSet(T) /\ Cardinality(S) > 1 /\ ~(Cardinality(T) > 1)
  BY AnnouncedStays DEF SentOnce
<1> HIDE DEF S, T
<1>2. Cardinality(S) <= Cardinality(T) /\ IsFiniteSet(S)
  BY <1>1, FS_Subset
<1>3. Cardinality(S) \in Nat /\ Cardinality(T) \in Nat
  BY <1>1, <1>2, FS_CardinalityType
<1> QED
  BY <1>1, <1>2, <1>3

\* A message that was announced is not announced anew.
LEMMA AnnouncedOnce ==
  ASSUME ViewsTyped, NEW more \in Seq(Activities), Writes(more), SentOnce', NEW r \in ViewRequests, Announced(r) # {},
         NEW j \in DOMAIN written', j \notin DOMAIN written
  PROVE  written'[j] # Message("started", r)
<1> SUFFICES ASSUME written'[j] = Message("started", r) PROVE FALSE
  OBVIOUS
<1> DEFINE T == Announced(r)'
<1>1. PICK i : i \in Announced(r)
  OBVIOUS
<1>2. i \in DOMAIN written /\ i # j /\ j \in T /\ i \in T
  BY <1>1, AnnouncedStays DEF Announced
<1>3. IsFiniteSet(T) /\ ~(Cardinality(T) > 1)
  BY AnnouncedStays DEF SentOnce
<1> DEFINE P == {i, j}
<1>4. P \in SUBSET T
  BY <1>2
<1>5. Cardinality(P) = 2
  <2> DEFINE one == {i}
  <2>1. IsFiniteSet(one) /\ Cardinality(one) = 1 /\ j \notin one /\ P = one \union {j}
    BY <1>2, FS_Singleton
  <2> HIDE DEF one, P
  <2>2. Cardinality(P) = Cardinality(one) + 1
    BY <2>1, FS_AddElement
  <2> QED
    BY <2>1, <2>2
<1> HIDE DEF T, P
<1>6. Cardinality(P) <= Cardinality(T)
  BY <1>3, <1>4, FS_Subset
<1>7. Cardinality(T) \in Nat
  BY <1>3, FS_CardinalityType
<1> QED
  BY <1>3, <1>5, <1>6, <1>7

\* The turns stay what they are, and over once they are over.
TurnsContinue ==
  /\ turns' \in Seq(TurnRecords) /\ Len(turns) <= Len(turns') /\ Len(turns') <= MaxViewTurns
  /\ ViewTurns \subseteq ViewTurns'
  /\ \A t \in ViewTurns : turns'[t].of = turns[t].of /\ (turns[t].told = "end" => turns'[t].told = "end")
\* Neither do they end, and those that are new are not over.
NoneEnds ==
  /\ \A t \in ViewTurns : turns[t].told # "end" => turns'[t].told # "end"
  /\ \A t \in ViewTurns : turns[t].outcome # "running" => turns'[t].outcome # "running"
  /\ \A t \in ViewTurns' \ ViewTurns : turns'[t].told # "end"

\* If nothing happens to them they do.
LEMMA TurnsStay ==
  ASSUME ViewsTyped, UNCHANGED turns
  PROVE  TurnsContinue /\ NoneEnds /\ ViewTurns' = ViewTurns /\ Len(turns) \in Nat /\ ViewTurns = 1..Len(turns)
<1>1. turns \in Seq(TurnRecords) /\ Len(turns) \in Nat /\ ViewTurns' = ViewTurns /\ ViewTurns = 1..Len(turns)
  BY DEF ViewsTyped, ViewTurns
<1> QED
  BY <1>1 DEF ViewsTyped, TurnsContinue, NoneEnds

\* A turn there is not yet has no records.
LEMMA NothingOfNone ==
  ASSUME ViewsTyped, TurnsContinue, NEW t \in ViewTurns', t \notin ViewTurns
  PROVE  Ends(t) = {} /\ Begun(t) = {} /\ Starts(t) = {}
<1>1. /\ Len(turns) \in Nat /\ ViewTurns = 1..Len(turns) /\ Len(turns') \in Nat /\ ViewTurns' = 1..Len(turns')
      /\ \A i \in DOMAIN written : written[i].turn \in 0..Len(turns)
  BY DEF ViewsTyped, TurnsContinue, ViewTurns
<1>2. \A i \in DOMAIN written : written[i].turn # t
  BY <1>1
<1>3. \A a : IsEnd(a, t) \/ IsBegun(a, t) \/ IsStart(a, t) => a.turn = t
  BY DEF IsEnd, IsBegun, IsStart, Activity
<1> QED
  BY <1>2, <1>3, ToldBefore

\* Ends are kept by a step that writes none.
LEMMA EndsKept ==
  ASSUME NEW more \in Seq(Activities), ViewsTyped, EndsOnce, Writes(more), TurnsContinue, NoneEnds,
         \A k \in DOMAIN more : \A t : ~IsEnd(more[k], t)
  PROVE  EndsOnce'
<1>1. \A t : Ends(t)' = Ends(t)
  BY ViewsGrow
<1> SUFFICES ASSUME NEW t \in ViewTurns'
             PROVE  /\ IF turns'[t].told # "end" THEN Ends(t) = {} ELSE turns'[t].outcome # "running" /\ Ends(t) # {}
                    /\ \A e, f \in Ends(t) : e = f
  BY <1>1 DEF EndsOnce, Unfinished
<1>2. CASE t \in ViewTurns
  BY <1>2 DEF EndsOnce, Unfinished, TurnsContinue, NoneEnds
<1>3. CASE t \notin ViewTurns
  BY <1>3, NothingOfNone DEF NoneEnds
<1> QED
  BY <1>2, <1>3

\* The last message delivered is kept by a step that delivers none.
LEMMA DeliveredKept ==
  ASSUME NEW more \in Seq(Activities), ViewsTyped, ChainsTyped, DeliveredLast, Writes(more), TurnsContinue,
         \A k \in DOMAIN more : ~IsDelivered(more[k]),
         \A c \in Chains : Taken(c)' => Taken(c) /\ sending'[c].item = sending[c].item /\ sending'[c].turn = sending[c].turn
  PROVE  DeliveredLast'
<1>1. Delivered' = Delivered
  BY ViewsGrow
<1>2. Longer(more)
  BY JournalGrows DEF ViewsTyped
<1> SUFFICES ASSUME NEW c \in Chains, Taken(c)', Unfinished(sending[c].turn)'
             PROVE  \E m \in Delivered' : written'[m].item = sending'[c].item /\ \A n \in Delivered' : n <= m
  BY DEF DeliveredLast
<1>3. /\ Taken(c) /\ sending'[c].item = sending[c].item /\ sending'[c].turn = sending[c].turn
      /\ sending[c].turn \in ViewTurns
  BY DEF ChainsTyped, HasTurn
<1>4. Unfinished(sending[c].turn)
  BY <1>3 DEF Unfinished, TurnsContinue
<1>5. PICK m \in Delivered : written[m].item = sending[c].item /\ \A n \in Delivered : n <= m
  BY <1>3, <1>4 DEF DeliveredLast
<1>6. written'[m] = written[m]
  BY <1>2, ToldBefore DEF Longer
<1> QED
  BY <1>1, <1>3, <1>5, <1>6

\* A step keeps what AnsweredLast says of the answers there are if it delivers nothing while a turn
\* that has its answer is unfinished, and starts no such turn again after its end.
LEMMA AnswersKept ==
  ASSUME NEW more \in Seq(Activities), ViewsTyped, AnsweredLast, Writes(more), TurnsContinue,
         \A t \in ViewTurns, k \in DOMAIN more : Begun(t) # {} /\ turns[t].told = "end" => ~IsStart(more[k], t),
         \A t \in ViewTurns, k \in DOMAIN more : Begun(t) # {} /\ IsDelivered(more[k]) => turns[t].told = "end"
  PROVE  \A t \in ViewTurns' : \A i \in Begun(t) :
           (\A e \in Ends(t)' : i < e) => \E m \in Delivered' : m < i /\ Answering(t, m)'
<1>1. written' \in Seq(Activities) /\ Longer(more)
  BY JournalGrows DEF ViewsTyped
<1> SUFFICES ASSUME NEW t \in ViewTurns', NEW i \in Begun(t), \A e \in Ends(t)' : i < e
             PROVE  \E m \in Delivered' : m < i /\ Answering(t, m)'
  OBVIOUS
<1>2. i \in Begun(t) /\ Begun(t) # {}
  OBVIOUS
<1>3. t \in ViewTurns
  BY <1>2, NothingOfNone
<1>4. \A e \in Ends(t) : i < e
  BY ViewsGrow
<1>5. PICK m \in Delivered : m < i /\ Answering(t, m)
  BY <1>2, <1>3, <1>4 DEF AnsweredLast
<1>6. m \in Delivered' /\ m \in DOMAIN written /\ written'[m].item = turns'[t].of
  <2>1. m \in DOMAIN written /\ m \in Delivered'
    BY <1>5, ViewsGrow DEF Delivered
  <2> QED
    BY <1>1, <1>3, <1>5, <2>1 DEF Answering, Longer, TurnsContinue
<1>7. ASSUME NEW n \in Delivered', n > m PROVE turns'[t].told = "end" /\ \A k \in Starts(t)' : k < n
  <2>1. turns[t].told = "end"
    <3>1. CASE n \in Delivered
      BY <1>5, <1>7, <3>1 DEF Answering
    <3>2. CASE n \notin Delivered
      <4>1. n \in DOMAIN written' /\ n \notin DOMAIN written /\ IsDelivered(written'[n])
        BY <1>1, <3>2, ToldBefore, ToldAfter DEF Longer
      <4>2. n - Len(written) \in DOMAIN more /\ IsDelivered(more[n - Len(written)])
        BY <1>1, <4>1 DEF Longer
      <4> QED
        BY <1>2, <1>3, <4>2
    <3> QED
      BY <3>1, <3>2
  <2>2. Starts(t)' = Starts(t)
    BY <1>2, <1>3, <2>1, ViewsGrow
  <2>3. ASSUME NEW k \in Starts(t) PROVE k < n
    <3>1. CASE n \in Delivered
      BY <1>5, <1>7, <3>1, <2>3 DEF Answering
    <3>2. CASE n \notin Delivered
      <4>1. n \in DOMAIN written' /\ n \notin DOMAIN written
        BY <1>1, <3>2, ToldBefore, ToldAfter DEF Longer
      <4>2. n > Len(written)
        BY <1>1, <4>1 DEF Longer
      <4>3. k \in 1..Len(written) /\ Len(written) \in Nat /\ n \in Nat
        BY <1>1, <2>3, <4>1, ToldBefore DEF Longer
      <4> QED
        BY <4>2, <4>3
    <3> QED
      BY <3>1, <3>2
  <2> QED
    BY <1>3, <2>1, <2>2, <2>3 DEF TurnsContinue
<1> QED
  BY <1>5, <1>6, <1>7 DEF Answering

\* What was asked before a start is kept by a step that delivers only messages that have a turn, and that
\* starts only the last turn or one that is over.
LEMMA AskedKept ==
  ASSUME NEW more \in Seq(Activities), ViewsTyped, AskedBefore, Writes(more), TurnsContinue,
         \A k \in DOMAIN more : IsDelivered(more[k]) => \E u \in ViewTurns' : turns'[u].of = more[k].item,
         \A t \in ViewTurns', k \in DOMAIN more : IsStart(more[k], t) => Ends(t) # {} \/ \A u \in ViewTurns' : u <= t
  PROVE  AskedBefore'
<1>1. written' \in Seq(Activities) /\ Longer(more)
  BY JournalGrows DEF ViewsTyped
<1>2. ASSUME NEW m \in Delivered' PROVE \E u \in ViewTurns' : turns'[u].of = written'[m].item
  <2>1. CASE m \in Delivered
    <3>1. written'[m] = written[m]
      BY <1>1, <2>1, ToldBefore DEF Longer
    <3>2. PICK u \in ViewTurns : turns[u].of = written[m].item
      BY <2>1 DEF AskedBefore
    <3> QED
      BY <3>1, <3>2 DEF TurnsContinue
  <2>2. CASE m \notin Delivered
    <3>1. m \in DOMAIN written' /\ m \notin DOMAIN written /\ IsDelivered(written'[m])
      BY <1>1, <1>2, <2>2, ToldBefore, ToldAfter DEF Longer
    <3>2. m - Len(written) \in DOMAIN more /\ written'[m] = more[m - Len(written)]
      BY <1>1, <3>1 DEF Longer
    <3> QED
      BY <3>1, <3>2
  <2> QED
    BY <2>1, <2>2
<1>3. ASSUME NEW t \in ViewTurns', NEW k \in Starts(t)', NEW m \in Delivered', m < k, \A e \in Ends(t)' : k < e
      PROVE  \E u \in ViewTurns' : u <= t /\ turns'[u].of = written'[m].item
  <2>1. k \in DOMAIN written' /\ k \in Nat /\ m \in DOMAIN written' /\ m \in Nat /\ Len(written) \in Nat
        /\ DOMAIN written = 1..Len(written) /\ IsStart(written'[k], t)
    BY <1>1, <1>3, ToldAfter DEF Longer
  <2>2. CASE k \in DOMAIN written
    <3>1. k \in Starts(t) /\ \A e \in Ends(t) : k < e
      BY <1>1, <1>3, <2>1, <2>2, ToldBefore, ViewsGrow DEF Longer
    <3>2. m \in DOMAIN written /\ k <= Len(written)
      <4>1. m \notin DOMAIN written => m > Len(written)
        BY <1>1, <2>1 DEF Longer
      <4> QED
        BY <1>3, <2>1, <2>2, <4>1
    <3>3. m \in Delivered /\ written'[m] = written[m]
      BY <1>1, <1>3, <3>2, ToldBefore, ToldAfter DEF Longer
    <3>4. t \in ViewTurns
      BY <3>1, NothingOfNone
    <3>5. PICK u \in ViewTurns : u <= t /\ turns[u].of = written[m].item
      BY <1>3, <3>1, <3>3, <3>4 DEF AskedBefore
    <3> QED
      BY <3>3, <3>5 DEF TurnsContinue
  <2>3. CASE k \notin DOMAIN written
    <3>1. k > Len(written) /\ k - Len(written) \in DOMAIN more /\ IsStart(more[k - Len(written)], t)
      BY <1>1, <2>1, <2>3 DEF Longer
    <3>2. Ends(t) = {}
      <4> SUFFICES ASSUME NEW e \in Ends(t) PROVE FALSE
        OBVIOUS
      <4>1. e \in DOMAIN written /\ e \in Ends(t)'
        BY ToldBefore, ViewsGrow
      <4>2. k < e
        BY <1>3, <4>1
      <4> QED
        BY <2>1, <3>1, <4>1, <4>2
    <3>3. \A u \in ViewTurns' : u <= t
      BY <3>1, <3>2
    <3>4. PICK u \in ViewTurns' : turns'[u].of = written'[m].item
      BY <1>2
    <3> QED
      BY <3>3, <3>4
  <2> QED
    BY <2>2, <2>3
<1> QED
  BY <1>2, <1>3 DEF AskedBefore

\* Nothing that the activities tell is about a turn, and no message is delivered.
Quiet(more) == \A k \in DOMAIN more : more[k].is \notin {"turn/start", "turn/started", "turn/completed"} /\ ~IsDelivered(more[k])

\* A step that writes of no turn and delivers no message leaves answers and messages in order.
LEMMA QuietStep ==
  ASSUME NEW more \in Seq(Activities), ViewsTyped, ChainsTyped, Writes(more), Quiet(more), TurnsContinue
  PROVE  /\ \A t : Ends(t)' = Ends(t) /\ Begun(t)' = Begun(t)
         /\ Told /\ NoneEnds
              /\ (\A c \in Chains : Taken(c)' => Taken(c) /\ sending'[c].item = sending[c].item /\ sending'[c].turn = sending[c].turn)
              => Told'
<1>1. \A k \in DOMAIN more : \A t : ~IsStart(more[k], t) /\ ~IsEnd(more[k], t) /\ ~IsBegun(more[k], t) /\ ~IsDelivered(more[k])
  BY DEF Quiet, IsStart, IsEnd, IsBegun, Activity
<1>2. \A t : Ends(t)' = Ends(t) /\ Begun(t)' = Begun(t)
  BY <1>1, ViewsGrow
<1>3. ASSUME Told, NoneEnds,
             \A c \in Chains : Taken(c)' => Taken(c) /\ sending'[c].item = sending[c].item /\ sending'[c].turn = sending[c].turn
      PROVE  Told'
  <2>1. EndsOnce'
    BY <1>1, <1>3, EndsKept DEF Told
  <2>2. DeliveredLast'
    BY <1>1, <1>3, DeliveredKept DEF Told
  <2>3. AnsweredLast'
    <3>1. \A t \in ViewTurns' : \A i \in Begun(t) :
            (\A e \in Ends(t)' : i < e) => \E m \in Delivered' : m < i /\ Answering(t, m)'
      BY <1>1, <1>3, AnswersKept DEF Told
    <3> QED
      BY <1>2, <3>1 DEF AnsweredLast
  <2>4. AskedBefore'
    BY <1>1, <1>3, AskedKept DEF Told
  <2> QED
    BY <2>1, <2>2, <2>3, <2>4 DEF Told
<1> QED
  BY <1>2, <1>3

\* What the last conjuncts of OneAtATime say of a chain that a step leaves alone, or whose turn it keeps.
LEMMA BegunOfChain ==
  ASSUME NEW d \in Chains
  PROVE  Begun(sending[d].turn)' = {i \in DOMAIN written' : IsBegun(written'[i], sending'[d].turn)}
BY DEF Begun, IsBegun, Activity

\* What a step does to one chain, the other staying where it is: its send is over, or goes on, or it takes the next
\* message, which it announces.
Keeps(c) == sending' \in [Chains -> Sendings] /\ \A d \in Chains : d # c => sending'[d] = sending[d]
Rests(c) == sending'[c].step = "idle"
GoesOn(c) ==
  /\ Active(c) /\ sending'[c].item = sending[c].item /\ sending'[c].queued = sending[c].queued
  /\ AtFront(c)' => AtFront(c)
  /\ HasTurn(c)' => sending'[c].turn \in ViewTurns' /\ turns'[sending'[c].turn].of = sending[c].item
TakesNext(c) ==
  /\ sending'[c].step \in {"outbound", "asked"} /\ sending'[c].item \in ViewRequests
  /\ c = "event" => sending'[c].queued
  /\ \E j \in DOMAIN written' : j \notin DOMAIN written /\ written'[j] = Message("started", sending'[c].item)
  /\ activeView' = 0 /\ uncertain' = 0
  /\ IF sending'[c].queued THEN waiting' # <<>> /\ Head(waiting') = sending'[c].item ELSE waiting' = <<>>

\* The next step of a send, and its end.
LEMMA Going ==
  ASSUME ViewsTyped, NEW c \in Chains, NEW step \in Steps, Goes(c, step)
  PROVE  /\ Keeps(c) /\ sending'[c].step = step
         /\ sending'[c].item = sending[c].item /\ sending'[c].queued = sending[c].queued /\ sending'[c].turn = sending[c].turn
<1>1. sending \in [Chains -> Sendings] /\ sending' = [sending EXCEPT ![c].step = step]
  BY DEF ViewsTyped, Goes
<1> DEFINE new == [sending[c] EXCEPT !.step = step]
<1>2. sending[c] \in Sendings
  BY <1>1
<1>3. /\ new \in Sendings /\ new.step = step
      /\ new.item = sending[c].item /\ new.queued = sending[c].queued /\ new.turn = sending[c].turn
  BY <1>2 DEF Sendings
<1>4. sending' = [sending EXCEPT ![c] = new]
  BY <1>1
<1> HIDE DEF new
<1> QED
  BY <1>1, <1>3, <1>4 DEF Keeps

\* A send that is over leaves its chain at rest.
LEMMA Leaving ==
  ASSUME ViewsTyped, NEW c \in Chains, Leaves(c)
  PROVE  Keeps(c) /\ Rests(c)
<1>1. sending \in [Chains -> Sendings] /\ sending' = [sending EXCEPT ![c] = NotSending]
  BY DEF ViewsTyped, Leaves
<1>2. NotSending \in Sendings
  BY JournalViewsAssumption DEF NotSending, Sendings, Steps
<1> QED
  BY <1>1, <1>2 DEF Keeps, Rests, NotSending

\* A send that starts is of the message it is given.
LEMMA Starting ==
  ASSUME ViewsTyped, NEW c \in Chains, NEW r \in ViewRequests, NEW queued \in BOOLEAN,
         sending' = [sending EXCEPT ![c] = StartOf(r, queued)]
  PROVE  /\ Keeps(c) /\ sending'[c].step = (IF queued THEN "asked" ELSE "outbound")
         /\ sending'[c].item = r /\ sending'[c].queued = queued
<1> DEFINE new == StartOf(r, queued)
<1>1. new.step = (IF queued THEN "asked" ELSE "outbound") /\ new.item = r /\ new.queued = queued
  BY DEF StartOf, NotSending
<1>2. new \in Sendings
  <2>1. r \in 0..MaxViewRequests /\ 0 \in 0..MaxViewTurns
    BY JournalViewsAssumption DEF ViewRequests
  <2> QED
    BY <2>1 DEF StartOf, NotSending, Sendings, Steps
<1>3. sending \in [Chains -> Sendings] /\ sending' = [sending EXCEPT ![c] = new]
  BY DEF ViewsTyped
<1> HIDE DEF new
<1> QED
  BY <1>1, <1>2, <1>3 DEF Keeps

\* All that a drain writes: what it is given, and the message that it takes.
WritesAndTakes(more, all) ==
  /\ Writes(all)
  /\ \A k \in DOMAIN more : k \in DOMAIN all /\ all[k] = more[k]
  /\ \A k \in DOMAIN all : k \in DOMAIN more \/ \E r \in ViewRequests : all[k] = Message("started", r)

\* A drain writes what it is given, and after it the message that it takes, if there is one to take.
LEMMA DrainEffect ==
  ASSUME ViewsTyped, NEW c \in Chains, NEW more \in Seq(Activities), Drains(c, more), waiting' \in Seq(ViewRequests)
  PROVE  /\ Keeps(c) /\ (Rests(c) \/ TakesNext(c))
         /\ \E all \in Seq(Activities) : WritesAndTakes(more, all)
<1>1. CASE waiting' # <<>> /\ activeView' = 0 /\ uncertain' = 0
  <2> DEFINE r == Head(waiting')
             a == Message("started", r)
             all == Append(more, a)
             n == Len(more)
  <2>1. r \in ViewRequests
    BY <1>1
  <2>2. a \in Activities
    BY <2>1, TheActivities
  <2>3. Writes(all) /\ sending' = [sending EXCEPT ![c] = StartOf(r, TRUE)]
    BY <1>1 DEF Drains
  <2> HIDE DEF a
  <2>4. /\ all \in Seq(Activities) /\ n \in Nat /\ DOMAIN more = 1..n /\ DOMAIN all = 1..(n + 1)
        /\ all[n + 1] = a /\ \A k \in 1..n : all[k] = more[k]
    BY <2>2
  <2> HIDE DEF all, n, r
  <2>5. /\ Keeps(c) /\ sending'[c].step = "asked" /\ sending'[c].item = r /\ sending'[c].queued
    BY <2>1, <2>3, Starting
  <2>6. Longer(all)
    BY <2>3, <2>4, JournalGrows DEF ViewsTyped
  <2>7. \E j \in DOMAIN written' : j \notin DOMAIN written /\ written'[j] = Message("started", r)
    <3>1. n + 1 \in DOMAIN all /\ n + 1 > 0
      BY <2>4
    <3>2. Len(written) + (n + 1) \in DOMAIN written' /\ written'[Len(written) + (n + 1)] = a
      BY <2>4, <2>6, <3>1 DEF Longer
    <3>3. Len(written) + (n + 1) \notin DOMAIN written
      BY <2>4, <2>6 DEF Longer
    <3> QED
      BY <3>2, <3>3 DEF a
  <2>8. TakesNext(c)
    BY <1>1, <2>1, <2>5, <2>7 DEF TakesNext, r
  <2>9. \A k \in DOMAIN all : k \in DOMAIN more \/ \E q \in ViewRequests : all[k] = Message("started", q)
    BY <2>1, <2>4 DEF a
  <2>10. WritesAndTakes(more, all) /\ all \in Seq(Activities)
    BY <2>3, <2>4, <2>9 DEF WritesAndTakes
  <2> QED
    BY <2>5, <2>8, <2>10
<1>2. CASE ~(waiting' # <<>> /\ activeView' = 0 /\ uncertain' = 0)
  <2>1. Writes(more) /\ Leaves(c)
    BY <1>2 DEF Drains
  <2>2. WritesAndTakes(more, more)
    BY <2>1 DEF WritesAndTakes
  <2> QED
    BY <2>1, <2>2, Leaving
<1> QED
  BY <1>1, <1>2

\* What a chain sends was announced, and so on, whatever the step does to it.
LEMMA ChainsTypedKept ==
  ASSUME ViewsTyped, ChainsTyped, NEW c \in Chains, Keeps(c), NEW more \in Seq(Activities), Writes(more), TurnsContinue,
         Rests(c) \/ GoesOn(c) \/ TakesNext(c)
  PROVE  ChainsTyped'
<1>1. \A r : Announced(r) \subseteq Announced(r)'
  BY AnnouncedStays
<1> SUFFICES ASSUME NEW d \in Chains
             PROVE  /\ Active(d)' => sending'[d].item \in ViewRequests /\ Announced(sending[d].item)' # {}
                    /\ d = "event" /\ Active(d)' => sending'[d].queued
                    /\ HasTurn(d)' => sending'[d].turn \in ViewTurns' /\ turns'[sending'[d].turn].of = sending'[d].item
  BY DEF ChainsTyped
<1>2. CASE d # c
  <2>1. sending'[d] = sending[d]
    BY <1>2 DEF Keeps
  <2>2. (Active(d)' <=> Active(d)) /\ (HasTurn(d)' <=> HasTurn(d))
    BY <2>1 DEF Active, HasTurn, Taken
  <2>3. Announced(sending[d].item)' = {i \in DOMAIN written' : written'[i] = Message("started", sending[d].item)}
    BY <2>1 DEF Announced, Message, Activity
  <2>4. Announced(sending[d].item) = {i \in DOMAIN written : written[i] = Message("started", sending[d].item)}
    BY DEF Announced
  <2>5. Longer(more)
    BY JournalGrows DEF ViewsTyped
  <2>6. Announced(sending[d].item) # {} => Announced(sending[d].item)' # {}
    BY <2>3, <2>4, <2>5 DEF Longer
  <2> QED
    BY <2>1, <2>2, <2>6 DEF ChainsTyped, TurnsContinue
<1>3. CASE d = c /\ Rests(c)
  BY <1>3 DEF Rests, NotSending, Active, HasTurn, Taken
<1>4. CASE d = c /\ GoesOn(c)
  <2>3. Announced(sending[d].item)' = {i \in DOMAIN written' : written'[i] = Message("started", sending[d].item)}
    BY <1>4 DEF Announced, Message, Activity, GoesOn
  <2>4. Announced(sending[d].item) = {i \in DOMAIN written : written[i] = Message("started", sending[d].item)}
    BY DEF Announced
  <2>5. Longer(more)
    BY JournalGrows DEF ViewsTyped
  <2>6. Announced(sending[d].item) # {} => Announced(sending[d].item)' # {}
    BY <2>3, <2>4, <2>5 DEF Longer
  <2> QED
    BY <1>4, <2>6 DEF ChainsTyped, GoesOn
<1>5. CASE d = c /\ TakesNext(c)
  <2>1. Announced(sending[d].item)' = {i \in DOMAIN written' : written'[i] = Message("started", sending'[d].item)}
    BY DEF Announced, Message, Activity
  <2> QED
    BY <1>5, <2>1 DEF TakesNext, Active, HasTurn, Taken
<1> QED
  BY <1>2, <1>3, <1>4, <1>5

\* The chains stay apart if the message at the front stays where it is.  A chain cannot take the message that the
\* other sends: it would be announced twice.
LEMMA ApartKept ==
  ASSUME ViewsTyped, ChainsTyped, ChainsApart, NEW c \in Chains, Keeps(c), NEW more \in Seq(Activities), Writes(more), SentOnce',
         Rests(c) \/ GoesOn(c) \/ TakesNext(c),
         \A d \in Chains : (GoesOn(c) /\ d = c) \/ d # c => Fronted(d)'
  PROVE  ChainsApart'
<1>1. \A d \in Chains : d # c => sending'[d] = sending[d]
  BY DEF Keeps
<1>2. ASSUME NEW d \in Chains PROVE Fronted(d)'
  <2>1. CASE d = c /\ Rests(c)
    BY <2>1 DEF Rests, NotSending, Fronted, AtFront
  <2>2. CASE d = c /\ TakesNext(c)
    BY <2>2 DEF TakesNext, Fronted
  <2> QED
    BY <2>1, <2>2
<1>3. ASSUME NEW d \in Chains, c # d, Active(c)', Active(d)'
      PROVE  ~(AtFront(c)' /\ AtFront(d)') /\ sending'[c].item # sending'[d].item
  <2>1. sending'[d] = sending[d] /\ Active(d) /\ (AtFront(d)' <=> AtFront(d))
    BY <1>1, <1>3 DEF Active, AtFront
  <2>2. CASE Rests(c)
    BY <1>3, <2>2 DEF Rests, NotSending, Active
  <2>3. CASE GoesOn(c)
    BY <1>3, <2>1, <2>3 DEF GoesOn, ChainsApart
  <2>4. CASE TakesNext(c)
    <3>1. sending[d].item \in ViewRequests /\ Announced(sending[d].item) # {}
      BY <2>1 DEF ChainsTyped
    <3>2. PICK j \in DOMAIN written' : j \notin DOMAIN written /\ written'[j] = Message("started", sending'[c].item)
      BY <2>4 DEF TakesNext
    <3>3. sending'[c].item # sending[d].item
      BY <3>1, <3>2, AnnouncedOnce
    <3>4. ASSUME AtFront(d)' PROVE FALSE
      <4>1. IF sending'[d].queued THEN waiting' # <<>> /\ Head(waiting') = sending'[d].item ELSE waiting' = <<>>
        BY <1>2, <3>4 DEF Fronted
      <4>2. c = "event" => sending'[c].queued
        BY <2>4 DEF TakesNext
      <4>3. d = "event" => sending'[d].queued
        BY <2>1 DEF ChainsTyped
      <4>4. c = "event" \/ d = "event"
        BY <1>3 DEF Chains
      <4> QED
        BY <2>1, <2>4, <3>3, <4>1, <4>2, <4>3, <4>4 DEF TakesNext
    <3> QED
      BY <2>1, <3>3, <3>4
  <2> QED
    BY <2>2, <2>3, <2>4
<1>4. ASSUME NEW a \in Chains, NEW b \in Chains, a # b, Active(a)', Active(b)'
      PROVE  ~(AtFront(a)' /\ AtFront(b)') /\ sending'[a].item # sending'[b].item
  <2>1. CASE a = c
    BY <1>3, <1>4, <2>1
  <2>2. CASE b = c
    BY <1>3, <1>4, <2>2
  <2>3. CASE a # c /\ b # c
    <3>1. sending'[a] = sending[a] /\ sending'[b] = sending[b]
      BY <1>1, <2>3
    <3> QED
      BY <1>4, <3>1 DEF ChainsApart, Active, AtFront
  <2> QED
    BY <2>1, <2>2, <2>3
<1> QED
  BY <1>2, <1>4 DEF ChainsApart

\* The part of the types that a step leaves to see to.
LEMMA ViewsTypedKept ==
  ASSUME ViewsTyped, NEW more \in Seq(Activities), Writes(more), TurnsContinue,
         \A k \in DOMAIN more : more[k].turn \in 0..Len(turns'),
         sending' \in [Chains -> Sendings], waiting' \in Seq(ViewRequests), activeView' \in 0..Len(turns'),
         uncertain' \in ViewRequests \union {0}
  PROVE  ViewsTyped'
<1>1. written' \in Seq(Activities) /\ \A i \in DOMAIN written' : written'[i].turn \in 0..Len(turns')
  BY TurnsKnown DEF TurnsContinue
<1> QED
  BY <1>1 DEF ViewsTyped, TurnsContinue

\* A step that is not about turns keeps the invariant if what is at the front stays there, and if what a chain takes,
\* or no longer holds for uncertain, leaves no turn unfinished.
LEMMA QuietChainStep ==
  ASSUME ViewsInv, NEW c \in Chains, Keeps(c), Rests(c) \/ GoesOn(c) \/ TakesNext(c),
         NEW more \in Seq(Activities), Writes(more), Quiet(more), \A k \in DOMAIN more : more[k].turn \in 0..Len(turns),
         UNCHANGED <<turns, activeView>>, waiting' \in Seq(ViewRequests), uncertain' \in {uncertain, 0},
         sending[c].step # "answered",
         ~TakesNext(c) => /\ sending'[c].step \notin {"answered", "asked"} \/ sending[c].step = "outbound"
                          /\ sending'[c].step # "outbound"
                          /\ HasTurn(c)' => Taken(c) /\ sending'[c].turn = sending[c].turn,
         ViewsSound /\ (TakesNext(c) \/ uncertain' # uncertain) => \A t \in ViewTurns : ~Unfinished(t),
         ViewsSound => \A d \in Chains : (GoesOn(c) /\ d = c) \/ d # c => Fronted(d)'
  PROVE  ViewsInv'
<1>1. ViewsTyped /\ ChainsTyped
  BY DEF ViewsInv
<1>2. TurnsContinue /\ NoneEnds /\ ViewTurns' = ViewTurns /\ Len(turns) \in Nat /\ turns' = turns
  BY <1>1, TurnsStay
<1>3. ViewsTyped'
  BY <1>1, <1>2, ViewsTypedKept DEF ViewsTyped, Keeps
<1>4. ChainsTyped'
  BY <1>1, <1>2, ChainsTypedKept
<1>5. ASSUME SentOnce' PROVE ViewsSound'
  <2>1. ViewsSound
    BY <1>1, <1>5, SentOnceBefore DEF ViewsInv
  <2>2. ChainsApart'
    BY <1>1, <1>5, <2>1, ApartKept DEF ViewsSound
  <2>3. \A d \in Chains : Taken(d)' => Taken(d) /\ sending'[d].item = sending[d].item /\ sending'[d].turn = sending[d].turn
    <3>1. ASSUME NEW d \in Chains, d # c, Taken(d)' PROVE Taken(d) /\ sending'[d] = sending[d]
      BY <3>1 DEF Keeps, Taken
    <3>2. ASSUME Taken(c)' PROVE Taken(c) /\ sending'[c].item = sending[c].item /\ sending'[c].turn = sending[c].turn
      <4>1. ~TakesNext(c) /\ ~Rests(c)
        BY <3>2 DEF TakesNext, Rests, NotSending, Taken
      <4> QED
        BY <3>2, <4>1 DEF GoesOn, HasTurn
    <3> QED
      BY <3>1, <3>2
  <2>4. Told' /\ \A t : Ends(t)' = Ends(t) /\ Begun(t)' = Begun(t)
    BY <1>1, <1>2, <2>1, <2>3, QuietStep DEF ViewsSound
  <2>5. OneAtATime'
    <3>1. OneAtATime
      BY <2>1 DEF ViewsSound
    <3>2. \A t \in ViewTurns : Unfinished(t)' <=> Unfinished(t)
      BY <1>2 DEF Unfinished
    <3>3. ASSUME NEW d \in Chains
          PROVE  /\ HasTurn(d)' => HasTurn(d) /\ sending'[d].turn = sending[d].turn
                 /\ sending'[d].step = "answered" <=> sending[d].step = "answered"
      <4>1. CASE d # c
        BY <4>1 DEF Keeps, HasTurn, Taken
      <4>2. CASE d = c /\ TakesNext(c)
        BY <4>2 DEF TakesNext, HasTurn, Taken
      <4>3. CASE d = c /\ Rests(c)
        BY <4>3 DEF Rests, NotSending, HasTurn, Taken
      <4>4. CASE d = c /\ ~TakesNext(c) /\ ~Rests(c)
        BY <4>4 DEF HasTurn, Taken
      <4> QED
        BY <4>1, <4>2, <4>3, <4>4
    <3>4. ASSUME NEW d \in Chains, sending'[d].step \in {"outbound", "asked"} PROVE \A t \in ViewTurns : ~Unfinished(t)
      <4>1. CASE d # c
        <5>1. sending'[d] = sending[d]
          BY <4>1 DEF Keeps
        <5> QED
          BY <3>1, <3>4, <5>1 DEF OneAtATime
      <4>2. CASE d = c /\ TakesNext(c)
        BY <2>1, <4>2
      <4>3. CASE d = c /\ ~TakesNext(c)
        BY <3>1, <3>4, <4>3 DEF OneAtATime
      <4> QED
        BY <4>1, <4>2, <4>3
    <3>5. ASSUME NEW t \in ViewTurns, Unfinished(t)
          PROVE  /\ t = Len(turns)
                 /\ (\E d \in Chains : sending'[d].step = "answered") \/ activeView' = t \/ uncertain' # 0
                 /\ uncertain' # 0 => /\ Begun(t) = {} /\ turns[t].of = uncertain'
                                      /\ \A d \in Chains : HasTurn(d)' => sending'[d].turn # t
      <4>1. uncertain' = uncertain
        BY <2>1, <3>5
      <4> QED
        BY <3>1, <3>3, <3>5, <4>1 DEF OneAtATime
    <3>6. \A d \in Chains : HasTurn(d)' => Begun(sending[d].turn)' = {}
      BY <2>4, <3>1, <3>3, BegunOfChain, ToldBefore, ToldAfter DEF OneAtATime
    <3>7. ASSUME NEW t \in ViewTurns', Unfinished(t)'
          PROVE  /\ t = Len(turns')
                 /\ (\E d \in Chains : sending'[d].step = "answered") \/ activeView' = t \/ uncertain' # 0
                 /\ uncertain' # 0 => /\ Begun(t)' = {} /\ turns'[t].of = uncertain'
                                      /\ \A d \in Chains : HasTurn(d)' => sending'[d].turn # t
      <4>1. t \in ViewTurns /\ Unfinished(t) /\ Begun(t)' = Begun(t)
        BY <1>2, <2>4, <3>2, <3>7
      <4> QED
        BY <1>2, <3>5, <4>1
    <3>8. ASSUME NEW d \in Chains
          PROVE  /\ sending'[d].step \in {"outbound", "asked"} => \A t \in ViewTurns' : ~Unfinished(t)'
                 /\ sending'[d].step = "answered" => sending'[d].turn = Len(turns')
      <4>1. sending'[d].step \in {"outbound", "asked"} => \A t \in ViewTurns' : ~Unfinished(t)'
        BY <1>2, <3>2, <3>4
      <4>2. ASSUME sending'[d].step = "answered" PROVE sending'[d].turn = Len(turns')
        <5>1. sending[d].step = "answered" /\ sending'[d].turn = sending[d].turn
          BY <3>3, <4>2 DEF HasTurn
        <5> QED
          BY <1>2, <3>1, <5>1 DEF OneAtATime
      <4> QED
        BY <4>1, <4>2
    <3> QED
      BY <3>6, <3>7, <3>8 DEF OneAtATime
  <2> QED
    BY <2>2, <2>4, <2>5 DEF ViewsSound
<1> QED
  BY <1>3, <1>4, <1>5 DEF ViewsInv

\* What is left of the queue once a message is settled.
LEMMA UnqueuedIs ==
  ASSUME ViewsTyped, NEW r
  PROVE  /\ Unqueued(r) \in Seq(ViewRequests)
         /\ waiting = <<>> \/ Head(waiting) # r => Unqueued(r) = waiting
         /\ waiting # <<>> => Head(waiting) \in ViewRequests
BY DEF ViewsTyped, Unqueued

\* A chain at the front is alone there.
LEMMA FrontAlone ==
  ASSUME ViewsSound, NEW c \in Chains, AtFront(c), NEW d \in Chains, d # c
  PROVE  ~AtFront(d)
BY DEF ViewsSound, ChainsApart, Active, AtFront

\* A message that the user sends, at once or into the queue, keeps the invariant.
LEMMA Submits ==
  ASSUME ViewsInv, NEW r \in ViewRequests, SubmitRequest(r)
  PROVE  ViewsInv'
<1>1. ViewsTyped /\ ChainsTyped
  BY DEF ViewsInv
<1>2. /\ UNCHANGED <<turns, activeView>> /\ uncertain' = uncertain /\ sending["command"].step = "idle"
      /\ uncertain' \in {uncertain, 0} /\ "command" \in Chains /\ "event" \in Chains
      /\ \A d \in Chains : d # "command" => d = "event"
  BY DEF SubmitRequest, Chains
<1>3. waiting \in Seq(ViewRequests) /\ sending \in [Chains -> Sendings] /\ Len(turns) \in Nat
  BY <1>1 DEF ViewsTyped
<1>4. CASE activeView # 0 \/ waiting # <<>> \/ uncertain # 0
  <2> DEFINE a == RequestRecord("request/submitted", r, 0)
             b == RequestRecord("request/queued", r, 0)
             more == <<a, b>>
  <2>1. Writes(more) /\ waiting' = Append(waiting, r) /\ sending' = sending
    BY <1>4 DEF SubmitRequest
  <2>2. a \in Activities /\ b \in Activities
    BY TheActivities, JournalViewsAssumption
  <2>3. more \in Seq(Activities) /\ DOMAIN more = {1, 2} /\ more[1] = a /\ more[2] = b
    BY <2>2
  <2>4. Quiet(more) /\ \A k \in DOMAIN more : more[k].turn \in 0..Len(turns)
    BY <1>3, <2>3 DEF Quiet, IsDelivered, RequestRecord, Activity
  <2> HIDE DEF more
  <2>5. Keeps("command") /\ Rests("command") /\ ~TakesNext("command") /\ ~HasTurn("command")'
    BY <1>2, <1>3, <2>1 DEF Keeps, Rests, TakesNext, HasTurn, Taken
  <2>6. waiting' \in Seq(ViewRequests) /\ (waiting # <<>> => waiting' # <<>> /\ Head(waiting') = Head(waiting))
    BY <1>3, <2>1
  <2>7. ViewsSound => Fronted("event")'
    <3> SUFFICES ASSUME ViewsSound, AtFront("event") PROVE Fronted("event")'
      BY <2>1 DEF Fronted, AtFront
    <3>1. sending["event"].queued
      BY <1>1, <1>2 DEF ChainsTyped, Active, AtFront
    <3>2. uncertain = 0 /\ waiting # <<>> /\ Head(waiting) = sending["event"].item
      BY <1>2, <3>1 DEF ViewsSound, ChainsApart, Fronted
    <3> QED
      BY <1>2, <2>1, <2>6, <3>1, <3>2 DEF Fronted
  <2>8. sending'["command"].step = "idle"
    BY <1>2, <2>1
  <2>9. \A d \in Chains : (GoesOn("command") /\ d = "command") \/ d # "command" => d = "event"
    BY <1>2 DEF GoesOn, Active
  <2>10. ViewsSound => \A d \in Chains : (GoesOn("command") /\ d = "command") \/ d # "command" => Fronted(d)'
    BY <2>7, <2>9
  <2> QED
    BY <1>1, <1>2, <2>1, <2>3, <2>4, <2>5, <2>6, <2>8, <2>10, QuietChainStep
<1>5. CASE ~(activeView # 0 \/ waiting # <<>> \/ uncertain # 0)
  <2> DEFINE a == Message("started", r)
             more == <<a>>
  <2>1. Writes(more) /\ waiting' = waiting /\ sending' = [sending EXCEPT !["command"] = StartOf(r, FALSE)]
    BY <1>5 DEF SubmitRequest
  <2>2. a \in Activities
    BY TheActivities
  <2>3. more \in Seq(Activities) /\ DOMAIN more = {1} /\ more[1] = a
    BY <2>2
  <2>4. Quiet(more) /\ \A k \in DOMAIN more : more[k].turn \in 0..Len(turns)
    BY <1>3, <2>3 DEF Quiet, IsDelivered, Message, Activity
  <2> HIDE DEF more
  <2>5. /\ Keeps("command") /\ sending'["command"].step = "outbound"
        /\ sending'["command"].item = r /\ ~sending'["command"].queued
    BY <1>1, <1>2, <2>1, Starting
  <2>6. TakesNext("command")
    <3>1. Longer(more)
      BY <1>1, <2>1, <2>3, JournalGrows DEF ViewsTyped
    <3>2. Len(written) + 1 \in DOMAIN written' /\ written'[Len(written) + 1] = a /\ Len(written) + 1 \notin DOMAIN written
      BY <2>3, <3>1 DEF Longer
    <3>3. waiting' = <<>> /\ activeView' = 0 /\ uncertain' = 0
      BY <1>2, <1>5, <2>1
    <3> QED
      BY <2>5, <3>2, <3>3 DEF TakesNext
  <2>7. ViewsSound => ~AtFront("event")
    BY <1>1, <1>2, <1>5 DEF ViewsSound, ChainsApart, ChainsTyped, Fronted, Active, AtFront
  <2>8. ViewsSound => \A t \in ViewTurns : ~Unfinished(t)
    <3> SUFFICES ASSUME ViewsSound, NEW t \in ViewTurns, Unfinished(t) PROVE FALSE
      OBVIOUS
    <3>1. t # 0
      BY <1>1 DEF ViewsTyped, ViewTurns
    <3>2. \A d \in Chains : sending[d].step # "answered"
      BY <1>2, <2>7 DEF AtFront
    <3> QED
      BY <1>5, <3>1, <3>2 DEF ViewsSound, OneAtATime
  <2>9. ViewsSound => Fronted("event")'
    <3>1. sending'["event"] = sending["event"]
      BY <1>2, <2>5 DEF Keeps
    <3> QED
      BY <2>7, <3>1 DEF Fronted, AtFront
  <2>10. ViewsSound => \A d \in Chains : (GoesOn("command") /\ d = "command") \/ d # "command" => Fronted(d)'
    BY <1>2, <2>9 DEF GoesOn, Active
  <2> QED
    BY <1>1, <1>2, <1>3, <2>1, <2>3, <2>4, <2>5, <2>6, <2>8, <2>10, QuietChainStep
<1> QED
  BY <1>4, <1>5

\* The second record of a message that is sent at once keeps it.
LEMMA WritesOutbound ==
  ASSUME ViewsInv, WriteOutbound
  PROVE  ViewsInv'
<1> DEFINE c == "command"
           a == RequestRecord("request/submitted", sending[c].item, 0)
           more == <<a>>
<1>1. ViewsTyped /\ ChainsTyped /\ c \in Chains
  BY DEF ViewsInv, Chains
<1>2. /\ UNCHANGED <<turns, activeView>> /\ uncertain' = uncertain /\ waiting' = waiting
      /\ sending[c].step = "outbound" /\ Goes(c, "asked") /\ Writes(more)
  BY DEF WriteOutbound
<1>3. waiting \in Seq(ViewRequests) /\ Len(turns) \in Nat /\ sending[c].item \in ViewRequests
  BY <1>1, <1>2 DEF ViewsTyped, ChainsTyped, Active
<1>4. a \in Activities
  BY <1>3, TheActivities, JournalViewsAssumption
<1>5. more \in Seq(Activities) /\ DOMAIN more = {1} /\ more[1] = a
  BY <1>4
<1>6. Quiet(more) /\ \A k \in DOMAIN more : more[k].turn \in 0..Len(turns)
  BY <1>3, <1>5 DEF Quiet, IsDelivered, RequestRecord, Activity
<1> HIDE DEF more, a, c
<1>7. /\ Keeps(c) /\ sending'[c].step = "asked" /\ sending'[c].item = sending[c].item
      /\ sending'[c].queued = sending[c].queued /\ sending'[c].turn = sending[c].turn
  <2>1. "asked" \in Steps
    BY DEF Steps
  <2> QED
    BY <1>1, <1>2, <2>1, Going
<1>8. ~HasTurn(c)'
  BY <1>7 DEF HasTurn, Taken
<1>9. GoesOn(c)
  BY <1>2, <1>7, <1>8 DEF GoesOn, Active, AtFront
<1>10. \A t \in ViewTurns : ViewsSound => ~Unfinished(t)
  BY <1>1, <1>2 DEF ViewsSound, OneAtATime
<1>11. ViewsSound => \A d \in Chains : Fronted(d)'
  <2> SUFFICES ASSUME ViewsSound, NEW d \in Chains PROVE Fronted(d)'
    OBVIOUS
  <2>1. Fronted(d)
    BY DEF ViewsSound, ChainsApart
  <2>2. CASE d = c
    BY <1>2, <1>7, <2>1, <2>2 DEF Fronted, AtFront
  <2>3. CASE d # c
    <3>1. sending'[d] = sending[d]
      BY <1>7, <2>3 DEF Keeps
    <3> QED
      BY <1>2, <2>1, <3>1 DEF Fronted, AtFront
  <2> QED
    BY <2>2, <2>3
<1> QED
  BY <1>1, <1>2, <1>3, <1>5, <1>6, <1>7, <1>8, <1>9, <1>10, <1>11, QuietChainStep

\* A refusal keeps it, although the drain may take the next message in the same step.
LEMMA Refuses ==
  ASSUME ViewsInv, NEW c \in Chains, SendRefused(c)
  PROVE  ViewsInv'
<1> DEFINE a == RequestRecord("request/failed", sending[c].item, 0)
           b == Message("failed", sending[c].item)
           more == <<a, b>>
<1>1. ViewsTyped /\ ChainsTyped
  BY DEF ViewsInv
<1>2. /\ UNCHANGED <<turns, activeView>> /\ uncertain' = uncertain /\ waiting' = Unqueued(sending[c].item)
      /\ sending[c].step = "asked"
      /\ IF sending[c].queued THEN Drains(c, more) ELSE Writes(more) /\ Leaves(c)
  BY DEF SendRefused
<1>3. waiting' \in Seq(ViewRequests) /\ Len(turns) \in Nat /\ sending[c].item \in ViewRequests
  BY <1>1, <1>2, UnqueuedIs DEF ViewsTyped, ChainsTyped, Active
<1>4. a \in Activities /\ b \in Activities
  BY <1>3, TheActivities, JournalViewsAssumption
<1>5. more \in Seq(Activities) /\ DOMAIN more = {1, 2} /\ more[1] = a /\ more[2] = b
  BY <1>4
<1>6. \A k \in DOMAIN more : more[k].is \notin {"turn/start", "turn/started", "turn/completed"} /\ ~IsDelivered(more[k]) /\ more[k].turn = 0
  BY <1>5 DEF IsDelivered, RequestRecord, Message, Activity
<1> HIDE DEF more, a, b
<1>7. /\ Keeps(c) /\ (Rests(c) \/ TakesNext(c))
      /\ \E all \in Seq(Activities) : Writes(all) /\ Quiet(all) /\ \A k \in DOMAIN all : all[k].turn \in 0..Len(turns)
  <2>1. CASE sending[c].queued
    <3>1. Keeps(c) /\ (Rests(c) \/ TakesNext(c))
      BY <1>1, <1>2, <1>3, <1>5, <2>1, DrainEffect
    <3>2. \E all \in Seq(Activities) : WritesAndTakes(more, all)
      BY <1>1, <1>2, <1>3, <1>5, <2>1, DrainEffect
    <3> PICK all \in Seq(Activities) : WritesAndTakes(more, all)
      BY <3>2
    <3>3. \A k \in DOMAIN all : all[k].is \notin {"turn/start", "turn/started", "turn/completed"} /\ ~IsDelivered(all[k]) /\ all[k].turn = 0
      <4>1. \A r : LET m == Message("started", r) IN m.is = "message" /\ ~IsDelivered(m) /\ m.turn = 0
        BY DEF Message, Activity, IsDelivered
      <4> QED
        BY <1>6, <4>1 DEF WritesAndTakes
    <3> QED
      BY <1>3, <3>1, <3>3 DEF Quiet, WritesAndTakes
  <2>2. CASE ~sending[c].queued
    <3>1. Writes(more) /\ Quiet(more) /\ \A k \in DOMAIN more : more[k].turn \in 0..Len(turns)
      BY <1>2, <1>3, <1>6, <2>2 DEF Quiet
    <3> QED
      BY <1>1, <1>2, <1>5, <2>2, <3>1, Leaving
  <2> QED
    BY <2>1, <2>2
<1>8. PICK all \in Seq(Activities) : Writes(all) /\ Quiet(all) /\ \A k \in DOMAIN all : all[k].turn \in 0..Len(turns)
  BY <1>7
<1>9. ViewsSound => \A t \in ViewTurns : ~Unfinished(t)
  BY <1>2 DEF ViewsSound, OneAtATime
<1>10. ViewsSound => \A d \in Chains : d # c => Fronted(d)'
  <2> SUFFICES ASSUME ViewsSound, NEW d \in Chains, d # c PROVE Fronted(d)'
    OBVIOUS
  <2>1. ~AtFront(d) /\ sending'[d] = sending[d]
    BY <1>2, <1>7, FrontAlone DEF AtFront, Keeps
  <2> QED
    BY <2>1 DEF Fronted, AtFront
<1>11. ~TakesNext(c) => sending'[c].step = "idle" /\ ~HasTurn(c)'
  BY <1>7 DEF Rests, HasTurn, Taken
<1>12. ViewsSound => \A d \in Chains : (GoesOn(c) /\ d = c) \/ d # c => Fronted(d)'
  <2>1. Rests(c) => Fronted(c)'
    BY DEF Rests, Fronted, AtFront
  <2>2. TakesNext(c) => Fronted(c)'
    BY DEF TakesNext, Fronted
  <2> QED
    BY <1>7, <1>10, <2>1, <2>2
<1> QED
  BY <1>1, <1>2, <1>3, <1>7, <1>8, <1>9, <1>11, <1>12, QuietChainStep

\* The record that a lost answer still owes keeps it.
LEMMA WritesLost ==
  ASSUME ViewsInv, NEW c \in Chains, WriteLost(c)
  PROVE  ViewsInv'
<1> DEFINE a == Message("failed", sending[c].item)
           more == <<a>>
<1>1. ViewsTyped /\ ChainsTyped
  BY DEF ViewsInv
<1>2. /\ UNCHANGED <<turns, activeView>> /\ uncertain' = uncertain /\ waiting' = Unqueued(sending[c].item)
      /\ sending[c].step = "lost" /\ Leaves(c) /\ Writes(more)
  BY DEF WriteLost
<1>3. waiting' \in Seq(ViewRequests) /\ Len(turns) \in Nat /\ sending[c].item \in ViewRequests
  BY <1>1, <1>2, UnqueuedIs DEF ViewsTyped, ChainsTyped, Active
<1>4. a \in Activities
  BY <1>3, TheActivities
<1>5. more \in Seq(Activities) /\ DOMAIN more = {1} /\ more[1] = a
  BY <1>4
<1>6. Quiet(more) /\ \A k \in DOMAIN more : more[k].turn \in 0..Len(turns)
  BY <1>3, <1>5 DEF Quiet, IsDelivered, Message, Activity
<1> HIDE DEF more, a
<1>7. Keeps(c) /\ Rests(c) /\ ~TakesNext(c) /\ ~HasTurn(c)' /\ sending'[c].step = "idle"
  <2>1. Keeps(c) /\ Rests(c)
    BY <1>1, <1>2, Leaving
  <2> QED
    BY <2>1 DEF Rests, TakesNext, HasTurn, Taken
<1>8. ViewsSound => \A d \in Chains : Fronted(d)'
  <2> SUFFICES ASSUME ViewsSound, NEW d \in Chains, AtFront(d)' PROVE Fronted(d)'
    BY DEF Fronted
  <2>1. d # c /\ sending'[d] = sending[d] /\ AtFront(d)
    BY <1>7 DEF Keeps, AtFront
  <2>2. Fronted(d) /\ sending[d].item # sending[c].item
    BY <1>2, <2>1 DEF ViewsSound, ChainsApart, Active, AtFront
  <2>3. waiting' = waiting
    BY <1>1, <1>2, <2>1, <2>2, UnqueuedIs DEF Fronted
  <2> QED
    BY <1>2, <2>1, <2>2, <2>3 DEF Fronted
<1> QED
  BY <1>1, <1>2, <1>3, <1>5, <1>6, <1>7, <1>8, QuietChainStep

\* The record that a request has started keeps it.
LEMMA WritesStart ==
  ASSUME ViewsInv, NEW c \in Chains, WriteAccepted(c), sending[c].step = "accepted"
  PROVE  ViewsInv'
<1> DEFINE a == RequestRecord("request/started", sending[c].item, sending[c].turn)
           more == <<a>>
<1>1. ViewsTyped /\ ChainsTyped
  BY DEF ViewsInv
<1>2. /\ UNCHANGED <<turns, activeView>> /\ uncertain' = uncertain /\ waiting' = waiting
      /\ Goes(c, "started") /\ Writes(more)
  BY DEF WriteAccepted
<1>3. /\ waiting \in Seq(ViewRequests) /\ Len(turns) \in Nat /\ Len(turns) <= MaxViewTurns /\ sending[c].item \in ViewRequests
      /\ sending[c].turn \in 0..Len(turns) /\ sending[c].turn \in ViewTurns /\ turns[sending[c].turn].of = sending[c].item
  <2>1. sending[c].item \in ViewRequests /\ sending[c].turn \in ViewTurns /\ turns[sending[c].turn].of = sending[c].item
    BY <1>1 DEF ChainsTyped, Active, HasTurn, Taken
  <2> QED
    BY <1>1, <2>1 DEF ViewsTyped, ViewTurns
<1>4. a \in Activities
  <2>1. sending[c].turn \in 0..MaxViewTurns
    BY <1>3, JournalViewsAssumption
  <2> QED
    BY <1>3, <2>1, TheActivities
<1>5. more \in Seq(Activities) /\ DOMAIN more = {1} /\ more[1] = a
  BY <1>4
<1>6. Quiet(more) /\ \A k \in DOMAIN more : more[k].turn \in 0..Len(turns)
  BY <1>3, <1>5 DEF Quiet, IsDelivered, RequestRecord, Activity
<1> HIDE DEF more, a
<1>7. /\ Keeps(c) /\ sending'[c].step = "started" /\ sending'[c].item = sending[c].item
      /\ sending'[c].queued = sending[c].queued /\ sending'[c].turn = sending[c].turn
  <2>1. "started" \in Steps
    BY DEF Steps
  <2> QED
    BY <1>1, <1>2, <2>1, Going
<1>8. GoesOn(c) /\ Taken(c) /\ ~TakesNext(c)
  BY <1>2, <1>3, <1>7 DEF GoesOn, Active, AtFront, Taken, TakesNext, ViewTurns
<1>9. ViewsSound => \A d \in Chains : Fronted(d)'
  <2> SUFFICES ASSUME ViewsSound, NEW d \in Chains, AtFront(d)' PROVE Fronted(d)'
    BY DEF Fronted
  <2>1. d # c /\ sending'[d] = sending[d] /\ AtFront(d)
    BY <1>7 DEF Keeps, AtFront
  <2>2. Fronted(d)
    BY DEF ViewsSound, ChainsApart
  <2> QED
    BY <1>2, <2>1, <2>2 DEF Fronted
<1> QED
  BY <1>1, <1>2, <1>3, <1>5, <1>6, <1>7, <1>8, <1>9, QuietChainStep

\* A reconciliation that gives the message up keeps it: no turn is unfinished then.
LEMMA GivesUp ==
  ASSUME ViewsInv, uncertain # 0, sending["command"].step = "idle", uncertain' = 0, waiting' = Unqueued(uncertain),
         \A t \in ViewTurns : turns[t].told = "end", UNCHANGED <<activeView, turns>>,
         Drains("command", <<Message("cancelled", uncertain)>>)
  PROVE  ViewsInv'
<1> DEFINE c == "command"
           a == Message("cancelled", uncertain)
           more == <<a>>
<1>1. ViewsTyped /\ ChainsTyped /\ c \in Chains
  BY DEF ViewsInv, Chains
<1>2. waiting' \in Seq(ViewRequests) /\ Len(turns) \in Nat /\ uncertain \in ViewRequests /\ Drains(c, more)
  BY <1>1, UnqueuedIs DEF ViewsTyped
<1>3. a \in Activities
  BY <1>2, TheActivities
<1>4. more \in Seq(Activities) /\ DOMAIN more = {1} /\ more[1] = a
  BY <1>3
<1>5. \A k \in DOMAIN more : more[k].is \notin {"turn/start", "turn/started", "turn/completed"} /\ ~IsDelivered(more[k]) /\ more[k].turn = 0
  BY <1>4 DEF IsDelivered, Message, Activity
<1> HIDE DEF more, a
<1>6. Keeps(c) /\ (Rests(c) \/ TakesNext(c))
  BY <1>1, <1>2, <1>4, DrainEffect
<1>7. PICK all \in Seq(Activities) : Writes(all) /\ WritesAndTakes(more, all)
  <2>1. \E all \in Seq(Activities) : WritesAndTakes(more, all)
    BY <1>1, <1>2, <1>4, DrainEffect
  <2> QED
    BY <2>1 DEF WritesAndTakes
<1>8. \A k \in DOMAIN all : all[k].is \notin {"turn/start", "turn/started", "turn/completed"} /\ ~IsDelivered(all[k]) /\ all[k].turn = 0
  <2>1. \A r : LET m == Message("started", r) IN m.is = "message" /\ ~IsDelivered(m) /\ m.turn = 0
    BY DEF Message, Activity, IsDelivered
  <2> QED
    BY <1>5, <1>7, <2>1 DEF WritesAndTakes
<1>9. Quiet(all) /\ \A k \in DOMAIN all : all[k].turn \in 0..Len(turns)
  BY <1>2, <1>8 DEF Quiet
<1>10. \A t \in ViewTurns : ~Unfinished(t)
  BY DEF Unfinished
<1>11. ~TakesNext(c) => sending'[c].step = "idle" /\ ~HasTurn(c)'
  BY <1>6 DEF Rests, HasTurn, Taken
<1>12. ViewsSound => \A d \in Chains : Fronted(d)'
  <2> SUFFICES ASSUME ViewsSound, NEW d \in Chains, AtFront(d)' PROVE Fronted(d)'
    BY DEF Fronted
  <2>1. CASE d = c /\ TakesNext(c)
    BY <2>1 DEF TakesNext, Fronted
  <2>2. CASE d = c /\ Rests(c)
    BY <2>2 DEF Rests, AtFront
  <2>3. CASE d # c
    <3>1. AtFront(d) /\ Fronted(d)
      BY <1>6, <2>3 DEF Keeps, AtFront, ViewsSound, ChainsApart
    <3> QED
      BY <3>1 DEF Fronted
  <2> QED
    BY <1>6, <2>1, <2>2, <2>3
<1>13. sending[c].step # "answered" /\ uncertain' \in {uncertain, 0}
  OBVIOUS
<1> HIDE DEF c
<1> QED
  BY <1>1, <1>2, <1>6, <1>7, <1>9, <1>10, <1>11, <1>12, <1>13, QuietChainStep

\* A lost answer keeps it, whether or not the harness has begun a turn.
LEMMA LosesAnswer ==
  ASSUME ViewsInv, NEW c \in Chains, SendUncertain(c)
  PROVE  ViewsInv'
<1> DEFINE own == sending[c].item
           a == RequestRecord("request/uncertain", own, 0)
           more == <<a>>
<1>1. ViewsTyped /\ ChainsTyped
  BY DEF ViewsInv
<1>2. /\ activeView' = activeView /\ waiting' = waiting /\ uncertain' = own /\ Goes(c, "lost") /\ Writes(more)
      /\ sending[c].step = "asked"
      /\ UNCHANGED turns \/ (Len(turns) < MaxViewTurns /\ BeginTurn(own))
  BY DEF SendUncertain
<1>3. waiting \in Seq(ViewRequests) /\ Len(turns) \in Nat /\ own \in ViewRequests /\ own # 0 /\ ViewTurns = 1..Len(turns)
  BY <1>1, <1>2 DEF ViewsTyped, ChainsTyped, Active, ViewTurns, ViewRequests
<1>4. a \in Activities
  BY <1>3, TheActivities, JournalViewsAssumption
<1>5. more \in Seq(Activities) /\ DOMAIN more = {1} /\ more[1] = a
  BY <1>4
<1>6. Quiet(more) /\ \A k \in DOMAIN more : more[k].turn = 0
  BY <1>5 DEF Quiet, IsDelivered, RequestRecord, Activity
<1> HIDE DEF more, a, own
<1>7. /\ Keeps(c) /\ sending'[c].step = "lost" /\ sending'[c].item = own
      /\ sending'[c].queued = sending[c].queued /\ sending'[c].turn = sending[c].turn
  <2>1. "lost" \in Steps
    BY DEF Steps
  <2> QED
    BY <1>1, <1>2, <2>1, Going DEF own
<1>8. ~AtFront(c)' /\ ~HasTurn(c)' /\ ~Taken(c)' /\ AtFront(c) /\ GoesOn(c)
  BY <1>2, <1>7 DEF GoesOn, Active, AtFront, HasTurn, Taken, own
<1>9. /\ TurnsContinue /\ NoneEnds /\ Len(turns') \in Nat /\ \A t \in ViewTurns : turns'[t] = turns[t]
      /\ \A t \in ViewTurns' : t \in ViewTurns \/ (t = Len(turns') /\ turns'[t].of = own)
  <2>1. CASE UNCHANGED turns
    BY <1>1, <1>3, <2>1, TurnsStay
  <2>2. CASE Len(turns) < MaxViewTurns /\ BeginTurn(own)
    <3>1. /\ turns' \in Seq(TurnRecords) /\ Len(turns') = Len(turns) + 1 /\ Len(turns') <= MaxViewTurns
          /\ ViewTurns = 1..Len(turns) /\ ViewTurns' = 1..(Len(turns) + 1)
          /\ \A t \in ViewTurns : turns'[t] = turns[t]
          /\ turns'[Len(turns) + 1].of = own /\ turns'[Len(turns) + 1].told = "nothing"
      BY <1>1, <1>3, <2>2, NewTurn
    <3> QED
      BY <1>3, <3>1 DEF TurnsContinue, NoneEnds
  <2> QED
    BY <1>2, <2>1, <2>2
<1>10. ViewsTyped'
  <2>1. activeView' \in 0..Len(turns') /\ \A k \in DOMAIN more : more[k].turn \in 0..Len(turns')
    BY <1>1, <1>2, <1>3, <1>6, <1>9 DEF ViewsTyped, TurnsContinue
  <2> QED
    BY <1>1, <1>2, <1>3, <1>5, <1>7, <1>9, <2>1, ViewsTypedKept DEF Keeps
<1>11. ChainsTyped'
  BY <1>1, <1>2, <1>5, <1>7, <1>8, <1>9, ChainsTypedKept
<1>12. ASSUME SentOnce' PROVE ViewsSound'
  <2>1. ViewsSound /\ OneAtATime
    BY <1>1, <1>2, <1>5, <1>12, SentOnceBefore DEF ViewsInv, ViewsSound
  <2>2. \A d \in Chains : d # c => ~AtFront(d) /\ sending'[d] = sending[d] /\ ~AtFront(d)'
    BY <1>7, <1>8, <2>1, FrontAlone DEF Keeps, AtFront
  <2>3. ChainsApart'
    <3>1. \A d \in Chains : Fronted(d)'
      BY <1>8, <2>2 DEF Fronted
    <3> QED
      BY <1>1, <1>2, <1>5, <1>7, <1>8, <1>12, <2>1, <3>1, ApartKept DEF ViewsSound
  <2>4. Told' /\ \A t : Begun(t)' = Begun(t)
    <3>1. \A d \in Chains : Taken(d)' => Taken(d) /\ sending'[d].item = sending[d].item /\ sending'[d].turn = sending[d].turn
      BY <1>8, <2>2 DEF Taken
    <3> QED
      BY <1>1, <1>2, <1>5, <1>6, <1>9, <2>1, <3>1, QuietStep DEF ViewsSound
  <2>5. OneAtATime'
    <3>1. \A t \in ViewTurns : turns[t].told = "end"
      BY <1>2, <2>1 DEF OneAtATime, Unfinished
    <3>2. ASSUME NEW d \in Chains
          PROVE  /\ sending'[d].step \notin {"outbound", "asked", "answered"}
                 /\ HasTurn(d)' => HasTurn(d) /\ sending'[d] = sending[d] /\ sending[d].turn \in ViewTurns
      <4>1. CASE d = c
        BY <1>7, <1>8, <4>1
      <4>2. CASE d # c
        BY <1>1, <2>2, <4>2 DEF AtFront, HasTurn, Taken, ChainsTyped
      <4> QED
        BY <4>1, <4>2
    <3>3. ASSUME NEW t \in ViewTurns', Unfinished(t)'
          PROVE  /\ t = Len(turns') /\ uncertain' # 0 /\ Begun(t)' = {} /\ turns'[t].of = uncertain'
                 /\ \A d \in Chains : HasTurn(d)' => sending'[d].turn # t
      <4>1. t \notin ViewTurns
        BY <1>9, <3>1, <3>3 DEF Unfinished, TurnsContinue
      <4>2. Begun(t) = {}
        BY <1>1, <1>9, <4>1, NothingOfNone
      <4> QED
        BY <1>2, <1>3, <1>9, <2>4, <3>2, <4>1, <4>2
    <3>4. \A d \in Chains : HasTurn(d)' => Begun(sending[d].turn)' = {}
      BY <2>1, <2>4, <3>2, BegunOfChain, ToldBefore, ToldAfter DEF OneAtATime
    <3> QED
      BY <3>2, <3>3, <3>4 DEF OneAtATime
  <2> QED
    BY <2>3, <2>4, <2>5 DEF ViewsSound
<1> QED
  BY <1>10, <1>11, <1>12 DEF ViewsInv

\* A turn that begins at the harness keeps it: all before it are over.
LEMMA Begins ==
  ASSUME ViewsInv, NEW c \in Chains, TurnBegins(c)
  PROVE  ViewsInv'
<1> DEFINE own == sending[c].item
           new == Len(turns) + 1
           more == <<>>
<1>1. ViewsTyped /\ ChainsTyped
  BY DEF ViewsInv
<1>2. /\ activeView' = activeView /\ waiting' = waiting /\ uncertain' = uncertain /\ written' = written
      /\ sending[c].step = "asked" /\ Len(turns) < MaxViewTurns /\ BeginTurn(own)
      /\ sending' = [sending EXCEPT ![c].step = "answered", ![c].turn = new]
  BY DEF TurnBegins
<1>3. /\ waiting \in Seq(ViewRequests) /\ Len(turns) \in Nat /\ own \in ViewRequests /\ ViewTurns = 1..Len(turns)
      /\ new \in Nat /\ new \in 0..MaxViewTurns /\ sending \in [Chains -> Sendings]
  BY <1>1, <1>2, JournalViewsAssumption DEF ViewsTyped, ChainsTyped, Active, ViewTurns
<1>4. more \in Seq(Activities) /\ Writes(more) /\ Quiet(more) /\ DOMAIN more = {}
  BY <1>1, <1>2 DEF Writes, Quiet, ViewsTyped
<1>5. /\ turns' \in Seq(TurnRecords) /\ Len(turns') = new /\ Len(turns') <= MaxViewTurns
      /\ ViewTurns' = 1..new /\ new \in ViewTurns' /\ new \notin ViewTurns
      /\ \A t \in ViewTurns : turns'[t] = turns[t]
      /\ turns'[new].of = own /\ turns'[new].told = "nothing"
      /\ Begun(new) = {}
  BY <1>1, <1>2, <1>3, NewTurn
<1>6. TurnsContinue /\ NoneEnds
  <2>1. \A t \in ViewTurns' \ ViewTurns : t = new
    BY <1>3, <1>5
  <2> QED
    BY <1>3, <1>5, <2>1 DEF TurnsContinue, NoneEnds
<1>7. /\ Keeps(c) /\ sending'[c].step = "answered" /\ sending'[c].turn = new
      /\ sending'[c].item = own /\ sending'[c].queued = sending[c].queued
  <2> DEFINE s == [sending[c] EXCEPT !.step = "answered", !.turn = new]
  <2>1. sending[c] \in Sendings /\ "answered" \in Steps
    BY <1>3 DEF Steps
  <2>2. /\ s \in Sendings /\ s.step = "answered" /\ s.turn = new /\ s.item = own /\ s.queued = sending[c].queued
    BY <1>3, <2>1 DEF Sendings
  <2>3. sending' = [sending EXCEPT ![c] = s]
    BY <1>2, <1>3
  <2> HIDE DEF s
  <2> QED
    BY <1>3, <2>2, <2>3 DEF Keeps
<1> HIDE DEF more, own, new
<1>8. AtFront(c) /\ GoesOn(c)
  BY <1>2, <1>5, <1>7 DEF GoesOn, Active, AtFront, own
<1>9. ViewsTyped'
  <2>1. activeView' \in 0..Len(turns')
    BY <1>1, <1>2, <1>3, <1>6 DEF ViewsTyped, TurnsContinue
  <2> QED
    BY <1>1, <1>2, <1>3, <1>4, <1>6, <1>7, <2>1, ViewsTypedKept DEF Keeps, ViewsTyped
<1>10. ChainsTyped'
  BY <1>1, <1>4, <1>6, <1>7, <1>8, ChainsTypedKept
<1>11. ASSUME SentOnce' PROVE ViewsSound'
  <2>1. ViewsSound /\ OneAtATime
    BY <1>1, <1>4, <1>11, SentOnceBefore DEF ViewsInv, ViewsSound
  <2>2. \A d \in Chains : d # c => ~AtFront(d) /\ sending'[d] = sending[d] /\ ~AtFront(d)'
    BY <1>7, <1>8, <2>1, FrontAlone DEF Keeps, AtFront
  <2>3. Fronted(c) /\ uncertain = 0
    BY <1>8, <2>1 DEF ViewsSound, ChainsApart, Fronted
  <2>4. ChainsApart'
    <3>1. Fronted(c)'
      BY <1>2, <1>7, <1>8, <2>3 DEF Fronted, own
    <3>2. \A d \in Chains : Fronted(d)'
      BY <2>2, <3>1 DEF Fronted
    <3> QED
      BY <1>1, <1>4, <1>7, <1>8, <1>11, <2>1, <3>2, ApartKept DEF ViewsSound
  <2>5. Told' /\ \A t : Begun(t)' = Begun(t)
    <3>1. \A d \in Chains : Taken(d)' => Taken(d) /\ sending'[d].item = sending[d].item /\ sending'[d].turn = sending[d].turn
      BY <1>7, <2>2 DEF Taken
    <3>2. \A t : Begun(t)' = Begun(t)
      BY <1>1, <1>4, <1>6, QuietStep
    <3>3. Told'
      BY <1>1, <1>4, <1>6, <2>1, <3>1, QuietStep DEF ViewsSound
    <3> QED
      BY <3>2, <3>3
  <2>6. OneAtATime'
    <3>1. \A t \in ViewTurns : turns[t].told = "end"
      BY <1>2, <2>1 DEF OneAtATime, Unfinished
    <3>2. ASSUME NEW t \in ViewTurns', Unfinished(t)' PROVE t = Len(turns') /\ sending'[c].step = "answered" /\ uncertain' = 0
      <4>1. t \notin ViewTurns
        BY <1>5, <3>1, <3>2 DEF Unfinished
      <4>2. t = new
        BY <1>3, <1>5, <4>1 DEF new
      <4> QED
        BY <1>2, <1>5, <1>7, <2>3, <4>2
    <3>3. ASSUME NEW d \in Chains
          PROVE  /\ sending'[d].step \notin {"outbound", "asked"}
                 /\ sending'[d].step = "answered" => sending'[d].turn = Len(turns')
                 /\ HasTurn(d)' => Begun(sending[d].turn)' = {}
      <4>1. CASE d = c
        <5>1. sending'[d].turn = new /\ written' = written
          BY <1>2, <1>7, <4>1
        <5>2. Begun(sending[d].turn)' = {i \in DOMAIN written : IsBegun(written[i], new)}
          BY <5>1, BegunOfChain
        <5>3. Begun(sending[d].turn)' = {}
          BY <1>5, <5>2, ToldBefore
        <5> QED
          BY <1>5, <1>7, <4>1, <5>1, <5>3
      <4>2. CASE d # c
        <5>1. sending'[d] = sending[d] /\ sending[d].step \notin {"outbound", "asked", "answered"}
              /\ (HasTurn(d)' <=> HasTurn(d))
          BY <2>2, <4>2 DEF AtFront, HasTurn, Taken
        <5>2. Begun(sending[d].turn)' = {i \in DOMAIN written' : IsBegun(written'[i], sending'[d].turn)}
          BY DEF Begun, IsBegun, Activity
        <5>3. Begun(sending[d].turn) = {i \in DOMAIN written : IsBegun(written[i], sending[d].turn)}
          BY DEF Begun, IsBegun
        <5> QED
          BY <1>2, <2>1, <5>1, <5>2, <5>3 DEF OneAtATime
      <4> QED
        BY <4>1, <4>2
    <3> QED
      BY <3>2, <3>3 DEF OneAtATime
  <2> QED
    BY <2>4, <2>5, <2>6 DEF ViewsSound
<1> QED
  BY <1>9, <1>10, <1>11 DEF ViewsInv

\* The answer that a message was accepted keeps it: the message is the last one delivered then.
LEMMA Accepts ==
  ASSUME ViewsInv, NEW c \in Chains, TurnAccepted(c)
  PROVE  ViewsInv'
<1> DEFINE own == sending[c].turn
           a == Message("completed", sending[c].item)
           more == <<a>>
<1>1. ViewsTyped /\ ChainsTyped
  BY DEF ViewsInv
<1>2. /\ turns' = turns /\ activeView' = own /\ uncertain' = 0 /\ waiting' = Unqueued(sending[c].item)
      /\ sending[c].step = "answered" /\ Goes(c, "accepted") /\ Writes(more)
  BY DEF TurnAccepted
<1>3. /\ waiting' \in Seq(ViewRequests) /\ sending[c].item \in ViewRequests
      /\ own \in ViewTurns /\ turns[own].of = sending[c].item
  BY <1>1, <1>2, UnqueuedIs DEF ChainsTyped, Active, HasTurn
<1>4. TurnsContinue /\ NoneEnds /\ ViewTurns' = ViewTurns /\ Len(turns) \in Nat /\ ViewTurns = 1..Len(turns)
  BY <1>1, <1>2, TurnsStay
<1>5. a \in Activities /\ a.turn = 0 /\ a.item = sending[c].item /\ IsDelivered(a)
      /\ \A t : ~IsStart(a, t) /\ ~IsEnd(a, t) /\ ~IsBegun(a, t)
  <2>1. a \in Activities
    BY <1>3, TheActivities
  <2> QED
    BY <2>1 DEF IsStart, IsEnd, IsBegun, IsDelivered, Message, Activity
<1>6. more \in Seq(Activities) /\ DOMAIN more = {1} /\ more[1] = a
  BY <1>5
<1> HIDE DEF more, a
<1>7. /\ Keeps(c) /\ sending'[c].step = "accepted" /\ sending'[c].item = sending[c].item
      /\ sending'[c].queued = sending[c].queued /\ sending'[c].turn = own
  <2>1. "accepted" \in Steps
    BY DEF Steps
  <2> QED
    BY <1>1, <1>2, <2>1, Going
<1> HIDE DEF own
<1>8. AtFront(c) /\ ~AtFront(c)' /\ GoesOn(c)
  BY <1>2, <1>3, <1>4, <1>7 DEF GoesOn, Active, AtFront
<1>9. ViewsTyped'
  <2>1. activeView' \in 0..Len(turns') /\ \A k \in DOMAIN more : more[k].turn \in 0..Len(turns')
    BY <1>2, <1>3, <1>4, <1>5, <1>6
  <2> QED
    BY <1>1, <1>2, <1>3, <1>4, <1>6, <1>7, <2>1, ViewsTypedKept DEF Keeps
<1>10. ChainsTyped'
  BY <1>1, <1>2, <1>4, <1>6, <1>7, <1>8, ChainsTypedKept
<1>11. \A t : Ends(t)' = Ends(t) /\ Begun(t)' = Begun(t)
  BY <1>1, <1>2, <1>5, <1>6, ViewsGrow
<1>12. Longer(more)
  BY <1>1, <1>2, <1>6, JournalGrows DEF ViewsTyped
<1>13. ASSUME SentOnce' PROVE ViewsSound'
  <2>1. ViewsSound /\ OneAtATime /\ Told
    BY <1>1, <1>2, <1>6, <1>13, SentOnceBefore DEF ViewsInv, ViewsSound
  <2>2. \A d \in Chains : d # c => ~AtFront(d) /\ sending'[d] = sending[d] /\ ~AtFront(d)'
    BY <1>7, <1>8, <2>1, FrontAlone DEF Keeps, AtFront
  <2>3. ChainsApart'
    <3>1. \A d \in Chains : Fronted(d)'
      BY <1>8, <2>2 DEF Fronted
    <3> QED
      BY <1>1, <1>2, <1>6, <1>7, <1>8, <1>13, <2>1, <3>1, ApartKept DEF ViewsSound
  <2>4. own = Len(turns) /\ Begun(own) = {}
    BY <1>2, <2>1 DEF OneAtATime, HasTurn, own
  <2>5. \A t \in ViewTurns : Unfinished(t) => t = own
    BY <2>1, <2>4 DEF OneAtATime
  <2>6. EndsOnce'
    BY <1>1, <1>2, <1>4, <1>5, <1>6, <2>1, EndsKept DEF Told
  <2>7. DeliveredLast'
    <3> SUFFICES ASSUME NEW d \in Chains, Taken(d)', Unfinished(sending[d].turn)'
                 PROVE  \E m \in Delivered' : written'[m].item = sending'[d].item /\ \A n \in Delivered' : n <= m
      BY DEF DeliveredLast
    <3>1. d = c
      <4> SUFFICES ASSUME d # c PROVE FALSE
        OBVIOUS
      <4>1. sending'[d] = sending[d] /\ Taken(d) /\ Active(d) /\ Active(c)
        BY <1>2, <2>2 DEF Taken, Active
      <4>2. sending[d].turn \in ViewTurns /\ Unfinished(sending[d].turn) /\ turns[sending[d].turn].of = sending[d].item
        BY <1>1, <1>2, <4>1 DEF ChainsTyped, HasTurn, Unfinished
      <4>3. sending[d].item = sending[c].item
        BY <1>3, <2>5, <4>2
      <4> QED
        BY <2>1, <4>1, <4>3 DEF ViewsSound, ChainsApart
    <3> DEFINE m == Len(written) + 1
    <3>2. m \in DOMAIN written' /\ written'[m] = a
      BY <1>6, <1>12 DEF Longer
    <3>3. m \in Delivered' /\ written'[m].item = sending'[d].item
      BY <1>5, <1>7, <3>1, <3>2, ToldAfter
    <3>4. ASSUME NEW n \in Delivered' PROVE n <= m
      <4>1. n \in DOMAIN written' /\ n \in Nat
        BY <1>12, <3>4, ToldAfter DEF Longer
      <4>2. CASE n \in DOMAIN written
        BY <1>12, <4>1, <4>2 DEF Longer
      <4>3. CASE n \notin DOMAIN written
        <5>1. n - Len(written) = 1
          BY <1>6, <1>12, <4>1, <4>3 DEF Longer
        <5> QED
          BY <1>12, <4>1, <5>1 DEF Longer
      <4> QED
        BY <4>2, <4>3
    <3> QED
      BY <3>3, <3>4
  <2>8. AnsweredLast'
    <3>1. \A t \in ViewTurns, k \in DOMAIN more : Begun(t) # {} /\ IsDelivered(more[k]) => turns[t].told = "end"
      BY <2>4, <2>5 DEF Unfinished
    <3>2. \A t : \A k \in DOMAIN more : ~IsStart(more[k], t)
      BY <1>5, <1>6
    <3>3. \A t \in ViewTurns' : \A i \in Begun(t) :
            (\A e \in Ends(t)' : i < e) => \E m \in Delivered' : m < i /\ Answering(t, m)'
      BY <1>1, <1>2, <1>4, <1>6, <2>1, <3>1, <3>2, AnswersKept DEF Told
    <3> QED
      BY <1>11, <3>3 DEF AnsweredLast
  <2>9. AskedBefore'
    <3>1. \A k \in DOMAIN more : IsDelivered(more[k]) => \E u \in ViewTurns' : turns'[u].of = more[k].item
      BY <1>2, <1>3, <1>4, <1>5, <1>6
    <3>2. \A t : \A k \in DOMAIN more : ~IsStart(more[k], t)
      BY <1>5, <1>6
    <3> QED
      BY <1>1, <1>2, <1>4, <1>6, <2>1, <3>1, <3>2, AskedKept DEF Told
  <2>10. OneAtATime'
    <3>1. ASSUME NEW t \in ViewTurns', Unfinished(t)' PROVE t = Len(turns') /\ activeView' = t /\ uncertain' = 0
      <4>1. t \in ViewTurns /\ Unfinished(t)
        BY <1>2, <1>4, <3>1 DEF Unfinished
      <4> QED
        BY <1>2, <2>4, <2>5, <4>1
    <3>2. ASSUME NEW d \in Chains
          PROVE  /\ sending'[d].step \notin {"outbound", "asked", "answered"}
                 /\ HasTurn(d)' => Begun(sending[d].turn)' = {}
      <4>1. CASE d = c
        BY <1>7, <1>11, <2>4, <4>1, BegunOfChain, ToldBefore, ToldAfter
      <4>2. CASE d # c
        <5>1. sending'[d] = sending[d] /\ sending[d].step \notin {"outbound", "asked", "answered"} /\ (HasTurn(d)' <=> HasTurn(d))
          BY <2>2, <4>2 DEF AtFront, HasTurn, Taken
        <5> QED
          BY <1>11, <2>1, <5>1, BegunOfChain, ToldBefore, ToldAfter DEF OneAtATime
      <4> QED
        BY <4>1, <4>2
    <3> QED
      BY <3>1, <3>2 DEF OneAtATime
  <2> QED
    BY <2>3, <2>6, <2>7, <2>8, <2>9, <2>10 DEF ViewsSound, Told
<1> QED
  BY <1>9, <1>10, <1>13 DEF ViewsInv

\* The record of that answer keeps it: whatever was delivered last is the turn's own, if the turn goes on.
LEMMA WritesAnswer ==
  ASSUME ViewsInv, NEW c \in Chains, WriteAccepted(c), sending[c].step = "started"
  PROVE  ViewsInv'
<1> DEFINE own == sending[c].turn
           a == Activity("turn/start", "started", 0, own)
           more == <<a>>
<1>1. ViewsTyped /\ ChainsTyped
  BY DEF ViewsInv
<1>2. /\ turns' = turns /\ activeView' = activeView /\ uncertain' = uncertain /\ waiting' = waiting
      /\ Leaves(c) /\ Writes(more)
  BY DEF WriteAccepted
<1>3. Taken(c) /\ HasTurn(c) /\ own \in ViewTurns /\ turns[own].of = sending[c].item
  BY <1>1 DEF ChainsTyped, HasTurn, Taken
<1>4. /\ TurnsContinue /\ NoneEnds /\ ViewTurns' = ViewTurns /\ Len(turns) \in Nat /\ ViewTurns = 1..Len(turns)
      /\ Len(turns) <= MaxViewTurns
  BY <1>1, <1>2, TurnsStay DEF ViewsTyped
<1>5. a \in Activities /\ a.turn = own /\ ~IsDelivered(a) /\ \A t : ~IsEnd(a, t) /\ (IsStart(a, t) \/ IsBegun(a, t) => t = own)
  <2>1. own \in 0..MaxViewTurns
    BY <1>3, <1>4, JournalViewsAssumption
  <2>2. a \in Activities
    BY <2>1, TheActivities
  <2> QED
    BY <2>2 DEF IsStart, IsEnd, IsBegun, IsDelivered, Activity
<1>6. more \in Seq(Activities) /\ DOMAIN more = {1} /\ more[1] = a
  BY <1>5
<1> HIDE DEF more, a
<1>7. Keeps(c) /\ Rests(c)
  BY <1>1, <1>2, Leaving
<1> HIDE DEF own
<1>8. ViewsTyped'
  <2>1. \A k \in DOMAIN more : more[k].turn \in 0..Len(turns')
    BY <1>2, <1>3, <1>4, <1>5, <1>6
  <2> QED
    BY <1>1, <1>2, <1>4, <1>6, <1>7, <2>1, ViewsTypedKept DEF Keeps, ViewsTyped
<1>9. ChainsTyped'
  BY <1>1, <1>2, <1>4, <1>6, <1>7, ChainsTypedKept
<1>10. /\ \A t : Ends(t)' = Ends(t) /\ (t # own => Begun(t)' = Begun(t) /\ Starts(t)' = Starts(t))
       /\ Delivered' = Delivered
  BY <1>1, <1>2, <1>5, <1>6, ViewsGrow
<1>11. Longer(more)
  BY <1>1, <1>2, <1>6, JournalGrows DEF ViewsTyped
<1>12. ASSUME SentOnce' PROVE ViewsSound'
  <2>1. ViewsSound /\ OneAtATime /\ Told
    BY <1>1, <1>2, <1>6, <1>12, SentOnceBefore DEF ViewsInv, ViewsSound
  <2>2. \A d \in Chains : d # c => sending'[d] = sending[d]
    BY <1>7 DEF Keeps
  <2>3. ChainsApart'
    <3>1. ASSUME NEW d \in Chains PROVE Fronted(d)'
      <4>1. CASE d = c
        BY <1>7, <4>1 DEF Rests, Fronted, AtFront
      <4>2. CASE d # c
        <5>1. Fronted(d) /\ sending'[d] = sending[d]
          BY <2>1, <2>2, <4>2 DEF ViewsSound, ChainsApart
        <5> QED
          BY <1>2, <5>1 DEF Fronted, AtFront
      <4> QED
        BY <4>1, <4>2
    <3> QED
      BY <1>1, <1>2, <1>6, <1>7, <1>12, <2>1, <3>1, ApartKept DEF ViewsSound
  <2>4. Begun(own) = {}
    BY <1>3, <2>1 DEF OneAtATime, own
  <2>5. EndsOnce'
    BY <1>1, <1>2, <1>4, <1>5, <1>6, <2>1, EndsKept DEF Told
  <2>6. \A d \in Chains : Taken(d)' => d # c /\ Taken(d) /\ sending'[d] = sending[d]
    BY <1>7, <2>2 DEF Rests, Taken
  <2>7. DeliveredLast'
    BY <1>1, <1>2, <1>4, <1>5, <1>6, <2>1, <2>6, DeliveredKept DEF Told
  <2>8. AnsweredLast'
    <3>1. \A t \in ViewTurns, k \in DOMAIN more : Begun(t) # {} => ~IsStart(more[k], t) /\ ~IsDelivered(more[k])
      BY <1>5, <1>6, <2>4
    <3>2. \A t \in ViewTurns' : \A i \in Begun(t) :
            (\A e \in Ends(t)' : i < e) => \E m \in Delivered' : m < i /\ Answering(t, m)'
      BY <1>1, <1>2, <1>4, <1>6, <2>1, <3>1, AnswersKept DEF Told
    <3>3. ASSUME NEW t, t = own, NEW i \in Begun(t)', \A e \in Ends(t)' : i < e
          PROVE  \E m \in Delivered' : m < i /\ Answering(t, m)'
      <4>1. i \in DOMAIN written' /\ i \notin DOMAIN written
        BY <1>11, <2>4, <3>3, ToldBefore, ToldAfter DEF Longer
      <4>2. i > Len(written) /\ i \in Nat /\ Len(written) \in Nat
        BY <1>11, <4>1 DEF Longer
      <4>3. Ends(t) = {}
        <5> SUFFICES ASSUME NEW e \in Ends(t) PROVE FALSE
          OBVIOUS
        <5>1. e \in 1..Len(written) /\ i < e
          BY <1>10, <1>11, <3>3, ToldBefore DEF Longer
        <5> QED
          BY <4>2, <5>1
      <4>4. Unfinished(own)
        BY <1>3, <2>1, <3>3, <4>3 DEF Told, EndsOnce
      <4>5. PICK m \in Delivered : written[m].item = sending[c].item /\ \A n \in Delivered : n <= m
        BY <1>3, <2>1, <4>4 DEF Told, DeliveredLast, own
      <4>6. \A n \in Delivered : n \in DOMAIN written /\ n \in 1..Len(written) /\ written'[n] = written[n]
        BY <1>11, ToldBefore DEF Longer
      <4>7. m < i /\ \A n \in Delivered : ~(n > m)
        BY <4>2, <4>5, <4>6
      <4>8. Answering(t, m)'
        BY <1>2, <1>3, <1>10, <3>3, <4>5, <4>6, <4>7 DEF Answering
      <4> QED
        BY <1>10, <4>7, <4>8
    <3> QED
      BY <1>10, <3>2, <3>3 DEF AnsweredLast
  <2>9. AskedBefore'
    <3>1. ASSUME NEW t \in ViewTurns', NEW k \in DOMAIN more, IsStart(more[k], t)
          PROVE  Ends(t) # {} \/ \A u \in ViewTurns' : u <= t
      <4>1. t = own
        BY <1>5, <1>6, <3>1
      <4>2. CASE Unfinished(own)
        <5>1. own = Len(turns)
          BY <1>3, <2>1, <4>2 DEF OneAtATime
        <5> QED
          BY <1>4, <4>1, <5>1
      <4>3. CASE ~Unfinished(own)
        BY <1>3, <2>1, <4>1, <4>3 DEF Told, EndsOnce
      <4> QED
        BY <4>2, <4>3
    <3>2. \A k \in DOMAIN more : ~IsDelivered(more[k])
      BY <1>5, <1>6
    <3> QED
      BY <1>1, <1>2, <1>4, <1>6, <2>1, <3>1, <3>2, AskedKept DEF Told
  <2>10. OneAtATime'
    <3>1. ASSUME NEW d \in Chains
          PROVE  /\ sending'[d].step \in {"outbound", "asked", "answered"} \/ HasTurn(d)' => d # c /\ sending'[d] = sending[d]
                 /\ HasTurn(d)' => HasTurn(d)
                 /\ sending[d].step = "answered" => sending'[d].step = "answered"
      BY <1>7, <2>2, <1>3 DEF Rests, HasTurn, Taken
    <3>2. ASSUME NEW d \in Chains, HasTurn(d)' PROVE Begun(sending[d].turn)' = {}
      <4>1. d # c /\ sending'[d] = sending[d] /\ HasTurn(d) /\ Active(d) /\ Active(c)
        BY <1>3, <3>1, <3>2 DEF Active, HasTurn, Taken
      <4>2. sending[d].turn \in ViewTurns /\ turns[sending[d].turn].of = sending[d].item
        BY <1>1, <4>1 DEF ChainsTyped
      <4>3. sending[d].turn # own
        BY <1>3, <2>1, <4>1, <4>2 DEF ViewsSound, ChainsApart
      <4>4. Begun(sending[d].turn) = {}
        BY <2>1, <4>1 DEF OneAtATime
      <4> QED
        BY <1>10, <4>1, <4>3, <4>4, BegunOfChain, ToldBefore, ToldAfter
    <3>3. ASSUME NEW t \in ViewTurns, Unfinished(t)
          PROVE  /\ t = Len(turns)
                 /\ (\E d \in Chains : sending'[d].step = "answered") \/ activeView' = t \/ uncertain' # 0
                 /\ uncertain' # 0 => /\ Begun(t)' = {} /\ turns'[t].of = uncertain'
                                      /\ \A d \in Chains : HasTurn(d)' => sending'[d].turn # t
      <4>1. t = Len(turns) /\ ((\E d \in Chains : sending'[d].step = "answered") \/ activeView' = t \/ uncertain' # 0)
        BY <1>2, <2>1, <3>1, <3>3 DEF OneAtATime
      <4>2. ASSUME uncertain' # 0 PROVE Begun(t)' = {} /\ turns'[t].of = uncertain'
        <5>1. t # own /\ Begun(t) = {} /\ turns[t].of = uncertain
          BY <1>2, <1>3, <2>1, <3>3, <4>2 DEF OneAtATime, own
        <5> QED
          BY <1>2, <1>10, <5>1
      <4>3. ASSUME uncertain' # 0, NEW d \in Chains, HasTurn(d)' PROVE sending'[d].turn # t
        BY <1>2, <2>1, <3>1, <3>3, <4>3 DEF OneAtATime
      <4> QED
        BY <4>1, <4>2, <4>3
    <3>4. ASSUME NEW d \in Chains
          PROVE  /\ sending'[d].step \in {"outbound", "asked"} => \A t \in ViewTurns : ~Unfinished(t)
                 /\ sending'[d].step = "answered" => sending'[d].turn = Len(turns)
      BY <2>1, <3>1 DEF OneAtATime
    <3>5. \A t : Unfinished(t)' <=> Unfinished(t)
      BY <1>2 DEF Unfinished
    <3> QED
      BY <1>2, <1>4, <3>2, <3>3, <3>4, <3>5 DEF OneAtATime
  <2> QED
    BY <2>3, <2>5, <2>7, <2>8, <2>9, <2>10 DEF ViewsSound, Told
<1> QED
  BY <1>8, <1>9, <1>12 DEF ViewsInv

\* A step that leaves the sends alone leaves what is said of them, as long as what is at the front stays there.
LEMMA ChainsStay ==
  ASSUME ViewsTyped, ChainsTyped, NEW more \in Seq(Activities), Writes(more), TurnsContinue, sending' = sending
  PROVE  ChainsTyped' /\ (ChainsApart /\ (\A d \in Chains : Fronted(d)') => ChainsApart')
<1>1. \A d \in Chains : (Active(d)' <=> Active(d)) /\ (HasTurn(d)' <=> HasTurn(d)) /\ (AtFront(d)' <=> AtFront(d))
  BY DEF Active, HasTurn, Taken, AtFront
<1>2. ChainsTyped'
  <2> SUFFICES ASSUME NEW d \in Chains
               PROVE  /\ Active(d) => sending[d].item \in ViewRequests /\ Announced(sending[d].item)' # {}
                      /\ d = "event" /\ Active(d) => sending[d].queued
                      /\ HasTurn(d) => sending[d].turn \in ViewTurns' /\ turns'[sending[d].turn].of = sending[d].item
    BY <1>1 DEF ChainsTyped
  <2>1. Announced(sending[d].item)' = {i \in DOMAIN written' : written'[i] = Message("started", sending[d].item)}
    BY DEF Announced, Message, Activity
  <2>2. Announced(sending[d].item) = {i \in DOMAIN written : written[i] = Message("started", sending[d].item)}
    BY DEF Announced
  <2>3. Longer(more)
    BY JournalGrows DEF ViewsTyped
  <2>4. Announced(sending[d].item) # {} => Announced(sending[d].item)' # {}
    BY <2>1, <2>2, <2>3 DEF Longer
  <2> QED
    BY <2>4 DEF ChainsTyped, TurnsContinue
<1>3. ASSUME ChainsApart, \A d \in Chains : Fronted(d)' PROVE ChainsApart'
  BY <1>1, <1>3 DEF ChainsApart
<1> QED
  BY <1>2, <1>3

\* The start of a turn on record: by its notification, or by a reconciliation that finds it.  It is the last
\* turn, so that whatever is shown as delivered with it is its own message.
LEMMA TurnIsSeen ==
  ASSUME ViewsInv, NEW t \in ViewTurns, NEW over \in TurnRecords, over.of = turns[t].of,
         turns[t].told = "end" <=> over.told = "end", turns[t].outcome # "running" => over.outcome # "running",
         ViewsSound => Unfinished(t), turns' = [turns EXCEPT ![t] = over],
         activeView' = t, uncertain' = 0, waiting' = Unqueued(uncertain), sending' = sending,
         Writes(<<Activity("turn/started", "started", 0, t)>>
                  \o IF uncertain = 0 THEN <<>> ELSE <<Message("completed", uncertain)>>)
  PROVE  ViewsInv'
<1> DEFINE a == Activity("turn/started", "started", 0, t)
           b == Message("completed", uncertain)
           more == <<a>> \o IF uncertain = 0 THEN <<>> ELSE <<b>>
<1>1. ViewsTyped /\ ChainsTyped /\ Writes(more)
  BY DEF ViewsInv
<1>2. /\ turns \in Seq(TurnRecords) /\ Len(turns) \in Nat /\ Len(turns) <= MaxViewTurns /\ ViewTurns = 1..Len(turns)
      /\ uncertain \in ViewRequests \union {0} /\ t # 0 /\ waiting' \in Seq(ViewRequests)
  BY <1>1, UnqueuedIs DEF ViewsTyped, ViewTurns
<1>3. /\ turns' \in Seq(TurnRecords) /\ Len(turns') = Len(turns) /\ ViewTurns' = ViewTurns
      /\ \A u \in ViewTurns : turns'[u] = IF u = t THEN over ELSE turns[u]
      /\ \A u \in ViewTurns : turns'[u].of = turns[u].of
  BY <1>2, OneTurnChanges
<1>4. TurnsContinue /\ NoneEnds
  BY <1>2, <1>3 DEF TurnsContinue, NoneEnds
<1>5. a \in Activities /\ (uncertain # 0 => b \in Activities)
  <2>1. t \in 0..MaxViewTurns
    BY <1>2, JournalViewsAssumption
  <2> QED
    BY <1>2, <2>1, TheActivities
<1>6. /\ a.turn = t /\ b.turn = 0 /\ b.item = uncertain /\ ~IsDelivered(a)
      /\ \A u : ~IsEnd(a, u) /\ ~IsEnd(b, u) /\ ~IsBegun(a, u) /\ ~IsBegun(b, u) /\ ~IsStart(b, u) /\ (IsStart(a, u) => u = t)
  BY DEF IsStart, IsEnd, IsBegun, IsDelivered, Message, Activity
<1>7. more \in Seq(Activities) /\ \A k \in DOMAIN more : more[k] = a \/ (more[k] = b /\ uncertain # 0)
  <2>1. CASE uncertain = 0
    <3>1. more = <<a>>
      BY <2>1
    <3> QED
      BY <1>5, <2>1, <3>1
  <2>2. CASE uncertain # 0
    <3> HIDE DEF a, b
    <3> DEFINE S == {a, b}
               one == <<a>>
               two == <<b>>
    <3>1. one \in Seq(S) /\ two \in Seq(S) /\ more = one \o two
      BY <2>2
    <3> HIDE DEF more, one, two
    <3>2. more \in Seq(S)
      BY <3>1
    <3> QED
      BY <1>5, <2>2, <3>2
  <2> QED
    BY <2>1, <2>2
<1> HIDE DEF more, a, b
<1>8. \A u : Ends(u)' = Ends(u) /\ Begun(u)' = Begun(u)
  BY <1>1, <1>6, <1>7, ViewsGrow
<1>9. ViewsTyped'
  <2>1. activeView' \in 0..Len(turns') /\ \A k \in DOMAIN more : more[k].turn \in 0..Len(turns')
    BY <1>2, <1>3, <1>6, <1>7
  <2> QED
    BY <1>1, <1>2, <1>4, <1>7, <2>1, ViewsTypedKept DEF ViewsTyped
<1>10. ChainsTyped'
  BY <1>1, <1>4, <1>7, ChainsStay
<1>11. ASSUME SentOnce' PROVE ViewsSound'
  <2>1. ViewsSound /\ OneAtATime /\ Told /\ ChainsApart
    BY <1>1, <1>7, <1>11, SentOnceBefore DEF ViewsInv, ViewsSound
  <2>2. /\ Unfinished(t) /\ t = Len(turns) /\ \A u \in ViewTurns : Unfinished(u) => u = t
        /\ uncertain # 0 => /\ Begun(t) = {} /\ turns[t].of = uncertain
                            /\ \A d \in Chains : HasTurn(d) => sending[d].turn # t
    BY <2>1 DEF OneAtATime
  <2>3. ChainsApart'
    <3>1. ASSUME NEW d \in Chains, AtFront(d) PROVE Fronted(d)'
      <4>1. Fronted(d) /\ uncertain = 0
        BY <2>1, <3>1 DEF ChainsApart, Fronted
      <4>2. waiting' = waiting
        <5>1. waiting # <<>> => Head(waiting) # 0
          BY <1>1, UnqueuedIs DEF ViewRequests
        <5> QED
          BY <1>1, <4>1, <5>1, UnqueuedIs
      <4> QED
        BY <3>1, <4>1, <4>2 DEF Fronted
    <3>2. \A d \in Chains : Fronted(d)'
      BY <3>1 DEF Fronted, AtFront
    <3> QED
      BY <1>1, <1>4, <1>7, <2>1, <3>2, ChainsStay
  <2>4. OneAtATime'
    <3>1. ASSUME NEW u \in ViewTurns', Unfinished(u)' PROVE u = Len(turns') /\ activeView' = u /\ uncertain' = 0
      <4>1. u = t
        BY <1>3, <2>2, <3>1 DEF Unfinished
      <4> QED
        BY <1>3, <2>2, <4>1
    <3>2. ASSUME NEW d \in Chains
          PROVE  /\ sending[d].step \notin {"outbound", "asked"}
                 /\ sending[d].step = "answered" => sending[d].turn = Len(turns')
                 /\ HasTurn(d)' => Begun(sending[d].turn)' = {}
      <4>1. sending[d].step \notin {"outbound", "asked"} /\ (sending[d].step = "answered" => sending[d].turn = Len(turns'))
        BY <1>3, <2>1, <2>2 DEF OneAtATime
      <4>2. ASSUME HasTurn(d)' PROVE Begun(sending[d].turn)' = {}
        <5>1. Begun(sending[d].turn) = {}
          BY <2>1, <4>2 DEF OneAtATime, HasTurn, Taken
        <5> QED
          BY <1>8, <5>1, BegunOfChain, ToldBefore, ToldAfter
      <4> QED
        BY <4>1, <4>2
    <3> QED
      BY <3>1, <3>2 DEF OneAtATime
  <2>5. EndsOnce'
    BY <1>1, <1>4, <1>6, <1>7, <2>1, EndsKept DEF Told
  <2>6. DeliveredLast'
    <3>1. CASE uncertain = 0
      <4>1. \A k \in DOMAIN more : ~IsDelivered(more[k])
        BY <1>6, <1>7, <3>1
      <4>2. \A d \in Chains : Taken(d)' => Taken(d) /\ sending'[d].item = sending[d].item /\ sending'[d].turn = sending[d].turn
        BY DEF Taken
      <4> QED
        BY <1>1, <1>4, <1>7, <2>1, <4>1, <4>2, DeliveredKept DEF Told
    <3>2. CASE uncertain # 0
      <4>1. ASSUME NEW d \in Chains, Taken(d)', Unfinished(sending[d].turn)' PROVE FALSE
        <5>1. HasTurn(d) /\ sending[d].turn \in ViewTurns
          BY <1>1, <4>1 DEF ChainsTyped, HasTurn, Taken
        <5>2. sending[d].turn = t
          BY <1>3, <2>2, <4>1, <5>1 DEF Unfinished
        <5> QED
          BY <2>2, <3>2, <5>1, <5>2
      <4> QED
        BY <4>1 DEF DeliveredLast
    <3> QED
      BY <3>1, <3>2
  <2>7. AnsweredLast'
    <3>1. \A u \in ViewTurns, k \in DOMAIN more : Begun(u) # {} /\ turns[u].told = "end" => ~IsStart(more[k], u)
      BY <1>6, <1>7, <2>2 DEF Unfinished
    <3>2. \A u \in ViewTurns, k \in DOMAIN more : Begun(u) # {} /\ IsDelivered(more[k]) => turns[u].told = "end"
      BY <1>6, <1>7, <2>2 DEF Unfinished
    <3>3. \A u \in ViewTurns' : \A i \in Begun(u) :
            (\A e \in Ends(u)' : i < e) => \E m \in Delivered' : m < i /\ Answering(u, m)'
      BY <1>1, <1>4, <1>7, <2>1, <3>1, <3>2, AnswersKept DEF Told
    <3> QED
      BY <1>8, <3>3 DEF AnsweredLast
  <2>8. AskedBefore'
    <3>1. \A k \in DOMAIN more : IsDelivered(more[k]) => \E u \in ViewTurns' : turns'[u].of = more[k].item
      BY <1>3, <1>6, <1>7, <2>2
    <3>2. \A u \in ViewTurns' : u <= t
      BY <1>2, <1>3, <2>2
    <3>3. \A u \in ViewTurns', k \in DOMAIN more : IsStart(more[k], u) => Ends(u) # {} \/ \A v \in ViewTurns' : v <= u
      BY <1>6, <1>7, <3>2
    <3> QED
      BY <1>1, <1>4, <1>7, <2>1, <3>1, <3>3, AskedKept DEF Told
  <2> QED
    BY <2>3, <2>4, <2>5, <2>6, <2>7, <2>8 DEF ViewsSound, Told
<1> QED
  BY <1>9, <1>10, <1>11 DEF ViewsInv

\* The notification of a turn's start keeps the invariant.
LEMMA RecordsStart ==
  ASSUME ViewsInv, NEW t \in ViewTurns, StartRecorded(t)
  PROVE  ViewsInv'
<1> DEFINE over == [turns[t] EXCEPT !.told = "start"]
<1>1. turns \in Seq(TurnRecords) /\ turns[t] \in TurnRecords
  BY DEF ViewsInv, ViewsTyped, ViewTurns
<1>2. over \in TurnRecords /\ over.of = turns[t].of /\ over.told = "start" /\ over.outcome = turns[t].outcome
  BY <1>1 DEF TurnRecords
<1>3. turns[t].told = "nothing" /\ turns' = [turns EXCEPT ![t] = over]
  BY <1>1 DEF StartRecorded
<1> HIDE DEF over
<1>4. /\ activeView' = t /\ uncertain' = 0 /\ waiting' = Unqueued(uncertain) /\ sending' = sending
      /\ Writes(<<Activity("turn/started", "started", 0, t)>>
                  \o IF uncertain = 0 THEN <<>> ELSE <<Message("completed", uncertain)>>)
  BY DEF StartRecorded
<1>5. Unfinished(t)
  BY <1>3 DEF Unfinished
<1>6. turns[t].told = "end" <=> over.told = "end"
  BY <1>2, <1>3
<1> QED
  BY <1>2, <1>3, <1>4, <1>5, <1>6, TurnIsSeen

\* So does the reconciliation that finds the turn of an uncertain message.
LEMMA TakesOver ==
  ASSUME ViewsInv, uncertain # 0, uncertain' = 0, waiting' = Unqueued(uncertain), NEW t \in ViewTurns,
         turns[t].outcome = "running", activeView' = t,
         Writes(<<Activity("turn/started", "started", 0, t), Message("completed", uncertain)>>),
         turns' = [turns EXCEPT ![t].outcome = "cancelled"], sending' = sending
  PROVE  ViewsInv'
<1> DEFINE over == [turns[t] EXCEPT !.outcome = "cancelled"]
           a == Activity("turn/started", "started", 0, t)
           b == Message("completed", uncertain)
<1>1. turns \in Seq(TurnRecords) /\ turns[t] \in TurnRecords
  BY DEF ViewsInv, ViewsTyped, ViewTurns
<1>2. over \in TurnRecords /\ over.of = turns[t].of /\ over.told = turns[t].told /\ over.outcome = "cancelled"
  BY <1>1 DEF TurnRecords, Outcomes
<1>3. turns' = [turns EXCEPT ![t] = over]
  BY <1>1
<1> HIDE DEF over
<1>4. ViewsSound => Unfinished(t)
  BY DEF ViewsSound, Told, EndsOnce
<1>5. Writes(<<a>> \o IF uncertain = 0 THEN <<>> ELSE <<b>>)
  <2> HIDE DEF a, b
  <2>1. <<a>> \o <<b>> = <<a, b>>
    <3> DEFINE one == <<a>> \o <<b>>
               two == <<a, b>>
               S == {a, b}
    <3>1. one \in Seq(S) /\ two \in Seq(S) /\ Len(one) = 2 /\ Len(two) = 2
      OBVIOUS
    <3>2. one[1] = a /\ one[2] = b /\ two[1] = a /\ two[2] = b
      OBVIOUS
    <3> HIDE DEF one, two, S
    <3>3. one = two
      BY <3>1, <3>2
    <3> QED
      BY <3>3 DEF one, two
  <2>2. Writes(<<a, b>>)
    BY DEF a, b
  <2> QED
    BY <2>1, <2>2
<1>6. /\ turns[t].told = "end" <=> over.told = "end"
      /\ turns[t].outcome # "running" => over.outcome # "running"
  BY <1>2
<1> QED
  BY <1>2, <1>3, <1>4, <1>5, <1>6, TurnIsSeen

\* The notification of its end keeps it, although the queue is drained with it if the turn was the active one.
LEMMA RecordsEnd ==
  ASSUME ViewsInv, NEW t \in ViewTurns, NEW outcome \in Outcomes, EndRecorded(t, outcome)
  PROVE  ViewsInv'
<1> DEFINE c == "event"
           a == Activity("turn/completed", TerminalPhase(outcome), 0, t)
           more == <<a>>
           over == [turns[t] EXCEPT !.told = "end", !.outcome = outcome]
<1>1. ViewsTyped /\ ChainsTyped /\ c \in Chains
  BY DEF ViewsInv, Chains
<1>2. /\ turns' = [turns EXCEPT ![t].told = "end", ![t].outcome = outcome] /\ uncertain' = uncertain /\ waiting' = waiting
      /\ activeView' = IF activeView # 0 /\ turns'[activeView].told = "end" THEN 0 ELSE activeView
      /\ turns[t].told = "start" /\ sending[c].step = "idle"
      /\ IF activeView = t THEN Drains(c, more) ELSE Writes(more) /\ sending' = sending
  BY DEF EndRecorded, MayRecord
<1>3. /\ turns \in Seq(TurnRecords) /\ Len(turns) \in Nat /\ Len(turns) <= MaxViewTurns /\ ViewTurns = 1..Len(turns)
      /\ turns[t] \in TurnRecords /\ waiting \in Seq(ViewRequests) /\ sending \in [Chains -> Sendings]
  BY <1>1 DEF ViewsTyped, ViewTurns
<1>4. over \in TurnRecords /\ over.of = turns[t].of /\ over.told = "end" /\ over.outcome # "running"
  <2>1. outcome # "running"
    BY DEF Outcomes
  <2> QED
    BY <1>3, <2>1 DEF TurnRecords
<1>5. turns' = [turns EXCEPT ![t] = over]
  BY <1>2, <1>3
<1> HIDE DEF over
<1>6. /\ turns' \in Seq(TurnRecords) /\ Len(turns') = Len(turns) /\ ViewTurns' = ViewTurns
      /\ \A u \in ViewTurns : turns'[u] = IF u = t THEN over ELSE turns[u]
      /\ \A u \in ViewTurns : turns'[u].of = turns[u].of
  BY <1>3, <1>4, <1>5, OneTurnChanges
<1>7. TurnsContinue
  BY <1>1, <1>3, <1>4, <1>6 DEF TurnsContinue
<1>8. a \in Activities /\ a.turn = t /\ ~IsDelivered(a) /\ \A u : ~IsStart(a, u) /\ ~IsBegun(a, u) /\ (IsEnd(a, u) <=> u = t)
  <2>1. t \in 0..MaxViewTurns /\ outcome \in {"completed", "failed", "cancelled"}
    BY <1>3, JournalViewsAssumption DEF Outcomes
  <2>2. a \in Activities
    BY <2>1, TheActivities DEF TerminalPhase
  <2> QED
    BY <2>2 DEF IsStart, IsEnd, IsBegun, IsDelivered, Activity
<1>9. more \in Seq(Activities) /\ DOMAIN more = {1} /\ more[1] = a
  BY <1>8
<1> HIDE DEF more, a
<1>10. /\ Keeps(c) /\ (Rests(c) \/ TakesNext(c))
       /\ \E all \in Seq(Activities) : WritesAndTakes(more, all)
  <2>1. CASE activeView = t
    BY <1>1, <1>2, <1>3, <1>9, <2>1, DrainEffect
  <2>2. CASE activeView # t
    <3>1. Keeps(c) /\ Rests(c)
      BY <1>2, <1>3, <2>2 DEF Keeps, Rests
    <3> QED
      BY <1>2, <1>9, <2>2, <3>1 DEF WritesAndTakes
  <2> QED
    BY <2>1, <2>2
<1>11. PICK all \in Seq(Activities) : Writes(all) /\ WritesAndTakes(more, all)
  BY <1>10 DEF WritesAndTakes
<1>12. /\ 1 \in DOMAIN all /\ all[1] = a
       /\ \A k \in DOMAIN all : /\ k = 1 \/ \A u : ~IsEnd(all[k], u)
                                /\ ~IsDelivered(all[k]) /\ all[k].turn \in {0, t}
                                /\ \A u : ~IsStart(all[k], u) /\ ~IsBegun(all[k], u) /\ (u # t => ~IsEnd(all[k], u))
  <2>1. \A r, u : LET m == Message("started", r)
                  IN  m.turn = 0 /\ ~IsDelivered(m) /\ ~IsStart(m, u) /\ ~IsBegun(m, u) /\ ~IsEnd(m, u)
    BY DEF IsStart, IsEnd, IsBegun, IsDelivered, Message, Activity
  <2>2. 1 \in DOMAIN all /\ all[1] = a
    BY <1>9, <1>11 DEF WritesAndTakes
  <2>3. ASSUME NEW k \in DOMAIN all
        PROVE  /\ k = 1 \/ \A u : ~IsEnd(all[k], u)
               /\ ~IsDelivered(all[k]) /\ all[k].turn \in {0, t}
               /\ \A u : ~IsStart(all[k], u) /\ ~IsBegun(all[k], u) /\ (u # t => ~IsEnd(all[k], u))
    <3>1. CASE k \in DOMAIN more
      <4>1. k = 1 /\ all[k] = a
        BY <1>9, <2>2, <3>1
      <4> QED
        BY <1>8, <4>1
    <3>2. CASE k \notin DOMAIN more
      <4>1. PICK r \in ViewRequests : all[k] = Message("started", r)
        BY <1>11, <2>3, <3>2 DEF WritesAndTakes
      <4> QED
        BY <2>1, <4>1
    <3> QED
      BY <3>1, <3>2
  <2> QED
    BY <2>2, <2>3
<1>13. /\ \A u : Begun(u)' = Begun(u) /\ (u # t => Ends(u)' = Ends(u))
       /\ Delivered' = Delivered
  BY <1>1, <1>11, <1>12, ViewsGrow
<1>14. Longer(all)
  BY <1>1, <1>11, JournalGrows DEF ViewsTyped
<1>15. ViewsTyped'
  <2>1. activeView' \in 0..Len(turns')
    BY <1>1, <1>2, <1>3, <1>6 DEF ViewsTyped
  <2>2. \A k \in DOMAIN all : all[k].turn \in 0..Len(turns')
    BY <1>3, <1>6, <1>12
  <2> QED
    BY <1>1, <1>2, <1>3, <1>7, <1>10, <1>11, <2>1, <2>2, ViewsTypedKept DEF Keeps, ViewsTyped
<1>16. ChainsTyped'
  BY <1>1, <1>7, <1>10, <1>11, ChainsTypedKept
<1>17. ASSUME SentOnce' PROVE ViewsSound'
  <2>1. ViewsSound /\ OneAtATime /\ Told /\ ChainsApart
    BY <1>1, <1>11, <1>17, SentOnceBefore DEF ViewsInv, ViewsSound
  <2>2. Unfinished(t) /\ \A u \in ViewTurns : Unfinished(u) => u = t
    <3>1. Unfinished(t)
      BY <1>2 DEF Unfinished
    <3> QED
      BY <2>1, <3>1 DEF OneAtATime
  <2>3. \A u \in ViewTurns' : ~Unfinished(u)'
    BY <1>4, <1>6, <2>2 DEF Unfinished
  <2>4. \A d \in Chains : d # c => sending'[d] = sending[d]
    BY <1>10 DEF Keeps
  <2>5. ChainsApart'
    <3>1. ASSUME NEW d \in Chains, d # c PROVE Fronted(d)'
      <4>1. Fronted(d) /\ sending'[d] = sending[d]
        BY <2>1, <2>4, <3>1 DEF ChainsApart
      <4> QED
        BY <1>2, <4>1 DEF Fronted, AtFront
    <3>2. ~GoesOn(c)
      BY <1>2 DEF GoesOn, Active
    <3> QED
      BY <1>1, <1>10, <1>11, <1>17, <2>1, <3>1, <3>2, ApartKept
  <2>6. OneAtATime'
    <3>1. ASSUME NEW d \in Chains
          PROVE  /\ sending'[d].step = "answered" => sending'[d].turn = Len(turns')
                 /\ HasTurn(d)' => Begun(sending[d].turn)' = {}
      <4>1. CASE d = c
        BY <1>10, <4>1 DEF Rests, TakesNext, HasTurn, Taken
      <4>2. CASE d # c
        <5>1. sending'[d] = sending[d] /\ (HasTurn(d)' <=> HasTurn(d))
          BY <2>4, <4>2 DEF HasTurn, Taken
        <5>2. HasTurn(d) => Begun(sending[d].turn) = {}
          BY <2>1 DEF OneAtATime
        <5>3. sending[d].step = "answered" => sending[d].turn = Len(turns)
          BY <2>1 DEF OneAtATime
        <5> QED
          BY <1>6, <1>13, <5>1, <5>2, <5>3, BegunOfChain, ToldBefore, ToldAfter
      <4> QED
        BY <4>1, <4>2
    <3> QED
      BY <2>3, <3>1 DEF OneAtATime
  <2>7. EndsOnce'
    <3>1. Ends(t) = {}
      BY <2>1, <2>2 DEF Told, EndsOnce
    <3>2. ASSUME NEW e PROVE e \in Ends(t)' <=> e = Len(written) + 1
      <4>1. Len(written) + 1 \in DOMAIN written' /\ written'[Len(written) + 1] = a
        BY <1>12, <1>14 DEF Longer
      <4>2. Len(written) + 1 \in Ends(t)'
        BY <1>8, <4>1, ToldAfter
      <4>3. ASSUME e \in Ends(t)' PROVE e = Len(written) + 1
        <5>1. e \in DOMAIN written' /\ IsEnd(written'[e], t)
          BY <4>3, ToldAfter
        <5>2. e \notin DOMAIN written
          BY <1>14, <3>1, <5>1, ToldBefore DEF Longer
        <5>3. e \in Nat /\ Len(written) \in Nat /\ e - Len(written) \in DOMAIN all /\ written'[e] = all[e - Len(written)]
          BY <1>14, <5>1, <5>2 DEF Longer
        <5>4. e - Len(written) = 1
          BY <1>12, <5>1, <5>3
        <5> QED
          BY <5>3, <5>4
      <4> QED
        BY <4>2, <4>3
    <3>3. ASSUME NEW u \in ViewTurns'
          PROVE  turns'[u].outcome # "running" /\ Ends(u)' # {} /\ \A e, f \in Ends(u)' : e = f
      <4>1. CASE u = t
        <5>1. turns'[t].outcome # "running" /\ Ends(t)' # {} /\ \A e, f \in Ends(t)' : e = f
          BY <1>4, <1>6, <3>2
        <5> QED
          BY <4>1, <5>1
      <4>2. CASE u # t
        <5>1. u \in ViewTurns /\ ~Unfinished(u) /\ turns'[u] = turns[u] /\ Ends(u)' = Ends(u)
          BY <1>6, <1>13, <2>2, <3>3, <4>2
        <5> QED
          BY <2>1, <5>1 DEF Told, EndsOnce
      <4> QED
        BY <4>1, <4>2
    <3> QED
      BY <2>3, <3>3 DEF EndsOnce
  <2>8. DeliveredLast'
    BY <1>16, <2>3 DEF DeliveredLast, ChainsTyped, HasTurn
  <2>9. AnsweredLast'
    <3>1. \A u \in ViewTurns' : \A i \in Begun(u) :
            (\A e \in Ends(u)' : i < e) => \E m \in Delivered' : m < i /\ Answering(u, m)'
      BY <1>1, <1>7, <1>11, <1>12, <2>1, AnswersKept DEF Told
    <3> QED
      BY <1>13, <3>1 DEF AnsweredLast
  <2>10. AskedBefore'
    BY <1>1, <1>7, <1>11, <1>12, <2>1, AskedKept DEF Told
  <2> QED
    BY <2>5, <2>6, <2>7, <2>8, <2>9, <2>10 DEF ViewsSound, Told
<1> QED
  BY <1>15, <1>16, <1>17 DEF ViewsInv

\* A reconciliation takes a turn over or gives the message up.
LEMMA Reconciles ==
  ASSUME ViewsInv, Reconcile
  PROVE  ViewsInv'
BY TakesOver, GivesUp DEF Reconcile

\* The invariant holds of an empty journal.
LEMMA ViewsBegin ==
  ASSUME ViewsOfInit
  PROVE  ViewsInv
<1> USE JournalViewsAssumption DEF ViewsOfInit
<1>1. \A c \in Chains : sending[c].step = "idle"
  BY DEF NotSending
<1>2. ViewsTyped
  <2>1. NotSending \in Sendings
    BY DEF NotSending, Sendings, Steps
  <2> QED
    BY <2>1 DEF ViewsTyped
<1>3. ChainsTyped
  BY <1>1 DEF ChainsTyped, Active, HasTurn, Taken
<1>4. ChainsApart
  BY <1>1 DEF ChainsApart, Fronted, AtFront, Active
<1>5. OneAtATime
  BY <1>1 DEF OneAtATime, ViewTurns, HasTurn, Taken
<1>6. Told
  BY <1>1 DEF Told, EndsOnce, DeliveredLast, AnsweredLast, AskedBefore, Delivered, ViewTurns, Taken
<1> QED
  BY <1>2, <1>3, <1>4, <1>5, <1>6 DEF ViewsInv, ViewsSound

\* It is about the variables of this part alone.
LEMMA ViewsStay ==
  ASSUME ViewsInv, UNCHANGED viewsVars
  PROVE  ViewsInv'
<1>1. UNCHANGED <<written, sending, waiting, activeView, uncertain, turns>>
  BY DEF viewsVars
<1>2. \A t : Starts(t)' = Starts(t) /\ Ends(t)' = Ends(t) /\ Begun(t)' = Begun(t)
  BY <1>1 DEF Starts, Ends, Begun, Indices
<1>3. Delivered' = Delivered /\ ViewTurns' = ViewTurns
  BY <1>1 DEF Delivered, ViewTurns
<1>4. \A r : Announced(r)' = Announced(r) /\ (SentTwice(r)' <=> SentTwice(r))
  BY <1>1 DEF Announced, SentTwice, Indices
<1>5. ViewsTyped' /\ (SentOnce' <=> SentOnce)
  BY <1>1, <1>4 DEF ViewsInv, ViewsTyped, SentOnce
<1>6. \A c : /\ Announced(sending[c].item)' = Announced(sending[c].item)
             /\ Begun(sending[c].turn)' = Begun(sending[c].turn)
             /\ (Unfinished(sending[c].turn)' <=> Unfinished(sending[c].turn))
  BY <1>1 DEF Announced, Begun, Unfinished
<1>7. ChainsTyped'
  BY <1>1, <1>3, <1>6 DEF ViewsInv, ChainsTyped, Active, HasTurn, Taken
<1>8. ASSUME SentOnce' PROVE ViewsSound'
  <2>1. ViewsSound
    BY <1>5, <1>8 DEF ViewsInv
  <2>2. ChainsApart'
    BY <1>1, <2>1 DEF ViewsSound, ChainsApart, Fronted, Active, AtFront
  <2>3. OneAtATime'
    BY <1>1, <1>2, <1>3, <1>6, <2>1 DEF ViewsSound, OneAtATime, Unfinished, HasTurn, Taken
  <2>4. EndsOnce' /\ DeliveredLast'
    BY <1>1, <1>2, <1>3, <1>6, <2>1 DEF ViewsSound, Told, EndsOnce, DeliveredLast, Unfinished, Taken
  <2>5. AnsweredLast' /\ AskedBefore'
    BY <1>1, <1>2, <1>3, <2>1 DEF ViewsSound, Told, AnsweredLast, AskedBefore, Answering
  <2> QED
    BY <2>2, <2>3, <2>4, <2>5 DEF ViewsSound, Told
<1> QED
  BY <1>5, <1>7, <1>8 DEF ViewsInv

\* Every step keeps it.
LEMMA ViewsStep ==
  ASSUME ViewsInv, [ViewsOfNext]_viewsVars
  PROVE  ViewsInv'
<1>1. CASE UNCHANGED viewsVars
  BY <1>1, ViewsStay
<1>2. CASE (\E r \in ViewRequests : SubmitRequest(r)) \/ WriteOutbound \/ Reconcile
  BY <1>2, Submits, WritesOutbound, Reconciles
<1>3. CASE \E c \in Chains : SendRefused(c) \/ SendUncertain(c) \/ WriteLost(c) \/ TurnBegins(c) \/ TurnAccepted(c)
  BY <1>3, Refuses, LosesAnswer, WritesLost, Begins, Accepts
<1>4. CASE \E c \in Chains : WriteAccepted(c)
  <2>1. PICK c \in Chains : WriteAccepted(c)
    BY <1>4
  <2>2. sending[c].step = "accepted" \/ sending[c].step = "started"
    BY <2>1 DEF WriteAccepted
  <2> QED
    BY <2>1, <2>2, WritesStart, WritesAnswer
<1>5. CASE \E t \in ViewTurns : StartRecorded(t) \/ \E outcome \in Outcomes : EndRecorded(t, outcome)
  BY <1>5, RecordsStart, RecordsEnd
<1> QED
  BY <1>1, <1>2, <1>3, <1>4, <1>5 DEF ViewsOfNext

\* It holds of every behaviour.
LEMMA ViewsInvariant == ViewsOfSpec => []ViewsInv
<1>1. ViewsOfInit => ViewsInv
  BY ViewsBegin
<1>2. ViewsInv /\ [ViewsOfNext]_viewsVars => ViewsInv'
  BY ViewsStep
<1> QED
  BY <1>1, <1>2, PTL DEF ViewsOfSpec

\* The question found backwards from a turn's start is the turn's own if the answer of turn/start was on record
\* when the turn ended, and one of before otherwise.
LEMMA QuestionIsOwn ==
  ASSUME ViewsInv
  PROVE  NoteHasItsQuestion
<1> SUFFICES ASSUME SentOnce, NEW t \in ViewTurns, HasScope(t), Question(t) # turns[t].of
             PROVE  /\ \A i \in Begun(t) : First(Ends(t)) < i
                    /\ \E u \in ViewTurns : u < t /\ Question(t) = turns[u].of
  BY DEF NoteHasItsQuestion, SentOnce, Begun
<1>1. ViewsTyped /\ EndsOnce /\ AnsweredLast /\ AskedBefore
  BY DEF ViewsInv, ViewsSound, Told
<1> DEFINE n == Len(written)
           asked == Questions(t)
           last == Latest(Starts(t))
           found == Latest(asked)
           end == First(Ends(t))
<1>2. n \in Nat /\ DOMAIN written = 1..n /\ ViewTurns \subseteq Nat
  BY <1>1 DEF ViewsTyped, ViewTurns
<1>3. Starts(t) \subseteq 1..n /\ Starts(t) # {} /\ Ends(t) \subseteq 1..n /\ Ends(t) # {}
  BY <1>2, ToldBefore DEF HasScope
<1>4. last \in Starts(t) /\ last \in Nat /\ \A k \in Starts(t) : k <= last
  BY <1>2, <1>3, LastPlace
<1>5. end \in Ends(t) /\ end \in Nat /\ \A e \in Ends(t) : e = end
  BY <1>1, <1>2, <1>3, FirstPlace DEF EndsOnce
<1>6. last < end
  <2>1. Latest(Ends(t)) \in Ends(t)
    BY <1>2, <1>3, LastPlace
  <2>2. Latest(Ends(t)) > last
    BY DEF HasScope
  <2>3. Latest(Ends(t)) = end
    BY <1>5, <2>1
  <2> QED
    BY <1>4, <1>5, <2>2, <2>3
<1>7. asked = {j \in Delivered : j < last} /\ asked \subseteq 1..n /\ asked # {}
  BY <1>2 DEF Questions, Delivered, Indices, HasScope
<1>8. found \in asked /\ found \in Nat /\ \A m \in asked : m <= found
  <2>1. found \in asked /\ \A m \in asked : m <= found
    <3> HIDE DEF asked, n
    <3> QED
      BY <1>2, <1>7, LastPlace
  <2> QED
    BY <1>2, <1>7, <2>1
<1>9. Question(t) = written[found].item
  BY DEF Question
<1>10. ASSUME NEW i \in Begun(t) PROVE end < i
  <2>1. i \in Starts(t) /\ i \in Nat
    <3>1. i \in DOMAIN written /\ written[i] = Activity("turn/start", "started", 0, t)
      BY DEF Begun
    <3>2. IsStart(written[i], t)
      BY <3>1 DEF IsStart, Activity
    <3> QED
      BY <1>2, <3>1, <3>2, ToldBefore
  <2>2. SUFFICES ASSUME ~(end < i) PROVE FALSE
    OBVIOUS
  <2>3. \A e \in Ends(t) : i < e
    BY <1>4, <1>5, <1>6, <2>1
  <2>4. PICK m \in Delivered : m < i /\ Answering(t, m)
    BY <1>1, <2>3 DEF AnsweredLast
  <2>5. m \in asked /\ m \in Nat
    <3>1. m \in Nat
      BY <1>2, ToldBefore
    <3> QED
      BY <1>4, <1>7, <2>1, <2>4, <3>1
  <2>6. ~(found > m)
    <3>1. found \in Delivered /\ found < last
      BY <1>7, <1>8
    <3> QED
      BY <1>4, <1>8, <2>4, <3>1 DEF Answering
  <2>7. found = m
    BY <1>8, <2>5, <2>6
  <2> QED
    BY <1>9, <2>4, <2>7 DEF Answering
<1>11. \E u \in ViewTurns : u < t /\ Question(t) = turns[u].of
  <2>1. found \in Delivered /\ found < last /\ \A e \in Ends(t) : last < e
    BY <1>5, <1>6, <1>7, <1>8
  <2>2. PICK u \in ViewTurns : u <= t /\ turns[u].of = written[found].item
    BY <1>1, <1>4, <2>1 DEF AskedBefore
  <2>3. u # t
    BY <1>9, <2>2
  <2>4. u < t
    BY <1>2, <2>2, <2>3
  <2> QED
    BY <1>9, <2>2, <2>4
<1> QED
  BY <1>10, <1>11

\* Whatever the chains send and record in between, the note of a turn is asked to answer the question that the
\* turn was started for, or one of before if the answer of turn/start was not on record when the turn ended, as
\* long as no message was sent twice.
THEOREM NotesAnswerTheirQuestion == ViewsOfSpec => []NoteHasItsQuestion
<1>1. ViewsInv => NoteHasItsQuestion
  BY QuestionIsOwn
<1> QED
  BY <1>1, ViewsInvariant, PTL

\* The journal's variables keep their types; in particular the active turn is a turn.
THEOREM JournalViewsAreTyped == ViewsOfSpec => []JournalViewsTypeOK
<1>1. ASSUME ViewsInv PROVE JournalViewsTypeOK
  <2>1. ViewsTyped
    BY <1>1 DEF ViewsInv
  <2>2. ToSet(waiting) \subseteq ViewRequests
    BY <2>1 DEF ViewsTyped, ToSet
  <2>3. \A t \in ViewTurns : turns[t] \in TurnRecords
    BY <2>1 DEF ViewsTyped, ViewTurns
  <2>4. \A c \in Chains : sending[c] \in Sendings
    BY <2>1 DEF ViewsTyped
  <2> QED
    BY <2>1, <2>2, <2>3, <2>4 DEF JournalViewsTypeOK, ViewsTyped, Sendings, TurnRecords
<1> QED
  BY <1>1, ViewsInvariant, PTL

=============================================================================
