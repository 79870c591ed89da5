---------------------------- MODULE ActivityJournal ----------------------------
(***************************************************************************)
(* The journal file of one native thread, as ActivityJournalStore reads    *)
(* and writes it (src/infrastructure/activity-journal-store.ts).           *)
(*                                                                         *)
(* Within a process operations on a file are queued one behind the other   *)
(* (serialize), so a process is in one operation at a time.  Processes     *)
(* share the file and nothing else.  A file is its complete lines and      *)
(* whether an unterminated one follows; its size stands for both.  A line  *)
(* is its sequence number and what it observes.                            *)
(***************************************************************************)
EXTENDS Integers, Sequences

CONSTANTS
  Writers,           \* processes
  Observations,      \* what is recorded
  Terminal,          \* those with a terminal phase: recorded once
  MaxAppends,        \* calls of append in a behaviour
  MaxWriteFaults     \* writes or syncs that throw

ASSUME JournalAssumption ==
  /\ Terminal \subseteq Observations
  /\ MaxAppends \in Nat /\ MaxWriteFaults \in Nat

NoObservation == "none"
NoCache == [known |-> FALSE]

VARIABLES
  lines,        \* complete lines of the file
  residue,      \* an unterminated line follows them
  step,         \* the await each process is suspended at
  input,        \* what it appends
  cache,        \* journalStates: [known, lines], the size of the file follows
  acked,        \* lines append() answered for with appended: true
  appends, writeFaults

journalVars == <<lines, residue, step, input, cache, acked, appends, writeFaults>>

Steps == {"idle", "stat", "load", "truncate", "write"}

JournalStep(p, from, to) == step[p] = from /\ step' = [step EXCEPT ![p] = to]
Remember(p, ls) == cache' = [cache EXCEPT ![p] = [known |-> TRUE, lines |-> ls]]

\* cached && cached.fileSize === fileSize
CacheCurrent(p) ==
  cache[p].known /\ ~residue /\ Len(cache[p].lines) = Len(lines)

\* state.terminalObservations.get(terminalObservationKey(input))
Recorded(ls, o) == o \in Terminal /\ \E i \in DOMAIN ls : ls[i].observes = o

\* loadState throws on a line that is not an entry or out of sequence.
Readable(ls) == \A i \in DOMAIN ls : ls[i].seq = i

NextSeq(ls) == IF ls = <<>> THEN 1 ELSE ls[Len(ls)].seq + 1

-----------------------------------------------------------------------------

Least(m, n) == IF m < n THEN m ELSE n

\* readAll: crash residue is not read, and not removed.
ReadAll(p) ==
  /\ step[p] = "idle"
  /\ IF Readable(lines) THEN Remember(p, lines) ELSE UNCHANGED cache
  /\ UNCHANGED <<lines, residue, step, input, acked, appends, writeFaults>>

StartAppend(p, o) ==
  /\ appends < MaxAppends /\ appends' = appends + 1
  /\ JournalStep(p, "idle", "stat")
  /\ input' = [input EXCEPT ![p] = o]
  /\ UNCHANGED <<lines, residue, cache, acked, writeFaults>>

\* cachedState, and with a current cache the look for a duplicate.
Stat(p) ==
  /\ JournalStep(p, "stat", IF ~CacheCurrent(p) THEN "load"
                            ELSE IF Recorded(cache[p].lines, input[p]) THEN "idle" ELSE "write")
  /\ UNCHANGED <<lines, residue, input, cache, acked, appends, writeFaults>>

\* Mutant of AfterLoad: crash residue stays, as readAll leaves it.
WriteAfterLoad(dirty, recorded) == IF recorded THEN "idle" ELSE "write"

\* Crash residue is cut off, then the duplicate looked for.
AfterLoad(dirty, recorded) ==
  IF dirty THEN "truncate" ELSE IF recorded THEN "idle" ELSE "write"

\* loadState(projectId, true): readFile and the checks.
Load(p) ==
  /\ IF Readable(lines)
     THEN /\ Remember(p, lines)
          /\ JournalStep(p, "load", AfterLoad(residue, Recorded(lines, input[p])))
     ELSE UNCHANGED cache /\ JournalStep(p, "load", "idle")
  /\ UNCHANGED <<lines, residue, input, acked, appends, writeFaults>>

\* truncate(path, validBytes), to the length that was read.  If another process has cut
\* more off by then, the file grows to that length again, by what is no line.
TruncateResidue(p) ==
  /\ JournalStep(p, "truncate", IF Recorded(cache[p].lines, input[p]) THEN "idle" ELSE "write")
  /\ lines' = SubSeq(lines, 1, Least(Len(lines), Len(cache[p].lines)))
  /\ residue' = (Len(lines) < Len(cache[p].lines))
  /\ UNCHANGED <<input, cache, acked, appends, writeFaults>>

\* The line as it ends up in the file: behind residue it is part of a broken one.
Written(p) ==
  [seq |-> IF residue THEN 0 ELSE NextSeq(cache[p].lines), observes |-> input[p]]

\* appendLine: written and synced; or an error after all or part was written.
WriteLine(p) ==
  /\ JournalStep(p, "write", "idle")
  /\ UNCHANGED <<input, appends>>
  /\ \/ /\ lines' = Append(lines, Written(p))
        /\ residue' = FALSE
        /\ Remember(p, Append(cache[p].lines, Written(p)))
        /\ acked' = acked \union {Written(p)}
        /\ UNCHANGED writeFaults
     \/ /\ writeFaults < MaxWriteFaults /\ writeFaults' = writeFaults + 1
        /\ \/ lines' = Append(lines, Written(p)) /\ residue' = FALSE
           \/ residue' = TRUE /\ UNCHANGED lines
        /\ UNCHANGED <<cache, acked>>

\* The process ends, in an append with any part of the line in the file.
JournalCrash(p) ==
  /\ step' = [step EXCEPT ![p] = "idle"]
  /\ cache' = [cache EXCEPT ![p] = NoCache]
  /\ \/ UNCHANGED <<lines, residue>>
     \/ step[p] = "write" /\ residue' = TRUE /\ UNCHANGED lines
     \/ step[p] = "write" /\ lines' = Append(lines, Written(p)) /\ residue' = FALSE
  /\ UNCHANGED <<input, acked, appends, writeFaults>>

JournalInit ==
  /\ lines = <<>> /\ residue = FALSE
  /\ step = [p \in Writers |-> "idle"]
  /\ input = [p \in Writers |-> NoObservation]
  /\ cache = [p \in Writers |-> NoCache]
  /\ acked = {} /\ appends = 0 /\ writeFaults = 0

AppendStep(p) == Stat(p) \/ Load(p) \/ TruncateResidue(p) \/ WriteLine(p)

-----------------------------------------------------------------------------
(* Properties.                                                             *)

Line == [seq : Nat, observes : Observations]
Caches == {NoCache} \union [known : {TRUE}, lines : Seq(Line)]
JournalTypeOK ==
  /\ lines \in Seq(Line) /\ residue \in BOOLEAN
  /\ step \in [Writers -> Steps]
  /\ input \in [Writers -> Observations \union {NoObservation}]
  /\ cache \in [Writers -> Caches]
  /\ acked \subseteq Line
  /\ appends \in 0..MaxAppends /\ writeFaults \in 0..MaxWriteFaults

\* The journal can always be read back: its lines are entries numbered 1, 2, 3, through
\* crashes in the middle of a line, failed writes and restarts.  What append() answered for
\* stays where it was put: cutting off residue never cuts an entry.  And a terminal
\* observation is recorded once, however often the harness repeats it.  Said of a journal
\* with one writer at a time: which threads have one, ThreadSession tells.
JournalKept ==
  /\ Readable(lines)
  /\ \A l \in acked : l.seq \in DOMAIN lines /\ lines[l.seq] = l
  /\ \A i, j \in DOMAIN lines :
       lines[i].observes = lines[j].observes /\ lines[i].observes \in Terminal => i = j

=============================================================================
