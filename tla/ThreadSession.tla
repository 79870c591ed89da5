----------------------------- MODULE ThreadSession -----------------------------
(***************************************************************************)
(* Processes that open, use and leave one native thread:                   *)
(* createProjectWorkbenchSession and ProjectWorkbench.initialize over the  *)
(* lease and the journal of the thread                                     *)
(* (src/infrastructure/project-workbench-session.ts).                      *)
(*                                                                         *)
(* Whoever resumes the thread reads its journal first and acquires its     *)
(* lease then.  Whoever creates it journals what the harness notifies from *)
(* the moment the journal is bound, before its lease is acquired, and      *)
(* stays on the thread when the lease is refused.                          *)
(***************************************************************************)
EXTENDS SessionLease, ActivityJournal

\* A process that has the thread open writes its journal.
NoProcess == 0
Gone == -1
ASSUME ThreadAssumption == Writers = Processes /\ {NoProcess, Gone} \intersect Processes = {}

VARIABLES
  creator,     \* the process that created the thread, NoProcess before, Gone after it has left
  closing,     \* processes in close()
  early        \* the thread was resumed while its creator had no lease yet

threadVars == <<leaseVars, journalVars, creator, closing, early>>

Busy(p) == step[p] # "idle"

\* startChatTurn: native.startThread, then acquireThreadLease binds the journal.
Create(p) ==
  /\ creator = NoProcess /\ creator' = p
  /\ Acquire(p)
  /\ UNCHANGED <<journalVars, closing, early>>

\* initialize: journal.readAll, then acquireThreadLease.  A journal that cannot
\* be read ends the process before it asks for the lease.  Nothing keeps a process
\* from resuming the thread as soon as native knows it, its creator's lease or not.
Resume(p) ==
  /\ creator # NoProcess
  /\ Readable(lines)
  /\ Acquire(p) /\ ReadAll(p)
  /\ early' = (early \/ creator \in Opening)
  /\ UNCHANGED <<creator, closing>>

Lease(p) ==
  /\ AcquireStep(p) \/ ReleaseStep(p)
  /\ UNCHANGED <<journalVars, creator, closing, early>>

\* Its events are journaled once it is ready; the creator's, once bound.
MayAppend(p) ==
  \/ lease[p] = "held"
  \/ p = creator /\ lease[p] \in {"open", "created", "exists", "stale", "refused"}

Observe(p, o) ==
  /\ MayAppend(p) /\ p \notin closing
  /\ StartAppend(p, o)
  /\ UNCHANGED <<leaseVars, creator, closing, early>>

Journal(p) ==
  /\ AppendStep(p)
  /\ UNCHANGED <<leaseVars, creator, closing, early>>

\* close(): no more events, the event chain settles, the lease is released.
Leave(p) ==
  /\ p \notin closing /\ lease[p] \in {"held", "refused"}
  /\ closing' = closing \union {p}
  /\ UNCHANGED <<leaseVars, journalVars, creator, early>>

\* Mutant of CloseSession: the lease is released while an append is under way.
CloseWithoutWaiting(p) ==
  /\ p \in closing
  /\ Release(p)
  /\ UNCHANGED <<journalVars, creator, closing, early>>
CloseSession(p) ==
  /\ p \in closing /\ ~Busy(p)
  /\ Release(p)
  /\ UNCHANGED <<journalVars, creator, closing, early>>

Forget(p) ==
  /\ closing' = closing \ {p} /\ UNCHANGED early
  /\ creator' = IF creator = p THEN Gone ELSE creator

ExitSession(p) ==
  /\ lease[p] = "refused" /\ ~Busy(p)
  /\ p = creator => p \in closing
  /\ LeaseExit(p) /\ JournalCrash(p) /\ Forget(p)

Crash(p) == LeaseCrash(p) /\ JournalCrash(p) /\ Forget(p)

ThreadInit == LeaseInit /\ JournalInit /\ creator = NoProcess /\ closing = {} /\ early = FALSE

ThreadNext ==
  \E p \in Processes :
    \/ Create(p) \/ Resume(p) \/ Lease(p)
    \/ (\E o \in Observations : Observe(p, o)) \/ Journal(p)
    \/ Leave(p) \/ CloseSession(p) \/ ExitSession(p) \/ Crash(p)

ThreadSpec == ThreadInit /\ [][ThreadNext]_threadVars

-----------------------------------------------------------------------------
(* Properties.                                                             *)

\* The code promises one writer but leaves two doors open, and what goes through them
\* is recorded: a live process lost its lock to a second takeover of a dead one's
\* (robbed; LeaseTakeover.cfg), and the thread was resumed beside a creator that
\* journals before it has its lease (early).

\* As long as no live process lost its lock, at most one holds the lease of the thread,
\* through crashes, takeovers, reused pids and a release that races an acquisition; and if
\* nobody resumed the thread before its creator had its lease, at most one process is in
\* the middle of an append, the creator before its lease included: what keeps two
\* processes from journaling under the same numbers.
OneWriter ==
  robbed = {} =>
    /\ Cardinality(Holders) <= 1
    /\ ~early => \A p, q \in Processes : Busy(p) /\ Busy(q) => p = q

\* JournalKept for a thread that several processes open one after the other.  It rests on
\* its one writer, so it is said of the same threads: nobody was robbed of the lock, and
\* nobody resumed the thread before its creator had its lease.  Otherwise two processes
\* number their lines alike, and the journal cannot be read back.
ThreadJournalKept == robbed = {} /\ ~early => JournalKept
=============================================================================
