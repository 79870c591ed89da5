----------------------------- MODULE SessionLease -----------------------------
(***************************************************************************)
(* The lease of one native thread: acquireSessionLease, its takeover of a  *)
(* dead process's lock, and release                                        *)
(* (src/infrastructure/project-workspace.ts).                              *)
(*                                                                         *)
(* A process is its pid.  A pid that runs again is another process with    *)
(* the same number.  The lock file is identified by the token of whoever   *)
(* created it.  One action is the code between two awaits.                 *)
(***************************************************************************)
EXTENDS Integers, FiniteSets

CONSTANTS
  Processes,         \* pids
  MaxAcquisitions,   \* calls of acquireSessionLease in a behaviour
  MaxCrashes

ASSUME LeaseAssumption ==
  /\ MaxAcquisitions \in Nat /\ MaxCrashes \in Nat

NoToken == 0
NoLock  == [token |-> NoToken]

VARIABLES
  running,     \* the pids of live processes
  lock,        \* the file: NoLock, or [token, pid, written]
  lease,       \* how far each process is with its lease
  token,       \* of each process's acquisition
  tokens,      \* acquisitions so far
  robbed,      \* processes whose lock was removed while they lived
  crashes

leaseVars == <<running, lock, lease, token, tokens, robbed, crashes>>

LeaseStates ==
  {"none", "open", "created", "exists", "stale", "held", "refused",
   "release", "remove"}
Opening == {p \in Processes : lease[p] \in {"open", "created", "exists", "stale"}}

LockExists == lock.token # NoToken

\* typeof pid === "number" && !isProcessAlive(pid)
MayTakeOver(pid) == pid \notin running

LeaseStep(p, from, to) == lease[p] = from /\ lease' = [lease EXCEPT ![p] = to]
NoMoreTokens == UNCHANGED <<running, token, tokens, crashes>>

-----------------------------------------------------------------------------
(* acquireSessionLease.                                                    *)

Acquire(p) ==
  /\ tokens < MaxAcquisitions
  /\ LeaseStep(p, "none", "open")
  /\ tokens' = tokens + 1
  /\ token' = [token EXCEPT ![p] = tokens + 1]
  /\ running' = running \union {p}
  /\ UNCHANGED <<lock, robbed, crashes>>

\* open(path, "wx")
OpenExclusive(p) ==
  /\ \/ /\ ~LockExists
        /\ LeaseStep(p, "open", "created")
        /\ lock' = [token |-> token[p], pid |-> p, written |-> FALSE]
     \/ /\ LockExists
        /\ LeaseStep(p, "open", "exists")
        /\ UNCHANGED lock
  /\ NoMoreTokens /\ UNCHANGED robbed

\* handle.writeFile: into the file this process created, if it still has a name.
WriteOwner(p) ==
  /\ LeaseStep(p, "created", "held")
  /\ lock' = IF lock.token = token[p] THEN [lock EXCEPT !.written = TRUE] ELSE lock
  /\ NoMoreTokens /\ UNCHANGED robbed

\* An unreadable or vanished file refuses, and so does a live owner.
ReadOwner(p) ==
  /\ \/ /\ LockExists /\ lock.written /\ MayTakeOver(lock.pid)
        /\ LeaseStep(p, "exists", "stale")
     \/ /\ ~(LockExists /\ lock.written /\ MayTakeOver(lock.pid))
        /\ LeaseStep(p, "exists", "refused")
  /\ NoMoreTokens /\ UNCHANGED <<lock, robbed>>

\* rm(path, { force: true }), whatever the file is by now; then acquire() again.
RemoveStale(p) ==
  /\ LeaseStep(p, "stale", "open")
  /\ lock' = NoLock
  /\ robbed' = robbed \union
       {q \in running : LockExists /\ lock.pid = q /\ lock.token = token[q]}
  /\ NoMoreTokens

-----------------------------------------------------------------------------
(* release and the end of a process.                                       *)

Release(p) ==
  /\ LeaseStep(p, "held", "release")
  /\ NoMoreTokens /\ UNCHANGED <<lock, robbed>>

\* owner.token === token
OwnsLock(p) == LockExists /\ lock.token = token[p]

ReadOwnLock(p) ==
  /\ \/ OwnsLock(p) /\ LeaseStep(p, "release", "remove")
     \/ ~OwnsLock(p) /\ LeaseStep(p, "release", "refused")
  /\ NoMoreTokens /\ UNCHANGED <<lock, robbed>>

RemoveOwnLock(p) ==
  /\ LeaseStep(p, "remove", "refused")
  /\ lock' = NoLock
  /\ NoMoreTokens /\ UNCHANGED robbed

\* The process ends after it was refused, or after release.
LeaseExit(p) ==
  /\ LeaseStep(p, "refused", "none")
  /\ running' = running \ {p}
  /\ token' = [token EXCEPT ![p] = NoToken]
  /\ UNCHANGED <<lock, tokens, robbed, crashes>>

LeaseCrash(p) ==
  /\ crashes < MaxCrashes /\ crashes' = crashes + 1
  /\ p \in running
  /\ running' = running \ {p}
  /\ lease' = [lease EXCEPT ![p] = "none"]
  /\ token' = [token EXCEPT ![p] = NoToken]
  /\ UNCHANGED <<lock, tokens, robbed>>

LeaseInit ==
  /\ running = {} /\ lock = NoLock
  /\ lease = [p \in Processes |-> "none"]
  /\ token = [p \in Processes |-> NoToken]
  /\ tokens = 0 /\ robbed = {} /\ crashes = 0

AcquireStep(p) ==
  OpenExclusive(p) \/ WriteOwner(p) \/ ReadOwner(p) \/ RemoveStale(p)
ReleaseStep(p) == ReadOwnLock(p) \/ RemoveOwnLock(p)

LeaseNext ==
  \E p \in Processes :
    \/ Acquire(p) \/ AcquireStep(p) \/ Release(p) \/ ReleaseStep(p)
    \/ LeaseExit(p) \/ LeaseCrash(p)

LeaseSpec == LeaseInit /\ [][LeaseNext]_leaseVars

-----------------------------------------------------------------------------
(* Properties.                                                             *)

LeaseTypeOK ==
  /\ running \subseteq Processes
  /\ lock \in {NoLock} \union
       [token : 1..MaxAcquisitions, pid : Processes, written : BOOLEAN]
  /\ lease \in [Processes -> LeaseStates]
  /\ token \in [Processes -> 0..MaxAcquisitions]
  /\ tokens \in 0..MaxAcquisitions
  /\ robbed \subseteq Processes
  /\ crashes \in 0..MaxCrashes

Holders == {p \in Processes : lease[p] \in {"held", "release", "remove"}}

\* A lock is taken over only from a process that is dead
\* (test: "reclaims a lease only after confirming its owner process is dead").
ReclaimsOnlyTheDead == robbed = {}

=============================================================================
