----------------------------- MODULE ChatOutbox -----------------------------
(***************************************************************************)
(* What chat delivery promises the user, without queues, chains or         *)
(* notifications: every message goes out at most once, in the order of     *)
(* dispatch, and the next one only when the fate of the one before is      *)
(* known and its turn is over.                                             *)
(***************************************************************************)
EXTENDS Integers

CONSTANT Messages    \* numbered from 1 in the order of dispatch

Resumed == 0         \* stands for the turn a resumed session found in progress

VARIABLE status      \* of each message

Statuses ==
  {"new",            \* not handed over, perhaps never to be
   "out",            \* handed to the harness, which has not answered
   "unknown",        \* nobody knows whether the harness took it
   "running", "over",
   "refused"}        \* not taken, and never to be

\* No message is on its way and no turn runs.
Free == \A m \in Messages \union {Resumed} : status[m] \notin {"out", "unknown", "running"}

Become(m, s) == status' = [status EXCEPT ![m] = s]

HandOver(m) ==
  /\ status[m] = "new" /\ Free
  /\ \A n \in Messages : n > m => status[n] = "new"
  /\ Become(m, "out")
Take(m)   == status[m] \in {"out", "unknown"} /\ Become(m, "running")
Lose(m)   == status[m] = "out" /\ Become(m, "unknown")
Refuse(m) == status[m] \in {"out", "unknown"} /\ Become(m, "refused")
Finish(m) == status[m] = "running" /\ Become(m, "over")

Init ==
  /\ status \in [Messages \union {Resumed} -> Statuses]
  /\ status[Resumed] \in {"running", "over"}
  /\ \A m \in Messages : status[m] = "new"

\* A step is the step of one message; the resumed turn can only end.
Step(m) ==
  \/ Finish(m)
  \/ m \in Messages /\ (HandOver(m) \/ Take(m) \/ Lose(m) \/ Refuse(m))

Next == status' # status /\ \E m \in Messages \union {Resumed} : Step(m)

Spec == Init /\ [][Next]_status
=============================================================================
