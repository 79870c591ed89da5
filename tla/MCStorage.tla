------------------------------ MODULE MCStorage ------------------------------
(***************************************************************************)
(* The parts of World Wide Woo that share files with other processes and   *)
(* editors, on small instances for TLC.  The parts have no state in common *)
(* (but for lease and journal, which ThreadSession composes), so a         *)
(* behaviour is one of one part: part is chosen at first and stays.        *)
(***************************************************************************)
EXTENDS ThreadSession, TodoLedger, CanonicalPromotion

\* A command and the mirror of the native plan in one process, the mirror of another process.
MCLedgerOf == [command |-> "here", mirror |-> "here", other |-> "there"]
MCPlans == {<<"running">>}

\* A pid is as good as another: the first acquisition is process 1's, the second
\* process 1's or 2's, and so on.
MCFirstPidsFirst == \A p \in Processes : token[p] # NoToken => p <= token[p]

VARIABLE part
storageVars == <<threadVars, todoVars, promotionVars, part>>

MCInit ==
  /\ ThreadInit /\ TodoInit /\ PromotionInit
  /\ part \in {"thread", "ledger", "promotion"}

MCNext ==
  /\ UNCHANGED part
  /\ \/ /\ part = "thread" /\ ThreadNext /\ MCFirstPidsFirst'
        /\ UNCHANGED <<todoVars, promotionVars>>
     \/ /\ part = "ledger" /\ TodoNext
        /\ UNCHANGED <<threadVars, promotionVars>>
     \/ /\ part = "promotion" /\ PromotionNext
        /\ UNCHANGED <<threadVars, todoVars>>

MCSpec == MCInit /\ [][MCNext]_storageVars

\* The type invariants of the parts.
StorageTypeOK ==
  LeaseTypeOK /\ JournalTypeOK /\ TodoTypeOK /\ PromotionTypeOK
=============================================================================
